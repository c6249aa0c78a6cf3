-------------------------- MODULE InstrumentRegistry --------------------------
(***************************************************************************)
(* What the registry promises about instruments of a kind, with no handler *)
(* in sight: an instrument appears at once, with its code, its kind and    *)
(* the assets it is written on, and from then on it neither changes nor    *)
(* goes away, and its assets stay registered.  Instruments is the          *)
(* handler-level specification that is shown to implement this one.        *)
(***************************************************************************)
CONSTANTS
  Assets, Ids, Codes, Kinds

VARIABLES
  assets,   \* ids of the registered assets
  listed    \* instruments <<id, code, kind, assets it is written on>>

registryVars == <<assets, listed>>

Init ==
  /\ assets = {}
  /\ listed = {}

Register(a) ==
  /\ assets' = assets \cup {a}
  /\ UNCHANGED listed

(* An asset stays as long as an instrument is written on it. *)
Retire(a) ==
  /\ \A x \in listed : a \notin x[4]
  /\ assets' = assets \ {a}
  /\ UNCHANGED listed

List(i, k, kind, refs) ==
  /\ \A x \in listed : x[1] # i /\ x[2] # k
  /\ refs # {} /\ refs \subseteq assets
  /\ listed' = listed \cup {<<i, k, kind, refs>>}
  /\ UNCHANGED assets

Next ==
  \/ \E a \in Assets : Register(a) \/ Retire(a)
  \/ \E i \in Ids, k \in Codes, kind \in Kinds, refs \in SUBSET Assets :
       List(i, k, kind, refs)

Spec == Init /\ [][Next]_registryVars

-------------------------------------------------------------------------------

(***************************************************************************)
(* No two instruments share an id or a code, whatever their kinds, and     *)
(* each is written on registered assets, however assets come and go.       *)
(***************************************************************************)
RegistryInv ==
  /\ \A x, y \in listed : x[1] = y[1] \/ x[2] = y[2] => x = y
  /\ \A x \in listed : x[4] # {} /\ x[4] \subseteq assets

(***************************************************************************)
(* An instrument stays listed as it is: neither a failed or repeated       *)
(* create nor the deletion of an asset takes it away or changes it.        *)
(***************************************************************************)
ListedForGood == [][listed \subseteq listed']_registryVars
===============================================================================
