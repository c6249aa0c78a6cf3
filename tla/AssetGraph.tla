------------------------------ MODULE AssetGraph ------------------------------
(***************************************************************************)
(* What the registry promises about asset relationships, with no handler   *)
(* in sight: a directed graph per relationship type, whose edges join      *)
(* registered assets and are only added where they close no cycle.         *)
(* RelationshipGraph is the handler-level specification that is shown to   *)
(* implement this one when its calls do not overlap.                       *)
(***************************************************************************)
EXTENDS TypedGraphs

VARIABLES
  assets,         \* ids that are registered
  relationships   \* edges between registered assets

graphVars == <<assets, relationships>>

Init ==
  /\ assets = {}
  /\ relationships = {}

Register(a) ==
  /\ a \notin assets
  /\ assets' = assets \cup {a}
  /\ UNCHANGED relationships

(* An asset takes its relationships with it. *)
Retire(a) ==
  /\ a \in assets
  /\ assets' = assets \ {a}
  /\ relationships' = {r \in relationships : a \notin {r[1], r[2]}}

Relate(f, t, ty) ==
  /\ {f, t} \subseteq assets
  /\ ~ Reaches(relationships, ty, t, f)
  /\ relationships' = relationships \cup {<<f, t, ty>>}
  /\ UNCHANGED assets

Next ==
  \/ \E a \in Assets : Register(a) \/ Retire(a)
  \/ \E f, t \in Assets, ty \in Types : Relate(f, t, ty)

Spec == Init /\ [][Next]_graphVars

-------------------------------------------------------------------------------

(***************************************************************************)
(* The registry's graph: edges join registered assets, and no chain of     *)
(* edges of one type comes back to where it started, whatever is           *)
(* registered, retired and related in between.                             *)
(***************************************************************************)
GraphInv ==
  /\ assets \subseteq Assets
  /\ relationships \subseteq assets \X assets \X Types
  /\ Acyclic(relationships)
===============================================================================
