------------------------------ MODULE Instruments ------------------------------
(***************************************************************************)
(* InstrumentManager: CreateInstrument and the creates of the six kinds    *)
(* built on it, the tables instruments and spot_instruments ...            *)
(* lending_borrows they write, and the assets these refer to.  A create    *)
(* commits the base row first and only then looks at the assets, at the    *)
(* fields of the kind and at the kind's own table, each in a statement of  *)
(* its own and without a transaction around them.                          *)
(*                                                                         *)
(* Not modelled: the checks of the base instrument's shape, which refuse   *)
(* before anything is written; the event, which is only logged; the type   *)
(* column of the base row, which nothing ties to the kind of its subtype.  *)
(***************************************************************************)
EXTENDS Naturals

CONSTANTS
  Assets,
  Ids,            \* UUIDs of instruments, generated or given by the caller
  Codes,          \* codes of instruments
  Callers,        \* concurrent creates
  Requests,       \* what callers may ask for
  DatabaseFails   \* whether a statement may return an error

Kinds == {"SPOT", "PERPETUAL", "FUTURE", "OPTION", "LENDING_DEPOSIT",
          "LENDING_BORROW"}

(***************************************************************************)
(* What may be wrong with the fields of a kind: "terms" - an expiry,       *)
(* strike price, option type or exercise style that the manager asks for   *)
(* is missing or unknown; "multiplier" - a number the table needs is       *)
(* missing or not positive; "case" - an option's labels are spelled in     *)
(* another case.                                                           *)
(***************************************************************************)
Flaws == {"none", "terms", "multiplier", "case"}

(* A request; refs holds the assets it names: of a spot the base and quote. *)
RequestType ==
  [code : Codes, kind : Kinds \cup {"BASE"}, refs : SUBSET Assets, flaw : Flaws]

ASSUME ConstantsAssumption ==
  /\ Requests \subseteq RequestType
  /\ DatabaseFails \in BOOLEAN

VARIABLES
  assets,        \* ids of the rows of table assets
  retired,       \* ids of deleted assets: Redis may still serve them
  instruments,   \* rows <<id, code>> of table instruments
  subtypes,      \* rows <<instrument_id, kind, assets>> of the six tables
  pc,            \* where each create is
  req,           \* its request, or NoRequest
  id,            \* the id of its instrument
  reply,         \* how the caller was last answered
  bare,          \* history: ids made by CreateInstrument alone
  abandoned      \* history: ids whose create ended after the base row only

handlerVars == <<pc, req, id, reply>>
vars == <<assets, retired, instruments, subtypes, pc, req, id, reply, bare,
          abandoned>>

NoRequest == [kind |-> "none"]

Stages == {"idle", "base", "assets", "check", "insert"}

Replies == {"none", "OK", "InvalidArgument", "Internal"}

(* The create has committed its base row. *)
PastBase(c) == pc[c] \in {"assets", "check", "insert"}

-------------------------------------------------------------------------------
(* What the managers of the kinds ask of a request's own fields.           *)

PerpValid(q) == q.refs # {}

FutureValid(q) == q.refs # {} /\ q.flaw # "terms"

OptionValid(q) == q.refs # {} /\ q.flaw # "terms"

(* Spot, deposit and borrow: nothing beyond the assets that are named. *)
Valid(q) ==
  /\ q.kind = "PERPETUAL" => PerpValid(q)
  /\ q.kind = "FUTURE" => FutureValid(q)
  /\ q.kind = "OPTION" => OptionValid(q)

-------------------------------------------------------------------------------
(* What the repository's create of each kind lets through: its EXISTS      *)
(* queries, and the constraints of the table it inserts into.              *)

(* Fault: the foreign key to assets is not there. *)
PresentOnly(q) == q.refs # {}

(* NOT NULL and the foreign keys, which restrict the deletion of an asset. *)
Present(q) == q.refs # {} /\ q.refs \subseteq assets

SpotStorable(q) == Present(q) /\ \E a, b \in q.refs : a # b

PerpStorable(q) == Present(q) /\ q.flaw # "multiplier"

FutureStorable(q) == Present(q) /\ q.flaw \notin {"terms", "multiplier"}

OptionStorable(q) == Present(q) /\ q.flaw = "none"

DepositStorable(q) == Present(q)

BorrowStorable(q) == Present(q)

Storable(q) ==
  \/ q.kind = "SPOT" /\ SpotStorable(q)
  \/ q.kind = "PERPETUAL" /\ PerpStorable(q)
  \/ q.kind = "FUTURE" /\ FutureStorable(q)
  \/ q.kind = "OPTION" /\ OptionStorable(q)
  \/ q.kind = "LENDING_DEPOSIT" /\ DepositStorable(q)
  \/ q.kind = "LENDING_BORROW" /\ BorrowStorable(q)

-------------------------------------------------------------------------------

Init ==
  /\ assets = {}
  /\ retired = {}
  /\ instruments = {}
  /\ subtypes = {}
  /\ pc = [c \in Callers |-> "idle"]
  /\ req = [c \in Callers |-> NoRequest]
  /\ id \in [Callers -> Ids]
  /\ reply = [c \in Callers |-> "none"]
  /\ bare = {}
  /\ abandoned = {}

(* CreateAsset: a row with a fresh UUID. *)
CreateAsset(a) ==
  /\ a \notin assets \cup retired
  /\ assets' = assets \cup {a}
  /\ UNCHANGED <<retired, instruments, subtypes, bare, abandoned>>
  /\ UNCHANGED handlerVars

(* Fault: the foreign keys cascade. *)
DeleteAssetCascading(a) ==
  /\ a \in assets
  /\ assets' = assets \ {a}
  /\ retired' = retired \cup {a}
  /\ subtypes' = {s \in subtypes : a \notin s[3]}
  /\ UNCHANGED <<instruments, bare, abandoned>>
  /\ UNCHANGED handlerVars

(* The DELETE is refused while a subtype refers to the asset. *)
DeleteAsset(a) ==
  /\ a \in assets
  /\ \A s \in subtypes : a \notin s[3]
  /\ assets' = assets \ {a}
  /\ retired' = retired \cup {a}
  /\ UNCHANGED <<instruments, subtypes, bare, abandoned>>
  /\ UNCHANGED handlerVars

-------------------------------------------------------------------------------
(* A create, handler c.                                                    *)

Receive(c, q, i) ==
  /\ pc[c] = "idle"
  /\ pc' = [pc EXCEPT ![c] = "base"]
  /\ req' = [req EXCEPT ![c] = q]
  /\ id' = [id EXCEPT ![c] = i]
  /\ reply' = [reply EXCEPT ![c] = "none"]
  /\ UNCHANGED <<assets, retired, instruments, subtypes, bare, abandoned>>

(* The handler returns. *)
Answer(c, r) ==
  /\ pc' = [pc EXCEPT ![c] = "idle"]
  /\ req' = [req EXCEPT ![c] = NoRequest]
  /\ reply' = [reply EXCEPT ![c] = r]
  /\ UNCHANGED id

(* Fault: ON CONFLICT DO NOTHING, so that a retry can go on. *)
UnlistedOrSame(i, k) ==
  \A x \in instruments : x = <<i, k>> \/ (x[1] # i /\ x[2] # k)

(* The primary key and the UNIQUE code of table instruments. *)
Unlisted(i, k) == \A x \in instruments : x[1] # i /\ x[2] # k

(* Fault: the create of a kind goes on whatever it was asked for. *)
CreateBaseGoesOn(c) ==
  /\ pc[c] = "base"
  /\ Unlisted(id[c], req[c].code)
  /\ instruments' = instruments \cup {<<id[c], req[c].code>>}
  /\ pc' = [pc EXCEPT ![c] = "assets"]
  /\ UNCHANGED <<req, id, reply, bare, abandoned>>
  /\ UNCHANGED <<assets, retired, subtypes>>

(* The base row commits and the create of the kind goes on. *)
CreateBase(c) ==
  /\ pc[c] = "base"
  /\ Unlisted(id[c], req[c].code)
  /\ instruments' = instruments \cup {<<id[c], req[c].code>>}
  /\ \/ /\ req[c].kind # "BASE"
        /\ pc' = [pc EXCEPT ![c] = "assets"]
        /\ UNCHANGED <<req, id, reply, bare, abandoned>>
     \/ /\ req[c].kind = "BASE"
        /\ bare' = bare \cup {id[c]}
        /\ Answer(c, "OK")
        /\ UNCHANGED abandoned
     \/ /\ DatabaseFails        \* the acknowledgement is lost
        /\ abandoned' = abandoned \cup {id[c]}
        /\ Answer(c, "Internal")
        /\ UNCHANGED bare
  /\ UNCHANGED <<assets, retired, subtypes>>

BaseFails(c) ==
  /\ pc[c] = "base"
  /\ ~ Unlisted(id[c], req[c].code) \/ DatabaseFails
  /\ Answer(c, "Internal")
  /\ UNCHANGED <<assets, retired, instruments, subtypes, bare, abandoned>>

(* The create of the kind ends without having written to its table. *)
GiveUp(c, r) ==
  /\ Answer(c, r)
  /\ abandoned' = abandoned \cup {id[c]}
  /\ UNCHANGED <<assets, retired, instruments, subtypes, bare>>

(***************************************************************************)
(* The manager looks up the named assets through the cache, which may      *)
(* still serve a deleted one, and then checks the fields of the kind.      *)
(***************************************************************************)
CheckAssets(c) ==
  /\ pc[c] = "assets"
  /\ req[c].refs \subseteq assets \cup retired
  /\ Valid(req[c])
  /\ pc' = [pc EXCEPT ![c] = "check"]
  /\ UNCHANGED <<req, id, reply>>
  /\ UNCHANGED <<assets, retired, instruments, subtypes, bare, abandoned>>

(* An error of any kind reads as an asset that does not exist. *)
AssetsRefused(c) ==
  /\ pc[c] = "assets"
  /\ \/ ~ req[c].refs \subseteq assets
     \/ ~ Valid(req[c])
     \/ DatabaseFails
  /\ GiveUp(c, "InvalidArgument")

(* The EXISTS queries of the repository's create. *)
CheckRows(c) ==
  /\ pc[c] = "check"
  /\ req[c].refs \subseteq assets
  /\ pc' = [pc EXCEPT ![c] = "insert"]
  /\ UNCHANGED <<req, id, reply>>
  /\ UNCHANGED <<assets, retired, instruments, subtypes, bare, abandoned>>

(* The primary keys of the kinds' tables, each for itself. *)
Untyped(i, kind) == \A s \in subtypes : s[1] # i \/ s[2] # kind

InsertSubtype(c) ==
  /\ pc[c] = "insert"
  /\ Untyped(id[c], req[c].kind)
  /\ Storable(req[c])
  /\ subtypes' = subtypes \cup {<<id[c], req[c].kind, req[c].refs>>}
  /\ \/ Answer(c, "OK")
     \/ DatabaseFails /\ Answer(c, "Internal")
  /\ UNCHANGED <<assets, retired, instruments, bare, abandoned>>

(* Fault: the error of the repository's create is dropped. *)
SubtypeFailsSilently(c) ==
  /\ \/ pc[c] = "check" /\ ~ req[c].refs \subseteq assets
     \/ pc[c] = "insert" /\ ~ (Untyped(id[c], req[c].kind) /\ Storable(req[c]))
     \/ pc[c] \in {"check", "insert"} /\ DatabaseFails
  /\ Answer(c, "OK")
  /\ UNCHANGED <<assets, retired, instruments, subtypes, bare, abandoned>>

SubtypeFails(c) ==
  /\ \/ pc[c] = "check" /\ ~ req[c].refs \subseteq assets
     \/ pc[c] = "insert" /\ ~ (Untyped(id[c], req[c].kind) /\ Storable(req[c]))
     \/ pc[c] \in {"check", "insert"} /\ DatabaseFails
  /\ GiveUp(c, "Internal")

(* The process, or the caller's context, ends between two statements. *)
Die(c) ==
  /\ pc[c] # "idle"
  /\ Answer(c, "none")
  /\ abandoned' = IF PastBase(c) THEN abandoned \cup {id[c]} ELSE abandoned
  /\ UNCHANGED <<assets, retired, instruments, subtypes, bare>>

-------------------------------------------------------------------------------

Handle(c) ==
  \/ CreateBase(c) \/ BaseFails(c) \/ CheckAssets(c) \/ AssetsRefused(c)
  \/ CheckRows(c) \/ InsertSubtype(c) \/ SubtypeFails(c) \/ Die(c)

Next ==
  \/ \E a \in Assets : CreateAsset(a) \/ DeleteAsset(a)
  \/ \E c \in Callers, q \in Requests, i \in Ids : Receive(c, q, i)
  \/ \E c \in Callers : Handle(c)

Spec == Init /\ [][Next]_vars

-------------------------------------------------------------------------------

TypeOK ==
  /\ assets \subseteq Assets
  /\ retired \subseteq Assets
  /\ instruments \subseteq Ids \X Codes
  /\ subtypes \subseteq Ids \X Kinds \X SUBSET Assets
  /\ pc \in [Callers -> Stages]
  /\ req \in [Callers -> Requests \cup {NoRequest}]
  /\ \A c \in Callers : pc[c] # "idle" => req[c] \in Requests
  /\ \A c \in Callers : PastBase(c) => req[c].kind # "BASE"
  /\ id \in [Callers -> Ids]
  /\ reply \in [Callers -> Replies]
  /\ bare \subseteq Ids
  /\ abandoned \subseteq Ids

(***************************************************************************)
(* A subtype row has its base row, and the assets it is written on are     *)
(* registered, whatever was deleted between the cached reads, the EXISTS   *)
(* queries and the INSERT, and however long ago that was.                  *)
(***************************************************************************)
SubtypesHaveParents ==
  \A s \in subtypes :
    /\ \E k \in Codes : <<s[1], k>> \in instruments
    /\ s[3] # {} /\ s[3] \subseteq assets

(***************************************************************************)
(* An instrument is of one kind.  No constraint spans the six tables and   *)
(* nothing compares the base row's type with them: it holds only because   *)
(* every create makes a base row of its own before it writes a subtype.    *)
(***************************************************************************)
OneSubtype ==
  \A s, t \in subtypes : s[1] = t[1] => s = t

HasSubtype(i) == \E s \in subtypes : s[1] = i

(***************************************************************************)
(* A base row without a subtype was asked for as such, or its create is    *)
(* still running, or ended after the base row was committed.               *)
(***************************************************************************)
BasesExplained ==
  \A x \in instruments :
    \/ HasSubtype(x[1])
    \/ x[1] \in bare \cup abandoned
    \/ \E c \in Callers : PastBase(c) /\ id[c] = x[1]

(***************************************************************************)
(* What the comments of the creates promise (the assets are validated      *)
(* "before creation"): a create that is refused as invalid has created     *)
(* nothing, so that its id and its code are free for a create that is not. *)
(***************************************************************************)
RefusedCreatesNothing ==
  [][\A c \in Callers :
       (pc[c] # "idle" /\ reply'[c] = "InvalidArgument")
         => ~ (\E k \in Codes : <<id[c], k>> \in instruments')]_vars

(***************************************************************************)
(* What holds instead: the base row of a create that ended after it stays, *)
(* without a subtype, and no other create works on it.                     *)
(***************************************************************************)
LeftoversStand ==
  \A i \in abandoned :
    /\ \E k \in Codes : <<i, k>> \in instruments
    /\ ~ HasSubtype(i)
    /\ \A c \in Callers : PastBase(c) => id[c] # i

(* The inductive invariant of the proofs: besides, a running create has a  *)
(* base row that no other create works on or has given up.                 *)
KeysUnique ==
  \A x, y \in instruments : (x[1] = y[1] \/ x[2] = y[2]) => x = y

OwnBase(c) ==
  /\ \E k \in Codes : <<id[c], k>> \in instruments
  /\ ~ HasSubtype(id[c])
  /\ \A d \in Callers : PastBase(d) /\ id[d] = id[c] => d = c

IInv ==
  /\ TypeOK /\ KeysUnique
  /\ SubtypesHaveParents /\ OneSubtype /\ BasesExplained /\ LeftoversStand
  /\ \A c \in Callers : PastBase(c) => OwnBase(c)

(***************************************************************************)
(* An instrument counts as listed once its subtype row is there: then the  *)
(* creates, interleaved and failing as they may, implement the registry,   *)
(* in which an instrument appears at once.                                 *)
(***************************************************************************)
Typed(base, sub) == {p \in base \X sub : p[1][1] = p[2][1]}

Join(base, sub) ==
  {<<p[1][1], p[1][2], p[2][2], p[2][3]>> : p \in Typed(base, sub)}

Listed == Join(instruments, subtypes)

Registry == INSTANCE InstrumentRegistry WITH
  Assets <- Assets, Ids <- Ids, Codes <- Codes, Kinds <- Kinds,
  assets <- assets, listed <- Listed

ImplementsRegistry == Registry!Spec
===============================================================================
