--------------------------- MODULE AssetGroupsProofs ---------------------------
(***************************************************************************)
(* Theorems about AssetGroups, for any sets of assets, groups, callers and *)
(* requests, any size of the pool, with and without failing statements and *)
(* deadlines.                                                              *)
(*                                                                         *)
(* The argument: an operation keeps to its route through the stages        *)
(* (OnRoute), so that the stage of a handler tells whether it keeps a      *)
(* connection; a reader knows between its queries which memberships were   *)
(* there all the time and which at some time (ReadersKnow); and whatever   *)
(* was checked before, the INSERT itself asks for group and asset.         *)
(***************************************************************************)
EXTENDS AssetGroups, FiniteSetTheorems, TLAPS

(* Where the handlers are, and what they keep. *)
HandlersOK ==
  /\ pc \in [Callers -> Stages]
  /\ req \in [Callers -> Requests \cup {NoRequest}]
  /\ reply \in [Callers -> Replies]
  /\ \A c \in Callers : pc[c] # "idle" => req[c] \in Requests
  /\ OnRoute

PoolOK ==
  /\ held = {c \in Callers : Keeps(c)}
  /\ IsFiniteSet(held)
  /\ Cardinality(held) <= PoolSize

TablesOK ==
  /\ assets \subseteq Assets /\ retired \subseteq Assets
  /\ groups \subseteq Groups
  /\ MembersExist

ReadingOK ==
  /\ todo \in [Callers -> SUBSET Groups] /\ scope \in [Callers -> SUBSET Groups]
  /\ got \in [Callers -> SUBSET Memberships]
  /\ seen \in [Callers -> SUBSET Memberships]
  /\ kept \in [Callers -> SUBSET Memberships]
  /\ ReadersKnow
  /\ ListingsHonest

(* The inductive invariant by what its parts are about. *)
LEMMA Parts == IInv <=> HandlersOK /\ PoolOK /\ TablesOK /\ ReadingOK
BY DEF IInv, TypeOK, HandlersOK, PoolOK, TablesOK, ReadingOK, MembersExist,
       Memberships

LEMMA RequestTypes ==
  ASSUME NEW q \in Requests
  PROVE  /\ q \in RequestType /\ q.op \in Operations
         /\ q.group \in Groups /\ q.assets \subseteq Assets
         /\ q.op \in {"Add", "Remove", "Transact"} => q.assets # {}
BY ConstantsAssumption DEF RequestType

-------------------------------------------------------------------------------
(* Handlers.                                                               *)

(***************************************************************************)
(* A handler stands still, is started, ends, or goes one stage further on  *)
(* its route: as it is, or with a connection it starts to keep.            *)
(***************************************************************************)
Starts(c) ==
  /\ pc[c] = "idle"
  /\ \E q \in Requests : Receive(c, q)

Ends(c) ==
  /\ pc[c] # "idle"
  /\ \E r \in Replies : Answer(c, r)

Goes(c) ==
  \E stage \in Route(req[c].op) :
    /\ pc[c] # "idle"
    /\ Step(c, stage)
    /\ \/ held' = held /\ (Keeps(c)' <=> Keeps(c))
       \/ held' = held \cup {c} /\ Connected /\ Keeps(c)'

LEMMA RefuseEnds ==
  ASSUME NEW c \in Callers, NEW r \in Replies, pc[c] # "idle", Refuse(c, r)
  PROVE  Ends(c)
BY DEF Refuse, Ends

LEMMA HandlerMoves ==
  ASSUME HandlersOK, [Next]_vars
  PROVE  \/ UNCHANGED handler
         \/ \E c \in Callers : Starts(c) \/ Ends(c) \/ Goes(c)
<1>1. ASSUME NEW a \in Assets, CreateAsset(a) \/ DeleteAsset(a)
      PROVE  UNCHANGED handler
  BY <1>1 DEF CreateAsset, DeleteAsset
<1>2. ASSUME NEW c \in Callers, NEW q \in Requests, Receive(c, q)
      PROVE  Starts(c)
  BY <1>2 DEF Starts, Receive
<1>3. ASSUME NEW c \in Callers, NEW g \in Groups, GetGroupMembers(c, g)
      PROVE  UNCHANGED handler
  BY <1>3 DEF GetGroupMembers
<1>4. ASSUME NEW c \in Callers, TimeOut(c) \/ NotFound(c) \/ Fails(c)
      PROVE  Ends(c)
  <2>1. CASE TimeOut(c)
    BY <2>1, RefuseEnds DEF TimeOut, Replies
  <2>2. CASE NotFound(c)
    BY <2>2, RefuseEnds DEF NotFound, Replies
  <2>3. CASE Fails(c)
    <3>1. pc[c] # "idle" /\ Refuse(c, "Internal")
      BY <2>3 DEF Fails
    <3> QED
      BY <3>1, RefuseEnds DEF Replies
  <2> QED
    BY <1>4, <2>1, <2>2, <2>3
<1>5. ASSUME NEW c \in Callers, Handle(c), pc[c] # "idle"
      PROVE  UNCHANGED handler \/ Ends(c) \/ Goes(c)
  <2> USE DEF HandlersOK, OnRoute, Route, Step, Keeps, Goes
  <2>1. pc[c] \in Route(req[c].op) /\ req[c].op \in Operations
    BY <1>5, RequestTypes
  <2>2. CASE GetAssetGroup(c)
    BY <2>1, <2>2 DEF GetAssetGroup, Operations
  <2>3. CASE ListAssetGroups(c)
    BY <2>3 DEF ListAssetGroups, Ends, Replies
  <2>4. CASE \E g \in Groups : GetGroupMembers(c, g)
    BY <1>3, <2>4
  <2>5. CASE GroupRead(c)
    BY <2>5 DEF GroupRead, Ends, Replies
  <2>6. CASE GetAsset(c)
    BY <2>1, <2>6 DEF GetAsset, Operations
  <2>7. CASE CheckRows(c)
    BY <2>1, <2>7 DEF CheckRows, Operations
  <2>8. CASE AddAssetToGroup(c)
    BY <2>8 DEF AddAssetToGroup, Acknowledge, Ends, Replies
  <2>9. CASE CreateAssetGroup(c) \/ RemoveAssetFromGroup(c)
    BY <2>9 DEF CreateAssetGroup, RemoveAssetFromGroup, Acknowledge, Ends, Replies
  <2>10. CASE Begin(c)
    BY <2>1, <2>10 DEF Begin, Operations
  <2>11. CASE EndTransaction(c)
    BY <2>11 DEF EndTransaction, Ends, Replies
  <2> QED
    BY <1>4, <1>5, <2>2, <2>3, <2>4, <2>5, <2>6, <2>7, <2>8, <2>9, <2>10, <2>11
       DEF Handle
<1>6. CASE UNCHANGED vars
  BY <1>6 DEF vars
<1>7. ASSUME NEW c \in Callers, Handle(c)
      PROVE  pc[c] # "idle"
  BY <1>7 DEF Handle, GetAssetGroup, ListAssetGroups, GetGroupMembers, GroupRead,
     GetAsset, NotFound, CheckRows, AddAssetToGroup, CreateAssetGroup,
     RemoveAssetFromGroup, Begin, EndTransaction, Fails
<1> QED
  BY <1>1, <1>2, <1>4, <1>5, <1>6, <1>7 DEF Next

LEMMA HandlersStep == HandlersOK /\ [Next]_vars => HandlersOK'
<1> SUFFICES ASSUME HandlersOK, [Next]_vars
             PROVE  HandlersOK'
  OBVIOUS
<1> USE DEF HandlersOK, OnRoute
<1>1. CASE UNCHANGED handler
  BY <1>1 DEF handler
<1>2. ASSUME NEW c \in Callers, Starts(c)
      PROVE  HandlersOK'
  <2>1. PICK q \in Requests : Receive(c, q)
    BY <1>2 DEF Starts
  <2>2. FirstStage(q) \in Stages /\ FirstStage(q) \in Route(q.op)
    BY <2>1, RequestTypes DEF FirstStage, Stages, Route, Operations
  <2> QED
    BY <2>1, <2>2 DEF Receive, Replies
<1>3. ASSUME NEW c \in Callers, Ends(c)
      PROVE  HandlersOK'
  BY <1>3 DEF Ends, Answer, Stages
<1>4. ASSUME NEW c \in Callers, Goes(c)
      PROVE  HandlersOK'
  <2>1. PICK stage \in Route(req[c].op) : Step(c, stage)
    BY <1>4 DEF Goes
  <2>2. req[c].op \in Operations
    BY <1>4, RequestTypes DEF Goes
  <2>3. stage \in Stages
    BY <2>1, <2>2 DEF Route, Stages, Operations
  <2> QED
    BY <1>4, <2>1, <2>3 DEF Goes, Step
<1> QED
  BY <1>1, <1>2, <1>3, <1>4, HandlerMoves

LEMMA PoolStep == HandlersOK /\ PoolOK /\ [Next]_vars => PoolOK'
<1> SUFFICES ASSUME HandlersOK, PoolOK, [Next]_vars
             PROVE  PoolOK'
  OBVIOUS
<1> USE DEF HandlersOK, PoolOK
<1>1. CASE UNCHANGED handler
  BY <1>1 DEF handler, Keeps
<1>2. ASSUME NEW c \in Callers, Starts(c)
      PROVE  PoolOK'
  <2>1. PICK q \in Requests : Receive(c, q)
    BY <1>2 DEF Starts
  <2>2. ~ Keeps(c) /\ ~ Keeps(c)'
    BY <1>2, <2>1 DEF Starts, Receive, FirstStage, Keeps
  <2>3. \A d \in Callers \ {c} : Keeps(d)' <=> Keeps(d)
    BY <2>1 DEF Receive, Keeps
  <2>4. held' = held
    BY <2>1 DEF Receive
  <2> QED
    BY <2>2, <2>3, <2>4
<1>3. ASSUME NEW c \in Callers, Ends(c)
      PROVE  PoolOK'
  <2>1. PICK r \in Replies : Answer(c, r)
    BY <1>3 DEF Ends
  <2>2. ~ Keeps(c)' /\ \A d \in Callers \ {c} : Keeps(d)' <=> Keeps(d)
    BY <2>1 DEF Answer, Keeps
  <2>3. held' = held \ {c}
    BY <2>1 DEF Answer
  <2>4. IsFiniteSet(held') /\ Cardinality(held') <= Cardinality(held)
    BY <2>3, FS_Subset
  <2>5. Cardinality(held') \in Nat /\ Cardinality(held) \in Nat
    BY <2>4, FS_CardinalityType
  <2> QED
    BY <2>2, <2>3, <2>4, <2>5, ConstantsAssumption
<1>4. ASSUME NEW c \in Callers, Goes(c)
      PROVE  PoolOK'
  <2>1. \A d \in Callers \ {c} : Keeps(d)' <=> Keeps(d)
    BY <1>4 DEF Goes, Step, Keeps
  <2>2. CASE held' = held /\ (Keeps(c)' <=> Keeps(c))
    BY <2>1, <2>2
  <2>3. CASE held' = held \cup {c} /\ Connected /\ Keeps(c)'
    <3>1. held' = {d \in Callers : Keeps(d)'}
      BY <2>1, <2>3
    <3>2. /\ IsFiniteSet(held')
          /\ Cardinality(held') = Cardinality(held)
               \/ Cardinality(held') = Cardinality(held) + 1
      BY <2>3, FS_AddElement
    <3>3. Cardinality(held) \in Nat /\ Cardinality(held) < PoolSize
      BY <2>3, FS_CardinalityType DEF Connected
    <3> QED
      BY <3>1, <3>2, <3>3, ConstantsAssumption
  <2> QED
    BY <1>4, <2>2, <2>3 DEF Goes
<1> QED
  BY <1>1, <1>2, <1>3, <1>4, HandlerMoves

-------------------------------------------------------------------------------
(* Tables.                                                                 *)

(* The three steps that write memberships, and what all others do. *)
LEMMA TableMoves ==
  ASSUME HandlersOK, [Next]_vars
  PROVE  \/ /\ members' = members /\ assets \subseteq assets'
            /\ groups \subseteq groups'
         \/ \E a \in Assets : DeleteAsset(a)
         \/ \E c \in Callers : AddAssetToGroup(c) \/ RemoveAssetFromGroup(c)
BY DEF Next, CreateAsset, Receive, Handle, TimeOut, Refuse, GetAssetGroup,
       ListAssetGroups, GetGroupMembers, GroupRead, GetAsset, NotFound, CheckRows,
       CreateAssetGroup, Begin, EndTransaction, Fails, tables, vars

LEMMA TablesStep == HandlersOK /\ TablesOK /\ [Next]_vars => TablesOK'
<1> SUFFICES ASSUME HandlersOK, TablesOK, [Next]_vars
             PROVE  TablesOK'
  OBVIOUS
<1> USE DEF TablesOK, MembersExist
<1>1. /\ assets' \subseteq Assets /\ retired' \subseteq Assets
      /\ groups' \subseteq Groups
  <2>1. ASSUME NEW c \in Callers, CreateAssetGroup(c)
        PROVE  /\ assets' \subseteq Assets /\ retired' \subseteq Assets
               /\ groups' \subseteq Groups
    <3>1. req[c].group \in Groups
      BY <2>1, RequestTypes DEF CreateAssetGroup, HandlersOK
    <3> QED
      BY <2>1, <3>1 DEF CreateAssetGroup
  <2>2. ASSUME NEW a \in Assets, CreateAsset(a) \/ DeleteAsset(a)
        PROVE  /\ assets' \subseteq Assets /\ retired' \subseteq Assets
               /\ groups' \subseteq Groups
    BY <2>2 DEF CreateAsset, DeleteAsset
  <2>3. ASSUME NEW c \in Callers, Handle(c) \/ TimeOut(c), ~ CreateAssetGroup(c)
        PROVE  UNCHANGED <<assets, retired, groups>>
    BY <2>3
       DEF Handle, TimeOut, Refuse, GetAssetGroup, ListAssetGroups,
           GetGroupMembers, GroupRead, GetAsset, NotFound, CheckRows,
           AddAssetToGroup, RemoveAssetFromGroup, Begin, EndTransaction, Fails,
           tables
  <2> QED
    BY <2>1, <2>2, <2>3 DEF Next, Receive, tables, vars
<1>2. MembersExist'
  <2>1. ASSUME NEW a \in Assets, DeleteAsset(a)
        PROVE  MembersExist'
    BY <2>1 DEF DeleteAsset, Write
  <2>2. ASSUME NEW c \in Callers, AddAssetToGroup(c)
        PROVE  MembersExist'
    BY <2>2 DEF AddAssetToGroup, Write, Insertable, New
  <2>3. ASSUME NEW c \in Callers, RemoveAssetFromGroup(c)
        PROVE  MembersExist'
    BY <2>3 DEF RemoveAssetFromGroup, Write
  <2> QED
    BY <2>1, <2>2, <2>3, TableMoves
<1> QED
  BY <1>1, <1>2

-------------------------------------------------------------------------------
(* Readers.                                                                *)

(* The same handlers are between the queries of a reader. *)
SameReaders == \A d \in Callers : pc'[d] = "members" <=> pc[d] = "members"

OtherReaders(c) ==
  \A d \in Callers \ {c} : pc'[d] = "members" <=> pc[d] = "members"

(***************************************************************************)
(* Memberships are written under the readers, a handler starts to read,    *)
(* goes on or stops, or nothing of this happens.                           *)
(***************************************************************************)
WritesUnderReaders ==
  SameReaders /\ \E rows \in SUBSET Memberships : Write(rows)

StartsReading(c) ==
  /\ pc'[c] = "members" /\ OtherReaders(c) /\ UNCHANGED members
  /\ \E names \in SUBSET Groups : StartReading(c, names)

StopsReading(c) ==
  /\ pc'[c] # "members" /\ OtherReaders(c) /\ UNCHANGED members
  /\ StopReading(c)

LEMMA ReadingMoves ==
  ASSUME HandlersOK, TablesOK, [Next]_vars
  PROVE  \/ SameReaders /\ UNCHANGED <<members, reading>>
         \/ WritesUnderReaders
         \/ \E c \in Callers : \/ StartsReading(c) \/ StopsReading(c)
                              \/ \E g \in Groups : GetGroupMembers(c, g)
<1> USE DEF HandlersOK
<1>1. ASSUME NEW a \in Assets, CreateAsset(a)
      PROVE  SameReaders /\ UNCHANGED <<members, reading>>
  BY <1>1 DEF CreateAsset, SameReaders, handler
<1>2. ASSUME NEW a \in Assets, DeleteAsset(a)
      PROVE  WritesUnderReaders
  BY <1>2 DEF DeleteAsset, SameReaders, WritesUnderReaders, handler, TablesOK,
              MembersExist, Memberships
<1>3. ASSUME NEW c \in Callers, NEW q \in Requests, Receive(c, q)
      PROVE  SameReaders /\ UNCHANGED <<members, reading>>
  BY <1>3 DEF Receive, FirstStage, SameReaders, tables
<1>4. ASSUME NEW c \in Callers, NEW r \in Replies, Refuse(c, r)
      PROVE  StopsReading(c)
  BY <1>4 DEF Refuse, Answer, StopsReading, OtherReaders, tables
<1>5. ASSUME NEW c \in Callers, Handle(c) \/ TimeOut(c)
      PROVE  \/ SameReaders /\ UNCHANGED <<members, reading>>
             \/ WritesUnderReaders \/ StartsReading(c) \/ StopsReading(c)
             \/ \E g \in Groups : GetGroupMembers(c, g)
  <2>1. CASE NotFound(c) \/ Fails(c) \/ TimeOut(c)
    BY <1>4, <2>1 DEF NotFound, Fails, TimeOut, Replies
  <2>2. CASE GetAssetGroup(c)
    <3>1. {req[c].group} \subseteq Groups
      BY <2>2, RequestTypes DEF GetAssetGroup
    <3> QED
      BY <2>2, <3>1 DEF GetAssetGroup, Step, StartsReading, OtherReaders, tables
  <2>3. CASE ListAssetGroups(c)
    BY <2>3 DEF ListAssetGroups, Step, Answer, StartsReading, OtherReaders,
                SameReaders, TablesOK, tables
  <2>4. CASE GroupRead(c)
    BY <2>4 DEF GroupRead, Step, Answer, StopsReading, OtherReaders, tables
  <2>5. CASE GetAsset(c) \/ CheckRows(c) \/ Begin(c)
    BY <2>5 DEF GetAsset, CheckRows, Begin, Step, SameReaders, tables
  <2>6. CASE CreateAssetGroup(c) \/ EndTransaction(c)
    BY <2>6 DEF CreateAssetGroup, EndTransaction, Acknowledge, Answer,
                SameReaders, tables
  <2>7. CASE AddAssetToGroup(c)
    <3>1. members \cup New(req[c]) \in SUBSET Memberships
      BY <2>7, RequestTypes
         DEF AddAssetToGroup, New, TablesOK, MembersExist, Memberships
    <3>2. SameReaders
      BY <2>7 DEF AddAssetToGroup, Acknowledge, Answer, Step, SameReaders
    <3> QED
      BY <2>7, <3>1, <3>2 DEF AddAssetToGroup, WritesUnderReaders
  <2>8. CASE RemoveAssetFromGroup(c)
    <3>1. members \ New(req[c]) \in SUBSET Memberships
      BY DEF TablesOK, MembersExist, Memberships
    <3>2. SameReaders
      BY <2>8 DEF RemoveAssetFromGroup, Acknowledge, Answer, SameReaders
    <3> QED
      BY <2>8, <3>1, <3>2 DEF RemoveAssetFromGroup, WritesUnderReaders
  <2> QED
    BY <1>5, <2>1, <2>2, <2>3, <2>4, <2>5, <2>6, <2>7, <2>8 DEF Handle
<1>6. CASE UNCHANGED vars
  BY <1>6 DEF vars, handler, tables, SameReaders
<1> QED
  BY <1>1, <1>2, <1>3, <1>5, <1>6 DEF Next

LEMMA ReadingStep ==
  HandlersOK /\ TablesOK /\ ReadingOK /\ [Next]_vars => ReadingOK'
<1> SUFFICES ASSUME HandlersOK, TablesOK, ReadingOK, [Next]_vars
             PROVE  ReadingOK'
  OBVIOUS
<1> USE DEF ReadingOK, ReadersKnow, ListingsHonest
<1>1. CASE SameReaders /\ UNCHANGED <<members, reading>>
  BY <1>1 DEF SameReaders, reading
<1>2. CASE WritesUnderReaders
  BY <1>2 DEF WritesUnderReaders, SameReaders, Write
<1>3. ASSUME NEW c \in Callers, StartsReading(c)
      PROVE  ReadingOK'
  <2>1. PICK names \in SUBSET Groups : StartReading(c, names)
    BY <1>3 DEF StartsReading
  <2>2. members \subseteq Memberships
    BY DEF TablesOK, MembersExist, Memberships
  <2> QED
    BY <1>3, <2>1, <2>2 DEF StartsReading, StartReading, OtherReaders
<1>4. ASSUME NEW c \in Callers, StopsReading(c)
      PROVE  ReadingOK'
  BY <1>4 DEF StopsReading, StopReading, OtherReaders
<1>5. ASSUME NEW c \in Callers, NEW g \in Groups, GetGroupMembers(c, g)
      PROVE  ReadingOK'
  <2>1. UNCHANGED <<members, pc, scope, seen, kept>>
    BY <1>5 DEF GetGroupMembers, tables, handler
  <2>2. /\ todo' = [todo EXCEPT ![c] = @ \ {g}]
        /\ got' = [got EXCEPT ![c] = @ \cup {m \in members : m[1] = g}]
        /\ pc[c] = "members" /\ g \in todo[c]
    BY <1>5 DEF GetGroupMembers
  <2>3. members \subseteq Memberships
    BY DEF TablesOK, MembersExist, Memberships
  <2>4. todo' \in [Callers -> SUBSET Groups] /\ got' \in [Callers -> SUBSET Memberships]
    BY <2>2, <2>3
  <2>5. ReadersKnow'
    BY <2>1, <2>2
  <2>6. ListingsHonest'
    <3>1. kept[c] \subseteq members /\ members \subseteq seen[c]
      BY <2>2
    <3>2. ASSUME NEW m \in kept[c], m[1] \in scope[c] \ (todo[c] \ {g})
          PROVE  m \in got'[c]
      BY <2>2, <3>1, <3>2
    <3>3. got'[c] \subseteq seen[c]
      BY <2>2, <3>1
    <3> QED
      BY <2>1, <2>2, <3>2, <3>3
  <2> QED
    BY <2>1, <2>4, <2>5, <2>6
<1> QED
  BY <1>1, <1>2, <1>3, <1>4, <1>5, ReadingMoves

-------------------------------------------------------------------------------
(* The theorems.                                                           *)

LEMMA Invariance == Spec => []IInv
<1> DEFINE Inv == HandlersOK /\ PoolOK /\ TablesOK /\ ReadingOK
<1>1. Init => Inv
  <2> SUFFICES ASSUME Init
               PROVE  Inv
    OBVIOUS
  <2>1. HandlersOK
    BY DEF Init, HandlersOK, OnRoute, Stages, Replies
  <2>2. PoolOK
    <3>1. \A c \in Callers : ~ Keeps(c)
      BY DEF Init, Keeps
    <3>2. IsFiniteSet({}) /\ Cardinality({}) = 0
      BY FS_EmptySet
    <3> QED
      BY <3>1, <3>2, ConstantsAssumption DEF Init, PoolOK
  <2>3. TablesOK
    BY DEF Init, TablesOK, MembersExist
  <2>4. ReadingOK
    BY DEF Init, ReadingOK, ReadersKnow, ListingsHonest
  <2> QED
    BY <2>1, <2>2, <2>3, <2>4
<1>2. Inv /\ [Next]_vars => Inv'
  BY HandlersStep, PoolStep, TablesStep, ReadingStep
<1>3. Inv => IInv
  BY Parts
<1> QED
  BY <1>1, <1>2, <1>3, PTL DEF Spec

(***************************************************************************)
(* Type correctness of the groups and of every handler's locals; and the   *)
(* pool never gives away more connections than it has: each is kept by a   *)
(* reader of all groups or by a transaction, and given back on every way   *)
(* out, timeouts and errors included.                                      *)
(***************************************************************************)
THEOREM GroupsTypeCorrect == Spec => []TypeOK
<1>1. IInv => TypeOK
  BY DEF IInv
<1> QED
  BY <1>1, Invariance, PTL

(***************************************************************************)
(* A membership joins a registered group and a registered asset, although  *)
(* the asset was looked up in the cache and may have been deleted since.   *)
(***************************************************************************)
THEOREM NoDanglingMembers == Spec => []MembersExist
<1>1. IInv => MembersExist
  BY DEF IInv
<1> QED
  BY <1>1, Invariance, PTL

(***************************************************************************)
(* A listing, read group by group while memberships come and go, shows all *)
(* that were there all the time and none that never was.                   *)
(***************************************************************************)
THEOREM ListingsInBounds == Spec => []ListingsHonest
<1>1. IInv => ListingsHonest
  BY DEF IInv
<1> QED
  BY <1>1, Invariance, PTL

(***************************************************************************)
(* No step of any handler ends a membership but a removal that names it;   *)
(* the rest of the property's exceptions are the asset's deletion and a    *)
(* rollback.                                                               *)
(***************************************************************************)
THEOREM MembershipsEndOnPurpose == Spec => MembershipsLast
<1>1. IInv /\ [Next]_vars =>
        \A m \in members \ members' :
          \/ m[2] \in retired'
          \/ \E c \in Callers :
               /\ \/ req[c].op = "Remove" /\ pc[c] = "write"
                  \/ req[c].op = "Transact" /\ reply'[c] = "Internal"
               /\ m \in New(req[c]) /\ pc'[c] = "idle"
  <2> SUFFICES ASSUME IInv, [Next]_vars, NEW m \in members \ members'
               PROVE  \/ m[2] \in retired'
                      \/ \E c \in Callers :
                           /\ m \in New(req[c]) /\ pc'[c] = "idle"
                           /\ req[c].op = "Remove" /\ pc[c] = "write"
    OBVIOUS
  <2>0. HandlersOK
    BY Parts
  <2>1. ASSUME NEW a \in Assets, DeleteAsset(a)
        PROVE  m[2] \in retired'
    BY <2>1 DEF DeleteAsset, Write
  <2>2. ASSUME NEW c \in Callers, AddAssetToGroup(c)
        PROVE  FALSE
    BY <2>2 DEF AddAssetToGroup, Write
  <2>3. ASSUME NEW c \in Callers, RemoveAssetFromGroup(c)
        PROVE  /\ req[c].op = "Remove" /\ m \in New(req[c])
               /\ pc[c] = "write" /\ pc'[c] = "idle"
    BY <2>0, <2>3 DEF RemoveAssetFromGroup, Write, Acknowledge, Answer, HandlersOK
  <2> QED
    BY <2>0, <2>1, <2>2, <2>3, TableMoves
<1> QED
  BY <1>1, Invariance, PTL DEF Spec, MembershipsLast
===============================================================================
