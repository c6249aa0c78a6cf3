---------------------------- MODULE ListingsProofs ----------------------------
(***************************************************************************)
(* Theorems about Listings, for any sets of assets, chains, venues,        *)
(* callers and requests, with and without failing statements.              *)
(*                                                                         *)
(* The argument: whatever the lookups and the EXISTS queries saw, the      *)
(* INSERT itself asks for the references and the keys, deleting an asset   *)
(* takes exactly the rows that name it, and the id of a deleted asset      *)
(* never comes back.                                                       *)
(***************************************************************************)
EXTENDS Listings, TLAPS

(* A create that ends or steps leaves its locals well typed. *)
LEMMA AnswerTypes ==
  ASSUME TypeOK, NEW c \in Callers, NEW r \in Replies, Answer(c, r)
  PROVE  /\ pc' \in [Callers -> Stages]
         /\ req' \in [Callers -> Requests \cup {NoRequest}]
         /\ \A d \in Callers : pc'[d] # "idle" => req'[d] \in Requests
         /\ reply' \in [Callers -> Replies]
  BY DEF TypeOK, Answer, Stages

LEMMA RefuseTypes ==
  ASSUME TypeOK, NEW c \in Callers, NEW r \in Replies, Refuse(c, r)
  PROVE  TypeOK'
  BY AnswerTypes DEF Refuse, TypeOK

LEMMA StepTypes ==
  ASSUME TypeOK, NEW c \in Callers, NEW s \in Stages, pc[c] # "idle", Step(c, s)
  PROVE  TypeOK'
  BY DEF Step, TypeOK, Stages

LEMMA TypeStep == TypeOK /\ [Next]_vars => TypeOK'
<1> SUFFICES ASSUME TypeOK, [Next]_vars
             PROVE  TypeOK'
  OBVIOUS
<1>1. ASSUME NEW a \in Assets, CreateAsset(a) \/ DeleteAsset(a)
      PROVE  TypeOK'
  <2>1. UNCHANGED <<pc, req, reply, stored>> /\ rows' \subseteq rows
    BY <1>1 DEF CreateAsset, DeleteAsset
  <2>2. /\ live' \subseteq Entities /\ retired' \subseteq Assets
        /\ live' \cap retired' = {}
    BY <1>1 DEF CreateAsset, DeleteAsset, TypeOK, Entities
  <2> QED
    BY <2>1, <2>2 DEF TypeOK
<1>2. ASSUME NEW c \in Callers, NEW q \in Requests, Receive(c, q)
      PROVE  TypeOK'
  BY <1>2 DEF Receive, TypeOK, Stages, Replies
<1>3. ASSUME NEW c \in Callers, LookUpMarket(c) \/ LookUpDeployment(c)
      PROVE  TypeOK'
  BY <1>3, RefuseTypes, StepTypes
     DEF LookUpMarket, LookUpDeployment, Replies, Stages
<1>4. ASSUME NEW c \in Callers, CheckRows(c) \/ CreateFails(c)
      PROVE  TypeOK'
  BY <1>4, RefuseTypes, StepTypes DEF CheckRows, CreateFails, Replies, Stages
<1>5. ASSUME NEW c \in Callers, Insert(c)
      PROVE  TypeOK'
  <2>1. req[c] \in Requests /\ req[c].makes \subseteq Unregistered
    BY <1>5, ConstantsAssumption DEF Insert, TypeOK
  <2>2. PICK r \in Replies : Answer(c, r)
    BY <1>5 DEF Insert, Replies
  <2>3. /\ rows' \subseteq stored' /\ stored' \subseteq Requests
        /\ live' \subseteq Entities /\ retired' = retired
        /\ live' \cap retired' = {}
    BY <1>5, <2>1, ConstantsAssumption DEF Insert, TypeOK, Entities
  <2> QED
    BY <2>2, <2>3, AnswerTypes DEF TypeOK
<1>6. CASE UNCHANGED vars
  BY <1>6 DEF vars, TypeOK
<1> QED
  BY <1>1, <1>2, <1>3, <1>4, <1>5, <1>6 DEF Next, Handle

(***************************************************************************)
(* Type correctness: a registered id is not a deleted one, and a running   *)
(* create has its request.                                                 *)
(***************************************************************************)
THEOREM ListingsTypeCorrect == Spec => []TypeOK
<1>1. Init => TypeOK
  BY ConstantsAssumption DEF Init, TypeOK, Entities, Stages, Replies
<1> QED
  BY <1>1, TypeStep, PTL DEF Spec

-------------------------------------------------------------------------------
(* The tables, action by action.                                           *)

TablesInv == ReferencesExist /\ RowsStay /\ KeysUnique

(* What each step does to the tables. *)
Same == UNCHANGED <<rows, stored, live, retired>>

Added(c) ==
  /\ pc[c] = "insert" /\ Insertable(req[c])
  /\ rows' = rows \cup {req[c]} /\ stored' = stored \cup {req[c]}
  /\ live' = live \cup req[c].makes /\ retired' = retired

LEMMA StepOnTables ==
  ASSUME [Next]_vars
  PROVE  \/ Same
         \/ \E a \in Assets : CreateAsset(a) \/ DeleteAsset(a)
         \/ \E c \in Callers : Added(c)
<1>1. ASSUME NEW c \in Callers, NEW q \in Requests, Receive(c, q)
      PROVE  Same
  BY <1>1 DEF Receive, Same
<1>2. ASSUME NEW c \in Callers, Handle(c), ~ Insert(c)
      PROVE  Same
  BY <1>2 DEF Handle, LookUpMarket, LookUpDeployment, CheckRows, CreateFails,
              Refuse, Step, Same
<1>3. ASSUME NEW c \in Callers, Insert(c)
      PROVE  Added(c)
  BY <1>3 DEF Insert, Added
<1>4. CASE UNCHANGED vars
  BY <1>4 DEF vars, Same
<1> QED
  BY <1>1, <1>2, <1>3, <1>4 DEF Next

LEMMA TablesCreate ==
  ASSUME TypeOK, TablesInv, NEW a \in Assets, CreateAsset(a)
  PROVE  TablesInv'
  BY DEF TablesInv, CreateAsset, ReferencesExist, RowsStay, KeysUnique

(* A deletion takes the rows of the asset and no others. *)
LEMMA TablesDelete ==
  ASSUME TypeOK, TablesInv, NEW a \in Assets, DeleteAsset(a)
  PROVE  TablesInv'
<1>1. /\ rows' = {r \in rows : a \notin r.refs} /\ stored' = stored
      /\ live' = live \ {a} /\ retired' = retired \cup {a}
  BY DEF DeleteAsset
<1>2. ReferencesExist'
  BY <1>1 DEF TablesInv, ReferencesExist
<1>3. RowsStay'
  <2> SUFFICES ASSUME NEW r \in stored, r.refs \cap retired' = {}
               PROVE  r \in rows'
    BY <1>1 DEF RowsStay
  <2>1. r.refs \cap retired = {} /\ a \notin r.refs
    BY <1>1
  <2> QED
    BY <1>1, <2>1 DEF TablesInv, RowsStay
<1>4. KeysUnique'
  BY <1>1 DEF TablesInv, KeysUnique
<1> QED
  BY <1>2, <1>3, <1>4 DEF TablesInv

(* The INSERT asks for its references and its keys itself. *)
LEMMA TablesAdd ==
  ASSUME TypeOK, TablesInv, NEW c \in Callers, Added(c)
  PROVE  TablesInv'
<1>1. /\ rows' = rows \cup {req[c]} /\ stored' = stored \cup {req[c]}
      /\ live \subseteq live' /\ retired' = retired
      /\ req[c].refs \subseteq live
      /\ \A r \in rows : r.keys \cap req[c].keys = {}
  BY DEF Added, Insertable
<1>2. ReferencesExist'
  BY <1>1 DEF TablesInv, ReferencesExist
<1>3. RowsStay'
  BY <1>1 DEF TablesInv, RowsStay
<1>4. KeysUnique'
  BY <1>1 DEF TablesInv, KeysUnique
<1> QED
  BY <1>2, <1>3, <1>4 DEF TablesInv

LEMMA TablesStep == TypeOK /\ TablesInv /\ [Next]_vars => TablesInv'
<1> SUFFICES ASSUME TypeOK, TablesInv, [Next]_vars
             PROVE  TablesInv'
  OBVIOUS
<1>1. CASE Same
  BY <1>1 DEF Same, TablesInv, ReferencesExist, RowsStay, KeysUnique
<1> QED
  BY <1>1, StepOnTables, TablesCreate, TablesDelete, TablesAdd

LEMMA Invariance == Spec => []IInv
<1>1. Init => IInv
  BY ConstantsAssumption
     DEF Init, IInv, TypeOK, Entities, Stages, Replies, ReferencesExist,
         RowsStay, KeysUnique
<1>2. IInv <=> TypeOK /\ TablesInv
  BY DEF IInv, TablesInv
<1>3. IInv' <=> TypeOK' /\ TablesInv'
  BY DEF IInv, TablesInv
<1>4. IInv /\ [Next]_vars => IInv'
  BY <1>2, <1>3, TypeStep, TablesStep
<1> QED
  BY <1>1, <1>4, PTL DEF Spec

(***************************************************************************)
(* No deployment, market or identifier refers to what is not registered,   *)
(* although every check before the INSERT may be out of date.              *)
(***************************************************************************)
THEOREM NoDanglingRows == Spec => []ReferencesExist
<1>1. IInv => ReferencesExist
  BY DEF IInv
<1> QED
  BY <1>1, Invariance, PTL

(***************************************************************************)
(* No row is lost while all of its assets are there.                       *)
(***************************************************************************)
THEOREM NoRowLost == Spec => []RowsStay
<1>1. IInv => RowsStay
  BY DEF IInv
<1> QED
  BY <1>1, Invariance, PTL

(***************************************************************************)
(* Two creates that ask for the same name never both keep it: if both were *)
(* stored, an asset of one of them is gone.                                *)
(***************************************************************************)
THEOREM NamesHaveOneOwner == Spec => []NamesPassOnWithAssets
<1>1. IInv => NamesPassOnWithAssets
  <2> SUFFICES ASSUME IInv, NEW r \in stored, NEW s \in stored,
                      r # s, r.keys \cap s.keys # {},
                      (r.refs \cup s.refs) \cap retired = {}
               PROVE  FALSE
    BY DEF NamesPassOnWithAssets
  <2>1. r \in rows /\ s \in rows
    BY DEF IInv, RowsStay
  <2> QED
    BY <2>1 DEF IInv, KeysUnique
<1> QED
  BY <1>1, Invariance, PTL

(***************************************************************************)
(* A symbol keeps its market, and an external id its entity, through every *)
(* step of every create and deletion.                                      *)
(***************************************************************************)
THEOREM ResolutionsLast == Spec => ResolutionStable
<1> DEFINE Stable == MarketsStable /\ IdentifiersStable
<1> USE DEF ResolveMarket, ResolveIdentifierByExternalID
<1>1. ASSUME IInv, rows' = rows
      PROVE  Stable
  BY <1>1 DEF IInv, KeysUnique, MarketsStable, IdentifiersStable
<1>2. ASSUME IInv, NEW a \in Assets, DeleteAsset(a)
      PROVE  Stable
  <2>1. /\ rows' = {r \in rows : a \notin r.refs} /\ a \in retired'
        /\ \A r \in rows : r.table = "markets" => a \notin r.refs
    BY <1>2 DEF DeleteAsset, Restricting
  <2>2. MarketsStable
    BY <2>1 DEF MarketsStable
  <2>3. IdentifiersStable
    BY <1>2, <2>1 DEF IInv, KeysUnique, IdentifiersStable
  <2> QED
    BY <2>2, <2>3
<1>3. ASSUME IInv, NEW c \in Callers, Added(c)
      PROVE  Stable
  <2>1. /\ rows' = rows \cup {req[c]}
        /\ \A r \in rows : r.keys \cap req[c].keys = {}
    BY <1>3 DEF Added, Insertable
  <2>2. MarketsStable
    BY <2>1 DEF MarketsStable
  <2>3. IdentifiersStable
    BY <1>3, <2>1 DEF IInv, KeysUnique, IdentifiersStable
  <2> QED
    BY <2>2, <2>3
<1>4. IInv /\ [Next]_vars => [Stable]_vars
  BY <1>1, <1>2, <1>3, StepOnTables DEF Same, CreateAsset
<1> QED
  BY <1>4, Invariance, PTL DEF Spec, ResolutionStable
===============================================================================
