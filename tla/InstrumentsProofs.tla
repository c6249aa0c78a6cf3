--------------------------- MODULE InstrumentsProofs ---------------------------
(***************************************************************************)
(* Theorems about Instruments, for any sets of assets, ids, codes, callers *)
(* and requests, with and without failing statements.                      *)
(*                                                                         *)
(* The argument: a running create has a base row to itself (OwnBase),      *)
(* because both keys of table instruments are unique and a base row never  *)
(* goes away; so that its subtype is the first of its instrument and what  *)
(* it leaves behind belongs to nobody else.                                *)
(***************************************************************************)
EXTENDS Instruments, TLAPS

(* Types are preserved by every step. *)
LEMMA TypeStep == TypeOK /\ [Next]_vars => TypeOK'
<1> SUFFICES ASSUME TypeOK, [Next]_vars
             PROVE  TypeOK'
  OBVIOUS
<1> USE DEF TypeOK, Stages, Replies, PastBase
<1>1. ASSUME NEW a \in Assets, CreateAsset(a) \/ DeleteAsset(a)
      PROVE  TypeOK'
  BY <1>1 DEF CreateAsset, DeleteAsset, handlerVars
<1>2. ASSUME NEW c \in Callers, NEW q \in Requests, NEW i \in Ids, Receive(c, q, i)
      PROVE  TypeOK'
  BY <1>2 DEF Receive
<1>3. ASSUME NEW c \in Callers, NEW r \in Replies, Answer(c, r)
      PROVE  /\ pc' \in [Callers -> Stages]
             /\ req' \in [Callers -> Requests \cup {NoRequest}]
             /\ \A d \in Callers : pc'[d] # "idle" => req'[d] \in Requests
             /\ \A d \in Callers : PastBase(d)' => req'[d].kind # "BASE"
             /\ id' \in [Callers -> Ids]
             /\ reply' \in [Callers -> Replies]
  BY <1>3 DEF Answer
<1>4. ASSUME NEW c \in Callers, NEW r \in Replies, GiveUp(c, r)
      PROVE  TypeOK'
  BY <1>3, <1>4 DEF GiveUp
<1>5. ASSUME NEW c \in Callers, CreateBase(c)
      PROVE  TypeOK'
  <2>1. /\ req[c] \in Requests /\ req[c].code \in Codes
        /\ instruments' = instruments \cup {<<id[c], req[c].code>>}
        /\ UNCHANGED <<assets, retired, subtypes>>
    BY <1>5, ConstantsAssumption DEF CreateBase, RequestType
  <2>2. instruments' \subseteq Ids \X Codes
    BY <2>1
  <2>3. CASE pc' = [pc EXCEPT ![c] = "assets"] /\ req[c].kind # "BASE"
             /\ UNCHANGED <<req, id, reply, bare, abandoned>>
    BY <2>1, <2>2, <2>3
  <2>4. CASE \E r \in Replies : Answer(c, r)
    <3>1. bare' \subseteq Ids /\ abandoned' \subseteq Ids
      BY <1>5 DEF CreateBase
    <3> QED
      BY <1>3, <2>1, <2>2, <2>4, <3>1
  <2> QED
    BY <1>5, <2>3, <2>4 DEF CreateBase
<1>6. ASSUME NEW c \in Callers, InsertSubtype(c)
      PROVE  TypeOK'
  <2>1. req[c] \in RequestType /\ req[c].kind \in Kinds /\ req[c].refs \in SUBSET Assets
    BY <1>6, ConstantsAssumption DEF InsertSubtype, RequestType
  <2>2. subtypes' \subseteq Ids \X Kinds \X SUBSET Assets
    BY <1>6, <2>1 DEF InsertSubtype
  <2>3. PICK r \in Replies : Answer(c, r)
    BY <1>6 DEF InsertSubtype
  <2> QED
    BY <1>3, <1>6, <2>2, <2>3 DEF InsertSubtype
<1>7. ASSUME NEW c \in Callers, Handle(c)
      PROVE  TypeOK'
  <2>1. CASE BaseFails(c)
    BY <1>3, <2>1 DEF BaseFails
  <2>2. CASE CheckAssets(c) \/ CheckRows(c)
    BY <2>2 DEF CheckAssets, CheckRows
  <2>3. CASE AssetsRefused(c) \/ SubtypeFails(c)
    BY <1>4, <2>3 DEF AssetsRefused, SubtypeFails
  <2>4. CASE Die(c)
    BY <1>3, <2>4 DEF Die
  <2> QED
    BY <1>5, <1>6, <1>7, <2>1, <2>2, <2>3, <2>4 DEF Handle
<1>8. CASE UNCHANGED vars
  BY <1>8 DEF vars
<1> QED
  BY <1>1, <1>2, <1>7, <1>8 DEF Next

(***************************************************************************)
(* Type correctness of the tables and of every create's locals; only the   *)
(* creates of a kind go beyond their base row.                             *)
(***************************************************************************)
THEOREM InstrumentsTypeCorrect == Spec => []TypeOK
<1>1. Init => TypeOK
  BY DEF Init, TypeOK, Stages, Replies, PastBase
<1> QED
  BY <1>1, TypeStep, PTL DEF Spec

-------------------------------------------------------------------------------
(* The invariant, action by action.                                        *)

(***************************************************************************)
(* The invariant without its types.  A step that changes no table and      *)
(* starts and stops no create leaves it alone.                             *)
(***************************************************************************)
TablesInv ==
  /\ KeysUnique
  /\ SubtypesHaveParents /\ OneSubtype /\ BasesExplained /\ LeftoversStand
  /\ \A c \in Callers : PastBase(c) => OwnBase(c)

LEMMA TablesFrame ==
  ASSUME TypeOK, TablesInv,
         UNCHANGED <<instruments, subtypes, bare, abandoned>>,
         \A s \in subtypes : s[3] \subseteq assets => s[3] \subseteq assets',
         \A c \in Callers : PastBase(c)' <=> PastBase(c),
         \A c \in Callers : PastBase(c) => id'[c] = id[c]
  PROVE  TablesInv'
<1> USE DEF TablesInv
<1>1. KeysUnique' /\ OneSubtype'
  BY DEF KeysUnique, OneSubtype
<1>2. SubtypesHaveParents'
  BY DEF SubtypesHaveParents
<1>3. BasesExplained' /\ LeftoversStand'
  BY DEF BasesExplained, LeftoversStand, HasSubtype
<1>4. \A c \in Callers : (PastBase(c) => OwnBase(c))'
  BY DEF OwnBase, HasSubtype
<1> QED
  BY <1>1, <1>2, <1>3, <1>4

(* The base row is the create's own, or its id is given up at once. *)
LEMMA TablesBase ==
  ASSUME TypeOK, TablesInv, NEW c \in Callers, CreateBase(c)
  PROVE  TablesInv'
<1> DEFINE x == <<id[c], req[c].code>>
<1> USE DEF TablesInv
<1>1. /\ id[c] \in Ids /\ req[c].code \in Codes /\ req[c] \in Requests
      /\ ~ PastBase(c)
  BY ConstantsAssumption DEF CreateBase, TypeOK, RequestType, PastBase
<1>2. /\ instruments' = instruments \cup {x} /\ subtypes' = subtypes
      /\ assets' = assets
      /\ \A y \in instruments : y[1] # id[c] /\ y[2] # req[c].code
  BY DEF CreateBase, Unlisted
<1>3. /\ id' = id
      /\ \A d \in Callers \ {c} : PastBase(d)' <=> PastBase(d)
      /\ \/ PastBase(c)' /\ UNCHANGED <<bare, abandoned>>
         \/ ~ PastBase(c)' /\ bare' = bare \cup {id[c]} /\ abandoned' = abandoned
         \/ ~ PastBase(c)' /\ abandoned' = abandoned \cup {id[c]} /\ bare' = bare
  BY DEF CreateBase, Answer, PastBase, TypeOK
<1>4. ~ HasSubtype(id[c])
  BY <1>2 DEF SubtypesHaveParents, HasSubtype
<1>5. \A d \in Callers : PastBase(d) => id[d] # id[c]
  BY <1>2 DEF OwnBase
<1>6. \A i \in abandoned : i # id[c]
  BY <1>2 DEF LeftoversStand
<1>7. KeysUnique' /\ OneSubtype'
  BY <1>2 DEF KeysUnique, OneSubtype
<1>8. SubtypesHaveParents'
  BY <1>2 DEF SubtypesHaveParents
<1>9. BasesExplained'
  <2> SUFFICES ASSUME NEW y \in instruments'
               PROVE  \/ HasSubtype(y[1])
                      \/ y[1] \in bare' \cup abandoned'
                      \/ \E d \in Callers : PastBase(d)' /\ id[d] = y[1]
    BY <1>2, <1>3 DEF BasesExplained, HasSubtype
  <2>1. CASE y = x
    BY <1>3, <2>1
  <2>2. CASE y \in instruments
    BY <1>1, <1>3, <2>2 DEF BasesExplained
  <2> QED
    BY <1>2, <2>1, <2>2
<1>10. LeftoversStand'
  BY <1>1, <1>2, <1>3, <1>4, <1>5, <1>6 DEF LeftoversStand, HasSubtype
<1>11. \A d \in Callers : (PastBase(d) => OwnBase(d))'
  BY <1>1, <1>2, <1>3, <1>4, <1>5 DEF OwnBase, HasSubtype
<1> QED
  BY <1>7, <1>8, <1>9, <1>10, <1>11

(* The subtype is the first of an instrument nobody else works on. *)
LEMMA TablesInsert ==
  ASSUME TypeOK, TablesInv, NEW c \in Callers, InsertSubtype(c)
  PROVE  TablesInv'
<1> DEFINE row == <<id[c], req[c].kind, req[c].refs>>
<1> USE DEF TablesInv
<1>1. /\ PastBase(c) /\ OwnBase(c)
      /\ req[c].refs # {} /\ req[c].refs \subseteq assets
  BY DEF InsertSubtype, PastBase, Storable, SpotStorable, PerpStorable,
         FutureStorable, OptionStorable, DepositStorable, BorrowStorable, Present
<1>2. /\ subtypes' = subtypes \cup {row}
      /\ UNCHANGED <<assets, instruments, bare, abandoned>>
  BY DEF InsertSubtype
<1>3. /\ id' = id /\ ~ PastBase(c)'
      /\ \A d \in Callers \ {c} : PastBase(d)' <=> PastBase(d)
  BY DEF InsertSubtype, Answer, PastBase, TypeOK
<1>4. \A t \in subtypes : t[1] # id[c]
  BY <1>1 DEF OwnBase, HasSubtype
<1>5. KeysUnique' /\ OneSubtype'
  BY <1>2, <1>4 DEF KeysUnique, OneSubtype
<1>6. SubtypesHaveParents'
  BY <1>1, <1>2 DEF SubtypesHaveParents, OwnBase
<1>7. ASSUME NEW i
      PROVE  HasSubtype(i)' <=> (HasSubtype(i) \/ i = id[c])
  <2>1. row \in subtypes' /\ row[1] = id[c]
    BY <1>2
  <2>2. ASSUME HasSubtype(i)
        PROVE  HasSubtype(i)'
    BY <1>2, <2>2 DEF HasSubtype
  <2>3. ASSUME HasSubtype(i)'
        PROVE  HasSubtype(i) \/ i = id[c]
    BY <1>2, <2>3 DEF HasSubtype
  <2>4. i = id[c] => HasSubtype(i)'
    BY <2>1 DEF HasSubtype
  <2> QED
    BY <2>2, <2>3, <2>4
<1>8. BasesExplained'
  BY <1>2, <1>3, <1>7 DEF BasesExplained
<1>9. LeftoversStand'
  BY <1>1, <1>2, <1>3, <1>7 DEF LeftoversStand
<1>10. \A d \in Callers : (PastBase(d) => OwnBase(d))'
  BY <1>1, <1>2, <1>3, <1>7 DEF OwnBase
<1> QED
  BY <1>5, <1>6, <1>8, <1>9, <1>10

(* A create that ends, and gives its id up if it had a base row. *)
LEMMA TablesEnd ==
  ASSUME TypeOK, TablesInv, NEW c \in Callers,
         UNCHANGED <<assets, instruments, subtypes, bare, id>>,
         ~ PastBase(c)',
         \A d \in Callers \ {c} : PastBase(d)' <=> PastBase(d),
         abandoned' = IF PastBase(c) THEN abandoned \cup {id[c]} ELSE abandoned
  PROVE  TablesInv'
<1> USE DEF TablesInv
<1>1. KeysUnique' /\ OneSubtype' /\ SubtypesHaveParents'
  BY DEF KeysUnique, OneSubtype, SubtypesHaveParents
<1>2. \A i : HasSubtype(i)' <=> HasSubtype(i)
  BY DEF HasSubtype
<1>3. BasesExplained'
  BY <1>2 DEF BasesExplained
<1>4. LeftoversStand'
  BY <1>2 DEF LeftoversStand, OwnBase
<1>5. \A d \in Callers : (PastBase(d) => OwnBase(d))'
  BY <1>2 DEF OwnBase
<1> QED
  BY <1>1, <1>3, <1>4, <1>5

LEMMA TablesStep == TypeOK /\ TablesInv /\ [Next]_vars => TablesInv'
<1> SUFFICES ASSUME TypeOK, TablesInv, [Next]_vars
             PROVE  TablesInv'
  OBVIOUS
<1>1. ASSUME NEW a \in Assets, CreateAsset(a) \/ DeleteAsset(a)
      PROVE  TablesInv'
  BY <1>1, TablesFrame DEF CreateAsset, DeleteAsset, handlerVars, PastBase
<1>2. ASSUME NEW c \in Callers, NEW q \in Requests, NEW i \in Ids, Receive(c, q, i)
      PROVE  TablesInv'
  BY <1>2, TablesFrame DEF Receive, PastBase, TypeOK
<1>3. ASSUME NEW c \in Callers, CheckAssets(c) \/ CheckRows(c)
      PROVE  TablesInv'
  BY <1>3, TablesFrame DEF CheckAssets, CheckRows, PastBase, TypeOK
<1>4. ASSUME NEW c \in Callers, BaseFails(c)
      PROVE  TablesInv'
  BY <1>4, TablesFrame DEF BaseFails, Answer, PastBase, TypeOK
<1>5. ASSUME NEW c \in Callers, AssetsRefused(c) \/ SubtypeFails(c) \/ Die(c)
      PROVE  TablesInv'
  BY <1>5, TablesEnd
     DEF AssetsRefused, SubtypeFails, Die, GiveUp, Answer, PastBase, TypeOK
<1>6. CASE UNCHANGED vars
  BY <1>6, TablesFrame DEF vars, PastBase
<1> QED
  BY <1>1, <1>2, <1>3, <1>4, <1>5, <1>6, TablesBase, TablesInsert DEF Next, Handle

LEMMA Invariance == Spec => []IInv
<1>1. Init => IInv
  BY DEF Init, IInv, TypeOK, Stages, Replies, PastBase, KeysUnique, OneSubtype,
         SubtypesHaveParents, BasesExplained, LeftoversStand
<1>2. IInv <=> TypeOK /\ TablesInv
  BY DEF IInv, TablesInv
<1>3. IInv' <=> TypeOK' /\ TablesInv'
  BY DEF IInv, TablesInv
<1>4. IInv /\ [Next]_vars => IInv'
  BY <1>2, <1>3, TypeStep, TablesStep
<1> QED
  BY <1>1, <1>4, PTL DEF Spec

(***************************************************************************)
(* A subtype row always has its base row and its assets: the cached reads  *)
(* and the EXISTS queries may be out of date, the foreign keys are not.    *)
(***************************************************************************)
THEOREM SubtypesKeepParents == Spec => []SubtypesHaveParents
<1>1. IInv => SubtypesHaveParents
  BY DEF IInv
<1> QED
  BY <1>1, Invariance, PTL

(***************************************************************************)
(* No interleaving of creates gives an instrument two subtypes, although   *)
(* no constraint of the schema forbids it.                                 *)
(***************************************************************************)
THEOREM OneKindEach == Spec => []OneSubtype
<1>1. IInv => OneSubtype
  BY DEF IInv
<1> QED
  BY <1>1, Invariance, PTL

(***************************************************************************)
(* A base row without a subtype is accounted for by a create that asked    *)
(* for nothing else, is running, or has failed: no create that was         *)
(* answered OK is incomplete.                                              *)
(***************************************************************************)
THEOREM NoUnexplainedBase == Spec => []BasesExplained
<1>1. IInv => BasesExplained
  BY DEF IInv
<1> QED
  BY <1>1, Invariance, PTL

-------------------------------------------------------------------------------
(* The refinement.                                                         *)

(* The members of the join. *)
LEMMA JoinRows ==
  ASSUME NEW base, NEW sub, NEW x
  PROVE  x \in Join(base, sub) <=>
           \E b \in base, s \in sub : b[1] = s[1] /\ x = <<b[1], b[2], s[2], s[3]>>
<1>1. ASSUME x \in Join(base, sub)
      PROVE  \E b \in base, s \in sub :
               b[1] = s[1] /\ x = <<b[1], b[2], s[2], s[3]>>
  <2>1. PICK p \in Typed(base, sub) : x = <<p[1][1], p[1][2], p[2][2], p[2][3]>>
    BY <1>1 DEF Join
  <2>2. p[1] \in base /\ p[2] \in sub /\ p[1][1] = p[2][1]
    BY DEF Typed
  <2> QED
    BY <2>1, <2>2
<1>2. ASSUME NEW b \in base, NEW s \in sub, b[1] = s[1],
             x = <<b[1], b[2], s[2], s[3]>>
      PROVE  x \in Join(base, sub)
  <2>1. <<b, s>> \in Typed(base, sub)
    BY <1>2 DEF Typed
  <2>2. <<b, s>>[1] = b /\ <<b, s>>[2] = s
    OBVIOUS
  <2> QED
    BY <1>2, <2>1, <2>2 DEF Join
<1> QED
  BY <1>1, <1>2

(* A base row whose id no subtype has lists nothing. *)
LEMMA ListedBase ==
  ASSUME IInv, NEW c \in Callers, CreateBase(c)
  PROVE  Listed' = Listed
<1>1. /\ instruments' = instruments \cup {<<id[c], req[c].code>>}
      /\ subtypes' = subtypes
  BY DEF CreateBase
<1>2. \A s \in subtypes : s[1] # id[c]
  BY DEF IInv, SubtypesHaveParents, CreateBase, Unlisted
<1>3. \A b \in instruments', s \in subtypes : b[1] = s[1] => b \in instruments
  BY <1>1, <1>2
<1>4. ASSUME NEW x
      PROVE  x \in Join(instruments', subtypes) <=> x \in Join(instruments, subtypes)
  BY <1>1, <1>3, JoinRows
<1> QED
  BY <1>1, <1>4 DEF Listed

(* A subtype lists its instrument, under the code of its base row. *)
LEMMA ListedInsert ==
  ASSUME IInv, NEW c \in Callers, InsertSubtype(c)
  PROVE  \E i \in Ids, k \in Codes, kind \in Kinds, refs \in SUBSET Assets :
           Registry!List(i, k, kind, refs)
<1> DEFINE q == req[c]
<1>1. /\ PastBase(c) /\ OwnBase(c) /\ TypeOK /\ KeysUnique /\ id[c] \in Ids
      /\ q.refs # {} /\ q.refs \subseteq assets /\ q.refs \subseteq Assets
      /\ q.kind \in Kinds
  BY ConstantsAssumption
     DEF InsertSubtype, PastBase, Storable, SpotStorable, PerpStorable,
         FutureStorable, OptionStorable, DepositStorable, BorrowStorable,
         Present, IInv, TypeOK, RequestType
<1>2. PICK k \in Codes : <<id[c], k>> \in instruments
  BY <1>1 DEF OwnBase
<1>3. /\ subtypes' = subtypes \cup {<<id[c], q.kind, q.refs>>}
      /\ UNCHANGED <<assets, instruments>>
  BY DEF InsertSubtype
<1>4. \A b \in instruments : b[1] = id[c] => b = <<id[c], k>>
  BY <1>1, <1>2 DEF KeysUnique
<1>5. \A x \in Listed : x[1] # id[c] /\ x[2] # k
  <2> SUFFICES ASSUME NEW b \in instruments, NEW s \in subtypes, b[1] = s[1]
               PROVE  b[1] # id[c] /\ b[2] # k
    BY JoinRows DEF Listed
  <2>1. b[1] # id[c]
    BY <1>1 DEF OwnBase, HasSubtype
  <2> QED
    BY <1>1, <1>2, <2>1 DEF KeysUnique
<1>6. ASSUME NEW x
      PROVE  x \in Join(instruments, subtypes')
               <=> (x \in Join(instruments, subtypes)
                     \/ x = <<id[c], k, q.kind, q.refs>>)
  <2>1. ASSUME x \in Join(instruments, subtypes')
        PROVE  x \in Join(instruments, subtypes) \/ x = <<id[c], k, q.kind, q.refs>>
    <3>1. PICK b \in instruments, s \in subtypes' :
            b[1] = s[1] /\ x = <<b[1], b[2], s[2], s[3]>>
      BY <2>1, JoinRows
    <3>2. CASE s \in subtypes
      BY <3>1, <3>2, JoinRows
    <3>3. CASE s = <<id[c], q.kind, q.refs>>
      <4>1. b = <<id[c], k>>
        BY <1>4, <3>1, <3>3
      <4> QED
        BY <3>1, <3>3, <4>1
    <3> QED
      BY <1>3, <3>2, <3>3
  <2>2. ASSUME x \in Join(instruments, subtypes)
        PROVE  x \in Join(instruments, subtypes')
    BY <1>3, <2>2, JoinRows
  <2>3. <<id[c], k, q.kind, q.refs>> \in Join(instruments, subtypes')
    <3>1. <<id[c], q.kind, q.refs>> \in subtypes'
      BY <1>3
    <3> QED
      BY <1>2, <3>1, JoinRows
  <2> QED
    BY <2>1, <2>2, <2>3
<1>7. Listed' = Listed \cup {<<id[c], k, q.kind, q.refs>>}
  BY <1>3, <1>6 DEF Listed
<1>8. Registry!List(id[c], k, q.kind, q.refs)
  BY <1>1, <1>3, <1>5, <1>7 DEF Registry!List
<1> QED
  BY <1>1, <1>8

(***************************************************************************)
(* The creates implement the abstract registry, for any number of them and *)
(* however they fail: a subtype is listed in one step, and no step takes   *)
(* back or changes what is listed or retires an asset it is written on.    *)
(***************************************************************************)
THEOREM RegistryRefinement == Spec => ImplementsRegistry
<1>1. Init => Registry!Init
  <2>1. Join({}, {}) = {}
    BY JoinRows
  <2> QED
    BY <2>1 DEF Init, Registry!Init, Listed
<1>2. IInv /\ [Next]_vars => [Registry!Next]_(Registry!registryVars)
  <2> SUFFICES ASSUME IInv, [Next]_vars
               PROVE  Registry!Next \/ UNCHANGED <<assets, Listed>>
    BY DEF Registry!registryVars
  <2>1. ASSUME NEW a \in Assets, CreateAsset(a)
        PROVE  Registry!Register(a)
    BY <2>1 DEF CreateAsset, Registry!Register, Listed
  <2>2. ASSUME NEW a \in Assets, DeleteAsset(a)
        PROVE  Registry!Retire(a)
    <3>1. \A x \in Listed : a \notin x[4]
      BY <2>2, JoinRows DEF DeleteAsset, Listed
    <3> QED
      BY <2>2, <3>1 DEF DeleteAsset, Registry!Retire, Listed
  <2>3. ASSUME NEW c \in Callers, NEW q \in Requests, NEW i \in Ids,
               Receive(c, q, i)
        PROVE  UNCHANGED <<assets, Listed>>
    BY <2>3 DEF Receive, Listed
  <2>4. ASSUME NEW c \in Callers, CreateBase(c)
        PROVE  UNCHANGED <<assets, Listed>>
    BY <2>4, ListedBase DEF CreateBase
  <2>5. ASSUME NEW c \in Callers,
               \/ BaseFails(c) \/ CheckAssets(c) \/ AssetsRefused(c)
               \/ CheckRows(c) \/ SubtypeFails(c) \/ Die(c)
        PROVE  UNCHANGED <<assets, Listed>>
    BY <2>5 DEF BaseFails, CheckAssets, AssetsRefused, CheckRows, SubtypeFails,
                Die, GiveUp, Listed
  <2>6. CASE UNCHANGED vars
    BY <2>6 DEF vars, Listed
  <2> QED
    BY <2>1, <2>2, <2>3, <2>4, <2>5, <2>6, ListedInsert
       DEF Next, Handle, Registry!Next
<1> QED
  BY <1>1, <1>2, Invariance, PTL DEF Spec, ImplementsRegistry, Registry!Spec

-------------------------------------------------------------------------------
(* What the registry promises, and the creates with it.                    *)

(***************************************************************************)
(* The registry without handlers keeps ids and codes apart and its assets  *)
(* registered, as nothing is listed under a taken id or code and no asset  *)
(* is retired under an instrument.                                         *)
(***************************************************************************)
THEOREM RegistryCorrect == Registry!Spec => []Registry!RegistryInv
<1> USE DEF Registry!RegistryInv
<1>1. Registry!Init => Registry!RegistryInv
  BY DEF Registry!Init
<1>2. Registry!RegistryInv /\ [Registry!Next]_(Registry!registryVars)
        => Registry!RegistryInv'
  <2> SUFFICES ASSUME Registry!RegistryInv,
                      [Registry!Next]_(Registry!registryVars)
               PROVE  Registry!RegistryInv'
    OBVIOUS
  <2>1. ASSUME NEW a \in Assets, Registry!Register(a)
        PROVE  Registry!RegistryInv'
    BY <2>1 DEF Registry!Register
  <2>2. ASSUME NEW a \in Assets, Registry!Retire(a)
        PROVE  Registry!RegistryInv'
    BY <2>2 DEF Registry!Retire
  <2>3. ASSUME NEW i \in Ids, NEW k \in Codes, NEW kind \in Kinds,
               NEW refs \in SUBSET Assets, Registry!List(i, k, kind, refs)
        PROVE  Registry!RegistryInv'
    BY <2>3 DEF Registry!List
  <2>4. CASE UNCHANGED Registry!registryVars
    BY <2>4 DEF Registry!registryVars
  <2> QED
    BY <2>1, <2>2, <2>3, <2>4 DEF Registry!Next
<1> QED
  BY <1>1, <1>2, PTL DEF Registry!Spec

(***************************************************************************)
(* Hence clients of the creates, who see the join of base and subtype      *)
(* rows, find no id or code twice among the instruments of all kinds and   *)
(* every instrument on registered assets, for any number of creates and    *)
(* however they fail.                                                      *)
(***************************************************************************)
THEOREM ListedInstrumentsSound == Spec => []Registry!RegistryInv
  BY RegistryRefinement, RegistryCorrect DEF ImplementsRegistry

(***************************************************************************)
(* And what they have found they find again, unchanged.                    *)
(***************************************************************************)
THEOREM ListedInstrumentsStay == Spec => Registry!ListedForGood
<1>1. [Registry!Next]_(Registry!registryVars)
        => [Listed \subseteq Listed']_(Registry!registryVars)
  BY DEF Registry!Next, Registry!Register, Registry!Retire, Registry!List
<1>2. Registry!Spec => Registry!ListedForGood
  BY <1>1, PTL DEF Registry!Spec, Registry!ListedForGood
<1> QED
  BY <1>2, RegistryRefinement DEF ImplementsRegistry
===============================================================================
