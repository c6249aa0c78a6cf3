------------------------ MODULE RelationshipGraphProofs ------------------------
(***************************************************************************)
(* Theorems about RelationshipGraph, for every set of assets, types and    *)
(* handlers, every page limit, with and without failing statements.        *)
(*                                                                         *)
(* The argument: SearchInv says what a running search knows, CyclesNeedAGap*)
(* follows from it at the one action that adds a row (AcyclicAdd), and     *)
(* with a single handler no search has a gap, so no row is unchecked.      *)
(***************************************************************************)
EXTENDS RelationshipGraph, FiniteSetTheorems, TLAPS

-------------------------------------------------------------------------------
(* Typed graphs.                                                           *)

(* Removing edges closes no cycle. *)
LEMMA AcyclicSubset ==
  ASSUME NEW rel, NEW sub, sub \subseteq rel, Acyclic(rel)
  PROVE  Acyclic(sub)
<1> SUFFICES ASSUME NEW ty \in Types, NEW S \in SUBSET Assets, S # {}
             PROVE  \E a \in S : Successors(sub, ty, a) \cap S = {}
  BY DEF Acyclic
<1>1. PICK a \in S : Successors(rel, ty, a) \cap S = {}
  BY DEF Acyclic
<1>2. Successors(sub, ty, a) \subseteq Successors(rel, ty, a)
  BY DEF Successors
<1> QED
  BY <1>1, <1>2

(***************************************************************************)
(* The argument of the cycle check: if a search from t has collected a     *)
(* closed set V of assets without meeting f, then the edge from f to t     *)
(* closes no cycle.  In a set S in which every asset has an edge back into *)
(* S, the new edge must be used, so S holds t; the part of S that lies in  *)
(* V then already was such a set before the edge was added.                *)
(***************************************************************************)
LEMMA AcyclicAdd ==
  ASSUME NEW rel, NEW f \in Assets, NEW t \in Assets, NEW ty \in Types,
         NEW V \in SUBSET Assets,
         Acyclic(rel), Closed(rel, ty, V), t \in V, f \notin V
  PROVE  Acyclic(rel \cup {<<f, t, ty>>})
<1> DEFINE new == rel \cup {<<f, t, ty>>}
<1> SUFFICES ASSUME NEW u \in Types, NEW S \in SUBSET Assets, S # {},
                    \A a \in S : Successors(new, u, a) \cap S # {}
             PROVE  FALSE
  BY DEF Acyclic
<1>1. ASSUME NEW a \in Assets, <<a, u>> # <<f, ty>>
      PROVE  Successors(new, u, a) = Successors(rel, u, a)
  BY <1>1 DEF Successors
<1>2. Successors(new, ty, f) = Successors(rel, ty, f) \cup {t}
  BY DEF Successors
<1>3. PICK b \in S : Successors(rel, u, b) \cap S = {}
  BY DEF Acyclic
<1>4. b = f /\ u = ty
  BY <1>1, <1>3
<1>5. t \in S
  BY <1>2, <1>3, <1>4
<1>6. PICK a \in S \cap V : Successors(rel, ty, a) \cap (S \cap V) = {}
  BY <1>5 DEF Acyclic
<1>7. Successors(rel, ty, a) \cap S # {}
  BY <1>1, <1>4, <1>6
<1>8. Successors(rel, ty, a) \subseteq V
  BY <1>6 DEF Closed
<1> QED
  BY <1>6, <1>7, <1>8

(* The same for an edge whose target does not reach its source. *)
LEMMA AcyclicAddUnreached ==
  ASSUME NEW rel, NEW f \in Assets, NEW t \in Assets, NEW ty \in Types,
         Acyclic(rel), ~ Reaches(rel, ty, t, f)
  PROVE  Acyclic(rel \cup {<<f, t, ty>>})
<1>1. PICK V \in SUBSET Assets : t \in V /\ Closed(rel, ty, V) /\ f \notin V
  BY DEF Reaches
<1> QED
  BY <1>1, AcyclicAdd

(* A closed set stays closed when edges are removed. *)
LEMMA ClosedSubset ==
  ASSUME NEW rel, NEW sub, sub \subseteq rel, NEW ty \in Types,
         NEW V \in SUBSET Assets, Closed(rel, ty, V)
  PROVE  Closed(sub, ty, V)
BY DEF Closed, Successors
-------------------------------------------------------------------------------
(* The registry without handlers.                                          *)

(* Graph's operators on edges are those of TypedGraphs. *)
LEMMA GraphOperators ==
  ASSUME NEW rel
  PROVE  /\ Graph!Acyclic(rel) <=> Acyclic(rel)
         /\ \A ty, a, b : Graph!Reaches(rel, ty, a, b) <=> Reaches(rel, ty, a, b)
BY DEF Acyclic, Reaches, Closed, Successors,
       Graph!Acyclic, Graph!Reaches, Graph!Closed, Graph!Successors

(***************************************************************************)
(* Registering, retiring and relating assets never makes a cycle, whatever *)
(* the sets of assets and types: the edges of AssetGraph join registered   *)
(* assets and no chain of one type comes back to where it started.         *)
(***************************************************************************)
THEOREM GraphCorrect == Graph!Spec => []Graph!GraphInv
<1> USE GraphOperators DEF Graph!GraphInv
<1>1. Graph!Init => Graph!GraphInv
  <2>1. Acyclic({})
    BY DEF Acyclic, Successors
  <2> QED
    BY <2>1 DEF Graph!Init
<1>2. Graph!GraphInv /\ [Graph!Next]_(Graph!graphVars) => Graph!GraphInv'
  <2> SUFFICES ASSUME Graph!GraphInv, [Graph!Next]_(Graph!graphVars)
               PROVE  Graph!GraphInv'
    OBVIOUS
  <2>1. ASSUME NEW a \in Assets, Graph!Register(a)
        PROVE  Graph!GraphInv'
    BY <2>1 DEF Graph!Register
  <2>2. ASSUME NEW a \in Assets, Graph!Retire(a)
        PROVE  Graph!GraphInv'
    <3>1. relationships' \subseteq assets' \X assets' \X Types
      BY <2>2 DEF Graph!Retire
    <3>2. Acyclic(relationships')
      BY <2>2, AcyclicSubset DEF Graph!Retire
    <3> QED
      BY <2>2, <3>1, <3>2 DEF Graph!Retire
  <2>3. ASSUME NEW f \in Assets, NEW t \in Assets, NEW ty \in Types,
               Graph!Relate(f, t, ty)
        PROVE  Graph!GraphInv'
    <3>1. Acyclic(relationships')
      BY <2>3, AcyclicAddUnreached DEF Graph!Relate
    <3> QED
      BY <2>3, <3>1 DEF Graph!Relate
  <2>4. CASE UNCHANGED Graph!graphVars
    BY <2>4 DEF Graph!graphVars
  <2> QED
    BY <2>1, <2>2, <2>3, <2>4 DEF Graph!Next
<1> QED
  BY <1>1, <1>2, PTL DEF Graph!Spec

-------------------------------------------------------------------------------
(* The handlers.                                                           *)

(* Types are preserved by every step. *)
LEMMA TypeStep == TypeOK /\ [Next]_vars => TypeOK'
<1> SUFFICES ASSUME TypeOK, [Next]_vars
             PROVE  TypeOK'
  OBVIOUS
<1> USE DEF TypeOK, Triples, NoRequest, Stages, Replies
<1>1. ASSUME NEW a \in Assets, CreateAsset(a)
      PROVE  TypeOK'
  BY <1>1 DEF CreateAsset, handlerVars
<1>2. ASSUME NEW a \in Assets, DeleteAsset(a)
      PROVE  TypeOK'
  <2>1. Touching(unchecked, a) = unchecked \cap Touching(relationships, a)
    BY DEF Touching
  <2>2. lost' \in [Callers -> BOOLEAN]
    BY <1>2 DEF DeleteAsset
  <2>3. unchecked' \subseteq relationships' /\ relationships' \subseteq Triples
    BY <1>2, <2>1 DEF DeleteAsset
  <2> QED
    BY <1>2, <2>2, <2>3 DEF DeleteAsset
<1>3. ASSUME NEW c \in Callers, NEW triple \in Triples, Receive(c, triple)
      PROVE  TypeOK'
  BY <1>3 DEF Receive
<1>4. ASSUME NEW c \in Callers, NEW r \in Replies, Refuse(c, r)
      PROVE  TypeOK'
  BY <1>4 DEF Refuse, Answer
<1>5. ASSUME NEW c \in Callers, Handle(c)
      PROVE  TypeOK'
  <2>1. CASE GetFrom(c)
    BY <2>1 DEF GetFrom
  <2>2. CASE NotFound(c) \/ RefuseSelf(c) \/ RefuseCycle(c) \/ InsertFails(c)
    BY <1>4, <2>2 DEF NotFound, RefuseSelf, RefuseCycle, InsertFails
  <2>3. CASE StartSearch(c)
    <3>1. To(c) \in Assets
      BY <2>3 DEF StartSearch, To
    <3> QED
      BY <2>3, <3>1 DEF StartSearch
  <2>4. CASE Expand(c)
    <3> DEFINE next(a) == Successors(relationships, Type(c), a)
    <3>0. PICK a \in frontier[c] :
            \E page \in Pages(next(a)) : Visit(c, a, next(a), page)
      BY <2>4 DEF Expand
    <3>1. PICK page \in Pages(next(a)) : Visit(c, a, next(a), page)
      BY <3>0
    <3>2. page \subseteq Assets
      BY <3>1 DEF Pages, Successors
    <3>3. gap' \in [Callers -> BOOLEAN]
      BY <3>1 DEF Visit
    <3> QED
      BY <2>4, <3>1, <3>2, <3>3 DEF Expand, Visit
  <2>5. CASE EndSearch(c) \/ CheckRows(c)
    BY <2>5 DEF EndSearch, CheckRows
  <2>6. CASE AbandonSearch(c)
    BY <2>6 DEF AbandonSearch
  <2>7. CASE Insert(c)
    <3>1. gap' \in [Callers -> BOOLEAN]
      BY <2>7 DEF Insert
    <3>2. req[c] \in Triples
      BY <2>7 DEF Insert
    <3>3. /\ relationships' \subseteq Triples
          /\ unchecked' \subseteq relationships'
          /\ assets' = assets /\ retired' = retired
      BY <2>7, <3>2 DEF Insert
    <3>4. \E r \in Replies : Answer(c, r)
      BY <2>7 DEF Insert
    <3> QED
      BY <3>1, <3>3, <3>4 DEF Answer
  <2> QED
    BY <1>5, <2>1, <2>2, <2>3, <2>4, <2>5, <2>6, <2>7 DEF Handle
<1>6. CASE UNCHANGED vars
  BY <1>6 DEF vars
<1> QED
  BY <1>1, <1>2, <1>3, <1>5, <1>6 DEF Next

(***************************************************************************)
(* Type correctness of the tables and of every handler's locals.           *)
(***************************************************************************)
THEOREM TypeCorrect == Spec => []TypeOK
<1>1. Init => TypeOK
  BY DEF Init, TypeOK, Stages, Replies, NoRequest
<1> QED
  BY <1>1, TypeStep, PTL DEF Spec

-------------------------------------------------------------------------------
(* What a search knows.                                                    *)

(* A step that leaves handler d and the table alone leaves d's knowledge. *)
LEMMA SearchFrame ==
  ASSUME NEW d \in Callers, Deciding(d) => SearchKnows(d),
         relationships' = relationships,
         pc'[d] = pc[d], req'[d] = req[d], visited'[d] = visited[d],
         frontier'[d] = frontier[d], gap'[d] = gap[d], lost'[d] = lost[d]
  PROVE  (Deciding(d) => SearchKnows(d))'
BY DEF Deciding, SearchKnows, From, To, Type

(* Adding rows keeps every path. *)
LEMMA ReachesMore ==
  ASSUME NEW rel, NEW more, rel \subseteq more, NEW ty,
         NEW a, NEW b, Reaches(rel, ty, a, b)
  PROVE  Reaches(more, ty, a, b)
<1> SUFFICES ASSUME NEW S \in SUBSET Assets, a \in S, Closed(more, ty, S)
             PROVE  b \in S
  BY DEF Reaches
<1>1. Closed(rel, ty, S)
  BY DEF Closed, Successors
<1> QED
  BY <1>1 DEF Reaches

(* Rows of other types do not matter to a path. *)
LEMMA ReachesOther ==
  ASSUME NEW rel, NEW other, NEW ty,
         \A x, y \in Assets : <<x, y, ty>> \in rel <=> <<x, y, ty>> \in other
  PROVE  /\ \A x \in Assets : Successors(rel, ty, x) = Successors(other, ty, x)
         /\ \A a, b : Reaches(rel, ty, a, b) <=> Reaches(other, ty, a, b)
<1>1. \A x \in Assets : Successors(rel, ty, x) = Successors(other, ty, x)
  BY DEF Successors
<1>2. \A S \in SUBSET Assets : Closed(rel, ty, S) <=> Closed(other, ty, S)
  BY <1>1 DEF Closed
<1> QED
  BY <1>1, <1>2 DEF Reaches

(* A deletion under a search only takes edges away, or is noted in lost. *)
LEMMA SearchDelete ==
  ASSUME TypeOK, SearchInv, NEW a \in Assets, DeleteAsset(a)
  PROVE  SearchInv'
<1> SUFFICES ASSUME NEW d \in Callers, Deciding(d)
             PROVE  SearchKnows(d)'
  BY DEF SearchInv, DeleteAsset, Deciding
<1>1. SearchKnows(d)
  BY DEF SearchInv
<1>2. /\ pc' = pc /\ req' = req /\ visited' = visited
      /\ frontier' = frontier /\ gap' = gap
      /\ relationships' = relationships \ Touching(relationships, a)
  BY DEF DeleteAsset
<1>3. /\ From(d)' = From(d) /\ To(d)' = To(d) /\ Type(d)' = Type(d)
  BY <1>2 DEF From, To, Type
<1>4. ASSUME NEW x \in Assets
      PROVE  Successors(relationships', Type(d), x)
               \subseteq Successors(relationships, Type(d), x)
  BY <1>2 DEF Successors
<1>5. ASSUME pc[d] = "search", ~ lost'[d]
      PROVE  /\ ~ lost[d]
             /\ \A x, y \in Assets :
                  <<x, y, Type(d)>> \in relationships
                    <=> <<x, y, Type(d)>> \in relationships'
  <2>1. ~ lost[d] /\ \A r \in Touching(relationships, a) : r[3] # Type(d)
    BY <1>5 DEF DeleteAsset
  <2> QED
    BY <1>2, <2>1
<1>6. ASSUME pc[d] = "search", ~ lost'[d]
      PROVE  \A x \in visited[d] : Reaches(relationships', Type(d), To(d), x)
  <2>1. \A x, y : Reaches(relationships, Type(d), x, y)
                    <=> Reaches(relationships', Type(d), x, y)
    BY <1>5, <1>6, ReachesOther
  <2> QED
    BY <1>1, <1>5, <1>6, <2>1 DEF SearchKnows
<1>7. gap'[d] \/ \A x \in visited[d] \ frontier[d] :
                   Successors(relationships', Type(d), x) \subseteq visited[d]
  <2>1. visited[d] \subseteq Assets
    BY DEF TypeOK
  <2> QED
    BY <1>1, <1>2, <1>4, <2>1 DEF SearchKnows
<1> QED
  BY <1>1, <1>2, <1>3, <1>6, <1>7 DEF SearchKnows

(* A row that arrives under a search of its type is a gap in that search. *)
LEMMA SearchInsert ==
  ASSUME TypeOK, SearchInv, NEW c \in Callers, Insert(c)
  PROVE  SearchInv'
<1>1. pc[c] = "insert" /\ req[c] \in Triples
  BY DEF Insert, TypeOK
<1>2. PICK r \in Replies : Answer(c, r)
  BY DEF Insert, Replies
<1>3. SUFFICES ASSUME NEW d \in Callers, Deciding(d)'
               PROVE  SearchKnows(d)'
  BY DEF SearchInv
<1>4. d # c
  BY <1>2, <1>3 DEF Answer, Deciding, TypeOK
<1>5. /\ pc'[d] = pc[d] /\ req'[d] = req[d] /\ visited'[d] = visited[d]
      /\ frontier'[d] = frontier[d] /\ lost'[d] = lost[d]
  BY <1>2, <1>4 DEF Answer, TypeOK
<1>6. /\ From(d)' = From(d) /\ To(d)' = To(d) /\ Type(d)' = Type(d)
  BY <1>5 DEF From, To, Type
<1>7. Deciding(d) /\ SearchKnows(d)
  BY <1>3, <1>5 DEF Deciding, SearchInv
<1>8. gap'[d] = (gap[d] \/ Type(d) = Type(c))
  BY <1>4, <1>7 DEF Insert
<1>9. relationships' = relationships \cup {req[c]}
  BY DEF Insert
<1>10. gap'[d] \/ \A x \in visited[d] \ frontier[d] :
         Successors(relationships', Type(d), x) \subseteq visited[d]
  <2> SUFFICES ASSUME ~ gap[d], Type(d) # Type(c)
               PROVE  \A x \in visited[d] \ frontier[d] :
                 Successors(relationships', Type(d), x) \subseteq visited[d]
    BY <1>8
  <2>1. \A x, y \in Assets : <<x, y, Type(d)>> \in relationships
                               <=> <<x, y, Type(d)>> \in relationships'
    BY <1>1, <1>9 DEF Type
  <2>2. \A x \in Assets : Successors(relationships, Type(d), x)
                             = Successors(relationships', Type(d), x)
    BY <2>1, ReachesOther
  <2>3. visited[d] \subseteq Assets
    BY DEF TypeOK
  <2> QED
    BY <1>7, <2>2, <2>3 DEF SearchKnows
<1>11. pc[d] = "search" =>
         lost[d] \/ \A x \in visited[d] :
                      Reaches(relationships', Type(d), To(d), x)
  BY <1>7, <1>9, ReachesMore DEF SearchKnows
<1> QED
  BY <1>5, <1>6, <1>7, <1>8, <1>10, <1>11 DEF SearchKnows

(* A round of the search of handler c. *)
LEMMA SearchExpand ==
  ASSUME TypeOK, NEW c \in Callers, SearchKnows(c), Expand(c)
  PROVE  SearchKnows(c)'
<1> DEFINE next(a) == Successors(relationships, Type(c), a)
<1>1. PICK a \in frontier[c] \ {From(c)} :
        \E page \in Pages(next(a)) : Visit(c, a, next(a), page)
  BY DEF Expand
<1>2. PICK page \in Pages(next(a)) : Visit(c, a, next(a), page)
  BY <1>1
<1>3. page \subseteq next(a) /\ next(a) \subseteq Assets
  BY <1>2 DEF Pages, Successors
<1>4. /\ visited'[c] = visited[c] \cup page
      /\ frontier'[c] = (frontier[c] \ {a}) \cup (page \ visited[c])
      /\ gap'[c] = (gap[c] \/ page # next(a))
  BY <1>2 DEF Visit, TypeOK
<1>5. /\ From(c)' = From(c) /\ To(c)' = To(c) /\ Type(c)' = Type(c)
      /\ pc'[c] = "search" /\ pc[c] = "search" /\ lost'[c] = lost[c]
      /\ relationships' = relationships
  BY DEF Expand, From, To, Type
<1>6. gap'[c] \/ \A x \in visited'[c] \ frontier'[c] : next(x) \subseteq visited'[c]
  <2> SUFFICES ASSUME ~ gap[c], page = next(a),
                      NEW x \in visited'[c] \ frontier'[c]
               PROVE  next(x) \subseteq visited'[c]
    BY <1>4
  <2>1. CASE x = a
    BY <1>4, <2>1
  <2>2. CASE x # a
    BY <1>4, <2>2 DEF SearchKnows
  <2> QED
    BY <2>1, <2>2
<1>7. lost[c] \/ \A x \in visited'[c] : Reaches(relationships, Type(c), To(c), x)
  <2> SUFFICES ASSUME ~ lost[c], NEW x \in page
               PROVE  Reaches(relationships, Type(c), To(c), x)
    BY <1>4, <1>5 DEF SearchKnows
  <2> SUFFICES ASSUME NEW S \in SUBSET Assets, To(c) \in S,
                      Closed(relationships, Type(c), S)
               PROVE  x \in S
    BY DEF Reaches
  <2>1. a \in S
    BY <1>1, <1>5 DEF SearchKnows, Reaches
  <2> QED
    BY <1>3, <2>1 DEF Closed
<1> QED
  BY <1>1, <1>4, <1>5, <1>6, <1>7 DEF SearchKnows

(* Every step of a handler preserves what the searches know. *)
LEMMA SearchHandle ==
  ASSUME TypeOK, SearchInv, NEW c \in Callers, Handle(c)
  PROVE  SearchInv'
<1>1. CASE Insert(c)
  BY <1>1, SearchInsert
<1> SUFFICES ASSUME ~ Insert(c), NEW d \in Callers
             PROVE  (Deciding(d) => SearchKnows(d))'
  BY <1>1 DEF SearchInv
<1>2. relationships' = relationships
  BY DEF Handle, GetFrom, NotFound, RefuseSelf, StartSearch, Expand,
         RefuseCycle, EndSearch, AbandonSearch, CheckRows, InsertFails, Refuse
<1>3. CASE d # c
  <2>1. /\ pc'[d] = pc[d] /\ req'[d] = req[d] /\ visited'[d] = visited[d]
        /\ frontier'[d] = frontier[d] /\ gap'[d] = gap[d] /\ lost'[d] = lost[d]
    BY <1>3 DEF Handle, GetFrom, NotFound, RefuseSelf, StartSearch, Expand,
         Visit, RefuseCycle, EndSearch, AbandonSearch, CheckRows, InsertFails,
         Refuse, Answer, TypeOK
  <2> QED
    BY <1>2, <2>1, SearchFrame DEF SearchInv
<1>4. CASE d = c
  <2> USE <1>4
  <2>1. CASE GetFrom(c)
    BY <2>1 DEF GetFrom, Deciding, TypeOK
  <2>2. CASE \E r \in Replies : Refuse(c, r)
    BY <2>2 DEF Refuse, Answer, Deciding, TypeOK
  <2>3. CASE StartSearch(c)
    <3>1. /\ pc'[c] = "search" /\ From(c)' = From(c) /\ To(c)' = To(c)
          /\ visited'[c] = {To(c)} /\ frontier'[c] = {To(c)}
          /\ From(c) # To(c)
      BY <2>3 DEF StartSearch, From, To, TypeOK
    <3>2. \A x \in {To(c)} : Reaches(relationships', Type(c)', To(c), x)
      BY DEF Reaches
    <3> QED
      BY <3>1, <3>2 DEF SearchKnows
  <2>4. CASE Expand(c)
    BY <2>4, SearchExpand DEF SearchInv, Deciding, Expand
  <2>5. CASE EndSearch(c) \/ AbandonSearch(c) \/ CheckRows(c)
    <3>1. /\ From(c)' = From(c) /\ To(c)' = To(c) /\ Type(c)' = Type(c)
          /\ pc'[c] \in {"check", "insert"}
          /\ visited' = visited /\ frontier' = frontier
          /\ gap'[c] = gap[c] \/ gap'[c] = TRUE
          /\ gap'[c] \/ frontier[c] = {}
          /\ Deciding(c)
      BY <2>5 DEF EndSearch, AbandonSearch, CheckRows, From, To, Type, TypeOK,
                  Deciding, SearchInv, SearchKnows
    <3> QED
      BY <1>2, <3>1 DEF SearchInv, SearchKnows
  <2> QED
    BY <2>1, <2>2, <2>3, <2>4, <2>5
       DEF Handle, NotFound, RefuseSelf, RefuseCycle, InsertFails, Replies
<1> QED
  BY <1>3, <1>4

LEMMA SearchStep == TypeOK /\ SearchInv /\ [Next]_vars => SearchInv'
<1> SUFFICES ASSUME TypeOK, SearchInv, [Next]_vars
             PROVE  SearchInv'
  OBVIOUS
<1>1. ASSUME NEW a \in Assets, CreateAsset(a)
      PROVE  SearchInv'
  BY <1>1, SearchFrame DEF CreateAsset, handlerVars, SearchInv
<1>2. ASSUME NEW a \in Assets, DeleteAsset(a)
      PROVE  SearchInv'
  BY <1>2, SearchDelete
<1>3. ASSUME NEW c \in Callers, NEW triple \in Triples, Receive(c, triple)
      PROVE  SearchInv'
  <2> SUFFICES ASSUME NEW d \in Callers
               PROVE  (Deciding(d) => SearchKnows(d))'
    BY DEF SearchInv
  <2>1. CASE d = c
    BY <1>3, <2>1 DEF Receive, Deciding, TypeOK
  <2>2. CASE d # c
    BY <1>3, <2>2, SearchFrame DEF Receive, SearchInv, TypeOK
  <2> QED
    BY <2>1, <2>2
<1>4. CASE UNCHANGED vars
  BY <1>4, SearchFrame DEF vars, SearchInv
<1> QED
  BY <1>1, <1>2, <1>3, <1>4, SearchHandle DEF Next

-------------------------------------------------------------------------------
(* The table.                                                              *)

(* The two actions that change the table of relationships. *)
LEMMA TableChanges ==
  ASSUME [Next]_vars
  PROVE  \/ UNCHANGED <<relationships, unchecked>> /\ assets \subseteq assets'
         \/ \E a \in Assets : DeleteAsset(a)
         \/ \E c \in Callers : Insert(c)
BY DEF Next, CreateAsset, Receive, Handle, GetFrom, NotFound, RefuseSelf,
       StartSearch, Expand, RefuseCycle, EndSearch, AbandonSearch, CheckRows,
       InsertFails, Refuse, vars

LEMMA IntegrityStep ==
  TypeOK /\ SearchInv /\ ReferentialIntegrity /\ [Next]_vars
    => ReferentialIntegrity'
<1> SUFFICES ASSUME TypeOK, SearchInv, ReferentialIntegrity, [Next]_vars
             PROVE  ReferentialIntegrity'
  OBVIOUS
<1>1. ASSUME NEW a \in Assets, DeleteAsset(a)
      PROVE  ReferentialIntegrity'
  BY <1>1 DEF DeleteAsset, Touching, ReferentialIntegrity
<1>2. ASSUME NEW c \in Callers, Insert(c)
      PROVE  ReferentialIntegrity'
  <2>1. From(c) # To(c)
    BY <1>2 DEF Insert, SearchInv, SearchKnows, Deciding
  <2> QED
    BY <1>2, <2>1 DEF Insert, Insertable, From, To, ReferentialIntegrity
<1> QED
  BY <1>1, <1>2, TableChanges DEF ReferentialIntegrity

(***************************************************************************)
(* A search without a gap has collected, when its row is inserted, a       *)
(* closed set that holds the to asset and not the from asset.              *)
(***************************************************************************)
LEMMA SearchConcludes ==
  ASSUME TypeOK, SearchInv, NEW c \in Callers, Insert(c), ~ gap[c]
  PROVE  /\ visited[c] \in SUBSET Assets
         /\ Closed(relationships, Type(c), visited[c])
         /\ To(c) \in visited[c]
         /\ From(c) \notin visited[c]
<1>1. SearchKnows(c) /\ frontier[c] = {}
  BY DEF Insert, Deciding, SearchInv, SearchKnows
<1> QED
  BY <1>1 DEF SearchKnows, Closed, TypeOK

LEMMA CyclesStep ==
  TypeOK /\ SearchInv /\ CyclesNeedAGap /\ [Next]_vars => CyclesNeedAGap'
<1> SUFFICES ASSUME TypeOK, SearchInv, CyclesNeedAGap, [Next]_vars
             PROVE  CyclesNeedAGap'
  OBVIOUS
<1> DEFINE checked == relationships \ unchecked
<1> USE DEF CyclesNeedAGap
<1>1. ASSUME NEW a \in Assets, DeleteAsset(a)
      PROVE  CyclesNeedAGap'
  <2>1. checked' \subseteq checked
    BY <1>1 DEF DeleteAsset, Touching
  <2> QED
    BY <2>1, AcyclicSubset
<1>2. ASSUME NEW c \in Callers, Insert(c)
      PROVE  CyclesNeedAGap'
  <2>1. CASE gap[c]
    <3>1. checked' \subseteq checked
      BY <1>2, <2>1 DEF Insert
    <3> QED
      BY <3>1, AcyclicSubset
  <2>2. CASE ~ gap[c]
    <3>1. req[c] = <<From(c), To(c), Type(c)>>
          /\ From(c) \in Assets /\ To(c) \in Assets /\ Type(c) \in Types
      BY <1>2 DEF Insert, TypeOK, Triples, From, To, Type
    <3>2. checked' = checked \cup {<<From(c), To(c), Type(c)>>}
      BY <1>2, <2>2, <3>1 DEF Insert, Insertable, TypeOK
    <3>3. Closed(checked, Type(c), visited[c])
      BY <1>2, <2>2, <3>1, SearchConcludes, ClosedSubset
    <3>4. visited[c] \in SUBSET Assets /\ To(c) \in visited[c] /\ From(c) \notin visited[c]
      BY <1>2, <2>2, SearchConcludes
    <3> QED
      BY <3>1, <3>2, <3>3, <3>4, AcyclicAdd
  <2> QED
    BY <2>1, <2>2
<1> QED
  BY <1>1, <1>2, TableChanges

(* The inductive invariant. *)
LEMMA Invariance == Spec => []IInv
<1>1. Init => IInv
  <2>1. Init => TypeOK
    BY DEF Init, TypeOK, Stages, Replies, NoRequest
  <2>2. Init => SearchInv
    BY DEF Init, SearchInv, Deciding
  <2>3. Acyclic({})
    BY DEF Acyclic, Successors
  <2> QED
    BY <2>1, <2>2, <2>3 DEF Init, IInv, ReferentialIntegrity, CyclesNeedAGap
<1>2. IInv /\ [Next]_vars => IInv'
  BY TypeStep, SearchStep, IntegrityStep, CyclesStep DEF IInv
<1> QED
  BY <1>1, <1>2, PTL DEF Spec

(***************************************************************************)
(* A relationship never points at an asset that is gone, and never from an *)
(* asset to itself: the cached reads may be stale, the constraints checked *)
(* at the INSERT are not.                                                  *)
(***************************************************************************)
THEOREM RowsJoinAssets == Spec => []ReferentialIntegrity
<1>1. IInv => ReferentialIntegrity
  BY DEF IInv
<1> QED
  BY <1>1, Invariance, PTL

(***************************************************************************)
(* At every moment of every search, whatever the other handlers insert and *)
(* delete, the search knows what SearchKnows says: its verdict rests on it.*)
(***************************************************************************)
THEOREM SearchesKnow == Spec => []SearchInv
<1>1. IInv => SearchInv
  BY DEF IInv
<1> QED
  BY <1>1, Invariance, PTL

(***************************************************************************)
(* What concurrent handlers keep of the cycle check: whoever overlaps with *)
(* whom, the rows whose searches had no gap are acyclic among themselves.  *)
(***************************************************************************)
THEOREM CheckedRowsAcyclic == Spec => []CyclesNeedAGap
<1>1. IInv => CyclesNeedAGap
  BY DEF IInv
<1> QED
  BY <1>1, Invariance, PTL

(***************************************************************************)
(* A handler that is refused for a cycle, with no deletion under its       *)
(* search, had one.                                                        *)
(***************************************************************************)
THEOREM NoFalseAlarm == Spec => RefusalsJustified
<1>1. IInv /\ [Next]_vars =>
        \A c \in Callers :
          (pc[c] = "search" /\ reply'[c] = "Cycle" /\ ~ lost[c])
            => Reaches(relationships, Type(c), To(c), From(c))
  <2> SUFFICES ASSUME IInv, [Next]_vars, NEW c \in Callers, pc[c] = "search",
                      reply'[c] = "Cycle", ~ lost[c]
               PROVE  Reaches(relationships, Type(c), To(c), From(c))
    OBVIOUS
  <2>1. reply[c] = "none" /\ SearchKnows(c)
    BY DEF IInv, TypeOK, SearchInv, Deciding
  <2>2. From(c) \in frontier[c]
    BY <2>1 DEF Next, CreateAsset, DeleteAsset, Receive, Handle, GetFrom,
       NotFound, RefuseSelf, StartSearch, Expand, RefuseCycle, EndSearch,
       AbandonSearch, CheckRows, Insert, InsertFails, Refuse, Answer, vars,
       handlerVars, IInv, TypeOK
  <2> QED
    BY <2>1, <2>2 DEF SearchKnows
<1> QED
  BY <1>1, Invariance, PTL DEF Spec, RefusalsJustified

-------------------------------------------------------------------------------
(* Any number of handlers.                                                 *)

(***************************************************************************)
(* Whatever overlaps, fails and is cut, the rows whose searches had no gap *)
(* implement the registry's promise among themselves: a checked INSERT is  *)
(* a Relate, the search having shown that the to asset does not reach the  *)
(* from asset along checked rows, a DELETE takes exactly its rows along,   *)
(* and no other step touches them.                                         *)
(***************************************************************************)
THEOREM CheckedRefinement == Spec => ImplementsCheckedGraph
<1>1. Init => Checked!Init
  BY DEF Init, Checked!Init
<1>2. IInv /\ [Next]_vars => [Checked!Next]_(Checked!graphVars)
  <2> SUFFICES ASSUME IInv, [Next]_vars
               PROVE  [Checked!Next]_(Checked!graphVars)
    OBVIOUS
  <2> USE DEF Checked!graphVars
  <2> DEFINE checked == relationships \ unchecked
  <2>1. ASSUME NEW a \in Assets, CreateAsset(a)
        PROVE  Checked!Next
    BY <2>1 DEF CreateAsset, Checked!Next, Checked!Register
  <2>2. ASSUME NEW a \in Assets, DeleteAsset(a)
        PROVE  Checked!Next
    <3>1. checked' = {r \in checked : a \notin {r[1], r[2]}}
      BY <2>2 DEF DeleteAsset, Touching
    <3> QED
      BY <2>2, <3>1 DEF DeleteAsset, Checked!Next, Checked!Retire
  <2>3. ASSUME NEW c \in Callers, Insert(c), gap[c]
        PROVE  UNCHANGED Checked!graphVars
    BY <2>3 DEF Insert, Insertable, IInv, TypeOK
  <2>4. ASSUME NEW c \in Callers, Insert(c), ~ gap[c]
        PROVE  Checked!Next
    <3>1. req[c] = <<From(c), To(c), Type(c)>>
          /\ From(c) \in Assets /\ To(c) \in Assets /\ Type(c) \in Types
      BY <2>4 DEF Insert, IInv, TypeOK, Triples, From, To, Type
    <3>2. Closed(checked, Type(c), visited[c])
      BY <2>4, <3>1, SearchConcludes, ClosedSubset DEF IInv
    <3>3. ~ Reaches(checked, Type(c), To(c), From(c))
      BY <2>4, <3>2, SearchConcludes DEF Reaches, IInv
    <3>4. ~ Checked!Reaches(checked, Type(c), To(c), From(c))
      BY <3>3 DEF Reaches, Closed, Successors,
                  Checked!Reaches, Checked!Closed, Checked!Successors
    <3>5. checked' = checked \cup {<<From(c), To(c), Type(c)>>}
      BY <2>4, <3>1 DEF Insert, Insertable, IInv, TypeOK
    <3>6. {From(c), To(c)} \subseteq assets /\ UNCHANGED assets
      BY <2>4 DEF Insert, Insertable, From, To
    <3> QED
      BY <3>1, <3>4, <3>5, <3>6 DEF Checked!Next, Checked!Relate
  <2>5. CASE UNCHANGED <<assets, relationships, unchecked>>
    BY <2>5
  <2> QED
    BY <2>1, <2>2, <2>3, <2>4, <2>5
       DEF Next, Receive, Handle, GetFrom, NotFound, RefuseSelf, StartSearch,
           Expand, RefuseCycle, EndSearch, AbandonSearch, CheckRows,
           InsertFails, Refuse, vars
<1> QED
  BY <1>1, <1>2, Invariance, PTL
     DEF Spec, ImplementsCheckedGraph, Checked!Spec

-------------------------------------------------------------------------------
(* One handler at a time.                                                  *)

(* No search has a gap and no row is unchecked. *)
NoGaps == (\A c \in Callers : ~ gap[c]) /\ unchecked = {}

LEMMA NoGapsStep ==
  ASSUME Serial, TypeOK, NoGaps, [Next]_vars
  PROVE  NoGaps'
<1> USE DEF NoGaps
<1>1. ASSUME NEW a \in Assets, DeleteAsset(a)
      PROVE  NoGaps'
  BY <1>1 DEF DeleteAsset
<1>2. ASSUME NEW c \in Callers, Insert(c)
      PROVE  NoGaps'
  BY <1>2 DEF Insert, Serial
<1>3. ASSUME NEW c \in Callers, Expand(c)
      PROVE  NoGaps'
  <2> DEFINE next(a) == Successors(relationships, Type(c), a)
  <2>1. PICK a \in frontier[c] \ {From(c)} :
          \E page \in Pages(next(a)) : Visit(c, a, next(a), page)
    BY <1>3 DEF Expand
  <2>2. PICK page \in Pages(next(a)) : Visit(c, a, next(a), page)
    BY <2>1
  <2>3. Cardinality(next(a)) <= PageLimit
    <3>1. /\ Cardinality(next(a)) \in Nat /\ Cardinality(Assets) \in Nat
          /\ Cardinality(next(a)) <= Cardinality(Assets)
      BY FS_Subset, FS_CardinalityType DEF Serial, Successors
    <3> QED
      BY <3>1, ConstantsAssumption DEF Serial
  <2>4. page = next(a)
    BY <2>2, <2>3 DEF Pages
  <2> QED
    BY <1>3, <2>2, <2>4 DEF Visit, Expand, TypeOK
<1> QED
  BY <1>1, <1>2, <1>3
     DEF Next, CreateAsset, Receive, Handle, GetFrom, NotFound, RefuseSelf,
         StartSearch, RefuseCycle, EndSearch, AbandonSearch, CheckRows,
         InsertFails, Refuse, vars, handlerVars, Serial, TypeOK

LEMMA NoGapsInvariant ==
  ASSUME Serial
  PROVE  Spec => []NoGaps
<1>1. Init => NoGaps
  BY DEF Init, NoGaps
<1>2. TypeOK /\ NoGaps /\ [Next]_vars => NoGaps'
  BY NoGapsStep
<1> QED
  BY <1>1, <1>2, TypeCorrect, PTL DEF Spec

(***************************************************************************)
(* When handlers do not overlap, no statement fails and the page limit is  *)
(* not reached, the table of relationships never holds a cycle.            *)
(***************************************************************************)
THEOREM SerialNoCycles ==
  ASSUME Serial
  PROVE  Spec => []NoCycles
<1>1. CyclesNeedAGap /\ NoGaps => NoCycles
  BY DEF CyclesNeedAGap, NoGaps, NoCycles
<1> QED
  BY <1>1, NoGapsInvariant, CheckedRowsAcyclic, PTL

(***************************************************************************)
(* Under the same assumptions the handlers implement the registry's        *)
(* promise: each of their steps is a step of AssetGraph or changes neither *)
(* table, and an INSERT is a Relate, the search having shown that the to   *)
(* asset does not reach the from asset.                                    *)
(***************************************************************************)
THEOREM SerialRefinement ==
  ASSUME Serial
  PROVE  Spec => ImplementsAssetGraph
<1>1. Init => Graph!Init
  BY DEF Init, Graph!Init
<1>2. IInv /\ NoGaps /\ [Next]_vars => [Graph!Next]_graphVars
  <2> SUFFICES ASSUME IInv, NoGaps, [Next]_vars
               PROVE  [Graph!Next]_graphVars
    OBVIOUS
  <2>1. ASSUME NEW a \in Assets, CreateAsset(a)
        PROVE  Graph!Next
    BY <2>1 DEF CreateAsset, Graph!Next, Graph!Register
  <2>2. ASSUME NEW a \in Assets, DeleteAsset(a)
        PROVE  Graph!Next
    <3>1. relationships' = {r \in relationships : a \notin {r[1], r[2]}}
      BY <2>2 DEF DeleteAsset, Touching
    <3> QED
      BY <2>2, <3>1 DEF DeleteAsset, Graph!Next, Graph!Retire
  <2>3. ASSUME NEW c \in Callers, Insert(c)
        PROVE  Graph!Next
    <3>1. req[c] = <<From(c), To(c), Type(c)>>
          /\ From(c) \in Assets /\ To(c) \in Assets /\ Type(c) \in Types
      BY <2>3 DEF Insert, IInv, TypeOK, Triples, From, To, Type
    <3>2. ~ Reaches(relationships, Type(c), To(c), From(c))
      BY <2>3, SearchConcludes DEF Reaches, IInv, NoGaps
    <3>3. ~ Graph!Reaches(relationships, Type(c), To(c), From(c))
      BY <3>2 DEF Reaches, Closed, Successors,
                  Graph!Reaches, Graph!Closed, Graph!Successors
    <3> QED
      BY <2>3, <3>1, <3>3
         DEF Insert, Insertable, From, To, Graph!Next, Graph!Relate
  <2>4. CASE UNCHANGED graphVars
    BY <2>4
  <2> QED
    BY <2>1, <2>2, <2>3, <2>4
       DEF Next, Receive, Handle, GetFrom, NotFound, RefuseSelf, StartSearch,
           Expand, RefuseCycle, EndSearch, AbandonSearch, CheckRows,
           InsertFails, Refuse, vars, graphVars
<1> QED
  BY <1>1, <1>2, Invariance, NoGapsInvariant, PTL
     DEF Spec, ImplementsAssetGraph, Graph!Spec, graphVars, Graph!graphVars
===============================================================================
