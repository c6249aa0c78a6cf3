------------------------- MODULE CachedRepositoryProofs -------------------------
(***************************************************************************)
(* Proofs about CachedRepository, for any sets of handlers, assets and     *)
(* chains.                                                                 *)
(***************************************************************************)
EXTENDS CachedRepository, TLAPS

USE KeysAssumption DEF Keys, None, Stages, Operations, rowVars

-------------------------------------------------------------------------------
(* Type correctness.                                                       *)

LEMMA TypeStep == TypeOK /\ [Next]_vars => TypeOK'
<1> SUFFICES ASSUME TypeOK, [Next]_vars
             PROVE  TypeOK'
  OBVIOUS
<1> USE DEF TypeOK, Goto, Taint
<1>1. ASSUME NEW h \in Handlers, NEW o \in Operations, NEW k \in Keys,
             Request(h, o, k)
      PROVE  TypeOK'
  BY <1>1 DEF Request
<1>2. ASSUME NEW h \in Handlers, CacheHit(h)
      PROVE  TypeOK'
  BY <1>2 DEF CacheHit, AfterRead
<1>3. ASSUME NEW h \in Handlers, CacheMiss(h)
      PROVE  TypeOK'
  BY <1>3 DEF CacheMiss
<1>4. ASSUME NEW h \in Handlers, Load(h)
      PROVE  TypeOK'
  BY <1>4 DEF Load
<1>5. ASSUME NEW h \in Handlers, NotFound(h)
      PROVE  TypeOK'
  BY <1>5 DEF NotFound
<1>6. ASSUME NEW h \in Handlers, Fill(h)
      PROVE  TypeOK'
  BY <1>6 DEF Fill, AfterRead
<1>7. ASSUME NEW h \in Handlers, FillFails(h)
      PROVE  TypeOK'
  BY <1>7 DEF FillFails, AfterRead
<1>8. ASSUME NEW h \in Handlers, Insert(h)
      PROVE  TypeOK'
  BY <1>8 DEF Insert, Commit, Committed
<1>9. ASSUME NEW h \in Handlers, Update(h)
      PROVE  TypeOK'
  BY <1>9 DEF Update, Commit, Committed
<1>10. ASSUME NEW h \in Handlers, Delete(h)
       PROVE  TypeOK'
  BY <1>10 DEF Delete, Commit, Committed, Referring
<1>11. ASSUME NEW h \in Handlers, WriteFails(h)
       PROVE  TypeOK'
  BY <1>11 DEF WriteFails
<1>12. ASSUME NEW h \in Handlers, Invalidate(h)
       PROVE  TypeOK'
  BY <1>12 DEF Invalidate
<1>13. ASSUME NEW h \in Handlers, InvalidateFails(h)
       PROVE  TypeOK'
  BY <1>13 DEF InvalidateFails
<1>14. ASSUME NEW h \in Handlers, Die(h)
       PROVE  TypeOK'
  BY <1>14 DEF Die
<1>15. ASSUME NEW k \in Keys, Expire(k)
       PROVE  TypeOK'
  BY <1>15 DEF Expire
<1>16. CASE UNCHANGED vars
  BY <1>16 DEF vars
<1> QED
  BY <1>1, <1>2, <1>3, <1>4, <1>5, <1>6, <1>7, <1>8, <1>9, <1>10, <1>11,
     <1>12, <1>13, <1>14, <1>15, <1>16 DEF Next, Handle

(* The tables, the cache and the handlers stay well formed. *)
THEOREM CacheTypeCorrect == Spec => []TypeOK
<1>1. Init => TypeOK
  BY DEF Init, TypeOK
<1> QED
  BY <1>1, TypeStep, PTL DEF Spec

-------------------------------------------------------------------------------
(* The inductive invariant.                                                *)

(***************************************************************************)
(* A statement that commits new versions of the keys in K leaves the rows  *)
(* of those readers alone that it does not mark as overtaken.              *)
(***************************************************************************)
LEMMA CommitKeepsReads ==
  ASSUME TypeOK, ReadInv, NEW h \in Handlers, NEW K, pc[h] = "write", Commit(K),
         \E stage \in {"idle", "invalidate"} : Goto(h, stage),
         \A k \in Keys \ K : rows'[k] = rows[k],
         UNCHANGED <<key, read>>
  PROVE  ReadInv'
<1> SUFFICES ASSUME NEW g \in Handlers
             PROVE  /\ pc'[g] \in {"lookup", "load"} => read'[g] = None
                    /\ (pc'[g] = "fill" /\ ~ overtaken'[g])
                          => read'[g] = rows'[key'[g]]
  BY DEF ReadInv
<1>1. pc'[h] \in {"idle", "invalidate"}
  BY DEF Goto, TypeOK
<1>2. g # h => pc'[g] = pc[g]
  BY DEF Goto, TypeOK
<1>3. overtaken'[g] = (overtaken[g] \/ (pc[g] = "fill" /\ key[g] \in K))
  BY DEF Commit
<1>4. CASE g = h
  BY <1>1, <1>4
<1>5. CASE g # h
  <2>1. pc'[g] \in {"lookup", "load"} => read'[g] = None
    BY <1>2, <1>5 DEF ReadInv
  <2>2. ASSUME pc'[g] = "fill", ~ overtaken'[g]
        PROVE  read'[g] = rows'[key'[g]]
    <3>1. pc[g] = "fill" /\ key[g] \in Keys \ K /\ ~ overtaken[g]
      BY <1>2, <1>3, <1>5, <2>2 DEF TypeOK
    <3> QED
      BY <3>1 DEF ReadInv
  <2> QED
    BY <2>1, <2>2
<1> QED
  BY <1>4, <1>5

(* A write marks every reader that holds a row it changes as overtaken. *)
LEMMA ReadStep == TypeOK /\ ReadInv /\ [Next]_vars => ReadInv'
<1> SUFFICES ASSUME TypeOK, ReadInv, [Next]_vars
             PROVE  ReadInv'
  OBVIOUS
<1> USE DEF TypeOK, ReadInv, Goto
<1>1. ASSUME NEW h \in Handlers, NEW o \in Operations, NEW k \in Keys,
             Request(h, o, k)
      PROVE  ReadInv'
  BY <1>1 DEF Request
<1>2. ASSUME NEW h \in Handlers, CacheHit(h)
      PROVE  ReadInv'
  BY <1>2 DEF CacheHit, AfterRead
<1>3. ASSUME NEW h \in Handlers, CacheMiss(h)
      PROVE  ReadInv'
  BY <1>3 DEF CacheMiss
<1>4. ASSUME NEW h \in Handlers, Load(h)
      PROVE  ReadInv'
  BY <1>4 DEF Load
<1>5. ASSUME NEW h \in Handlers, NotFound(h)
      PROVE  ReadInv'
  BY <1>5 DEF NotFound
<1>6. ASSUME NEW h \in Handlers, Fill(h)
      PROVE  ReadInv'
  BY <1>6 DEF Fill, AfterRead
<1>7. ASSUME NEW h \in Handlers, FillFails(h)
      PROVE  ReadInv'
  BY <1>7 DEF FillFails, AfterRead
<1>8. ASSUME NEW h \in Handlers, Insert(h)
      PROVE  ReadInv'
  <2>1. \A k \in Keys \ {key[h]} : rows'[k] = rows[k]
    BY <1>8 DEF Insert
  <2> QED
    BY <1>8, <2>1, CommitKeepsReads DEF Insert, Committed
<1>9. ASSUME NEW h \in Handlers, Update(h)
      PROVE  ReadInv'
  <2>1. \A k \in Keys \ {key[h]} : rows'[k] = rows[k]
    BY <1>9 DEF Update
  <2> QED
    BY <1>9, <2>1, CommitKeepsReads DEF Update, Committed
<1>10. ASSUME NEW h \in Handlers, Delete(h)
       PROVE  ReadInv'
  <2>1. \A k \in Keys \ ({key[h]} \cup Referring(key[h])) : rows'[k] = rows[k]
    BY <1>10 DEF Delete
  <2> QED
    BY <1>10, <2>1, CommitKeepsReads DEF Delete, Committed
<1>11. ASSUME NEW h \in Handlers, WriteFails(h)
       PROVE  ReadInv'
  BY <1>11 DEF WriteFails
<1>12. ASSUME NEW h \in Handlers, Invalidate(h)
       PROVE  ReadInv'
  BY <1>12 DEF Invalidate
<1>13. ASSUME NEW h \in Handlers, InvalidateFails(h)
       PROVE  ReadInv'
  BY <1>13 DEF InvalidateFails
<1>14. ASSUME NEW h \in Handlers, Die(h)
       PROVE  ReadInv'
  BY <1>14 DEF Die
<1>15. ASSUME NEW k \in Keys, Expire(k)
       PROVE  ReadInv'
  BY <1>15 DEF Expire
<1>16. CASE UNCHANGED vars
  BY <1>16 DEF vars
<1> QED
  BY <1>1, <1>2, <1>3, <1>4, <1>5, <1>6, <1>7, <1>8, <1>9, <1>10, <1>11,
     <1>12, <1>13, <1>14, <1>15, <1>16 DEF Next, Handle

(* Only a request begins a creation, and only of an id nobody works on. *)
LEMMA CreateStep == TypeOK /\ CreateInv /\ [Next]_vars => CreateInv'
<1> SUFFICES ASSUME TypeOK, CreateInv, [Next]_vars
             PROVE  CreateInv'
  OBVIOUS
<1> USE DEF TypeOK, CreateInv, Creating, Goto
<1>1. ASSUME NEW h \in Handlers, NEW o \in Operations, NEW k \in Keys,
             Request(h, o, k)
      PROVE  CreateInv'
  BY <1>1 DEF Request, Creatable
<1>2. ASSUME NEW h \in Handlers, CacheHit(h)
      PROVE  CreateInv'
  BY <1>2 DEF CacheHit, AfterRead
<1>3. ASSUME NEW h \in Handlers, CacheMiss(h)
      PROVE  CreateInv'
  BY <1>3 DEF CacheMiss
<1>4. ASSUME NEW h \in Handlers, Load(h)
      PROVE  CreateInv'
  BY <1>4 DEF Load
<1>5. ASSUME NEW h \in Handlers, NotFound(h)
      PROVE  CreateInv'
  BY <1>5 DEF NotFound
<1>6. ASSUME NEW h \in Handlers, Fill(h)
      PROVE  CreateInv'
  BY <1>6 DEF Fill, AfterRead
<1>7. ASSUME NEW h \in Handlers, FillFails(h)
      PROVE  CreateInv'
  BY <1>7 DEF FillFails, AfterRead
<1>8. ASSUME NEW h \in Handlers, Insert(h)
      PROVE  CreateInv'
  BY <1>8 DEF Insert, Commit, Committed
<1>9. ASSUME NEW h \in Handlers, Update(h)
      PROVE  CreateInv'
  BY <1>9 DEF Update, Commit, Committed
<1>10. ASSUME NEW h \in Handlers, Delete(h)
       PROVE  CreateInv'
  BY <1>10 DEF Delete, Commit, Committed, Referring
<1>11. ASSUME NEW h \in Handlers, WriteFails(h)
       PROVE  CreateInv'
  BY <1>11 DEF WriteFails
<1>12. ASSUME NEW h \in Handlers, Invalidate(h)
       PROVE  CreateInv'
  BY <1>12 DEF Invalidate
<1>13. ASSUME NEW h \in Handlers, InvalidateFails(h)
       PROVE  CreateInv'
  BY <1>13 DEF InvalidateFails
<1>14. ASSUME NEW h \in Handlers, Die(h)
       PROVE  CreateInv'
  BY <1>14 DEF Die
<1>15. ASSUME NEW k \in Keys, Expire(k)
       PROVE  CreateInv'
  BY <1>15 DEF Expire
<1>16. CASE UNCHANGED vars
  BY <1>16 DEF vars
<1> QED
  BY <1>1, <1>2, <1>3, <1>4, <1>5, <1>6, <1>7, <1>8, <1>9, <1>10, <1>11,
     <1>12, <1>13, <1>14, <1>15, <1>16 DEF Next, Handle

(* A copy becomes stale, and stays so, only for a reason. *)
LEMMA StaleStep ==
  TypeOK /\ ReadInv /\ StaleCopiesExplained /\ [Next]_vars
    => StaleCopiesExplained'
<1> SUFFICES ASSUME TypeOK, ReadInv, StaleCopiesExplained, [Next]_vars
             PROVE  StaleCopiesExplained'
  OBVIOUS
<1> USE DEF TypeOK, StaleCopiesExplained, Coherent, Goto, Taint
<1>1. ASSUME NEW h \in Handlers, NEW o \in Operations, NEW k \in Keys,
             Request(h, o, k)
      PROVE  StaleCopiesExplained'
  BY <1>1 DEF Request
<1>2. ASSUME NEW h \in Handlers, CacheHit(h)
      PROVE  StaleCopiesExplained'
  BY <1>2 DEF CacheHit, AfterRead
<1>3. ASSUME NEW h \in Handlers, CacheMiss(h)
      PROVE  StaleCopiesExplained'
  BY <1>3 DEF CacheMiss
<1>4. ASSUME NEW h \in Handlers, Load(h)
      PROVE  StaleCopiesExplained'
  BY <1>4 DEF Load
<1>5. ASSUME NEW h \in Handlers, NotFound(h)
      PROVE  StaleCopiesExplained'
  BY <1>5 DEF NotFound
<1>6. ASSUME NEW h \in Handlers, Fill(h)
      PROVE  StaleCopiesExplained'
  BY <1>6 DEF Fill, AfterRead, ReadInv
<1>7. ASSUME NEW h \in Handlers, FillFails(h)
      PROVE  StaleCopiesExplained'
  BY <1>7 DEF FillFails, AfterRead
<1>8. ASSUME NEW h \in Handlers, Insert(h)
      PROVE  StaleCopiesExplained'
  BY <1>8 DEF Insert, Commit, Committed
<1>9. ASSUME NEW h \in Handlers, Update(h)
      PROVE  StaleCopiesExplained'
  BY <1>9 DEF Update, Commit, Committed
<1>10. ASSUME NEW h \in Handlers, Delete(h)
       PROVE  StaleCopiesExplained'
  BY <1>10 DEF Delete, Commit, Committed, Referring
<1>11. ASSUME NEW h \in Handlers, WriteFails(h)
       PROVE  StaleCopiesExplained'
  BY <1>11 DEF WriteFails
<1>12. ASSUME NEW h \in Handlers, Invalidate(h)
       PROVE  StaleCopiesExplained'
  BY <1>12 DEF Invalidate
<1>13. ASSUME NEW h \in Handlers, InvalidateFails(h)
       PROVE  StaleCopiesExplained'
  BY <1>13 DEF InvalidateFails
<1>14. ASSUME NEW h \in Handlers, Die(h)
       PROVE  StaleCopiesExplained'
  BY <1>14 DEF Die
<1>15. ASSUME NEW k \in Keys, Expire(k)
       PROVE  StaleCopiesExplained'
  BY <1>15 DEF Expire
<1>16. CASE UNCHANGED vars
  BY <1>16 DEF vars
<1> QED
  BY <1>1, <1>2, <1>3, <1>4, <1>5, <1>6, <1>7, <1>8, <1>9, <1>10, <1>11,
     <1>12, <1>13, <1>14, <1>15, <1>16 DEF Next, Handle

(* The inductive invariant holds. *)
LEMMA CacheInvariance == Spec => []IInv
<1>1. Init => IInv
  BY DEF Init, IInv, TypeOK, ReadInv, CreateInv, Creating,
         StaleCopiesExplained, Coherent
<1>2. IInv /\ [Next]_vars => IInv'
  BY TypeStep, ReadStep, CreateStep, StaleStep DEF IInv
<1> QED
  BY <1>1, <1>2, PTL DEF Spec

-------------------------------------------------------------------------------

(***************************************************************************)
(* Whatever fails and whoever overlaps, a stale copy has one of the named  *)
(* causes: nothing else in the repository makes one.                       *)
(***************************************************************************)
THEOREM StalenessHasACause == Spec => []StaleCopiesExplained
<1>1. IInv => StaleCopiesExplained
  BY DEF IInv
<1> QED
  BY <1>1, CacheInvariance, PTL

(* A deleted asset stays deleted in a step. *)
LEMMA FinalStep ==
  ASSUME IInv, [Next]_vars,
         NEW a \in Assets, writes[a] > 0, rows[a] = None
  PROVE  rows'[a] = None /\ writes'[a] > 0
<1>0. TypeOK /\ CreateInv /\ a \in Keys
  BY DEF IInv
<1>1. ASSUME NEW K, Commit(K)
      PROVE  writes'[a] > 0
  BY <1>0, <1>1 DEF Commit, TypeOK
<1>2. ASSUME NEW h \in Handlers, Insert(h)
      PROVE  rows'[a] = None /\ writes'[a] > 0
  <2>1. key[h] # a
    BY <1>0, <1>2 DEF Insert, CreateInv, Creating
  <2> QED
    BY <1>0, <1>1, <1>2, <2>1 DEF Insert, TypeOK
<1>3. ASSUME NEW h \in Handlers, Update(h)
      PROVE  rows'[a] = None /\ writes'[a] > 0
  BY <1>0, <1>1, <1>3 DEF Update, TypeOK
<1>4. ASSUME NEW h \in Handlers, Delete(h)
      PROVE  rows'[a] = None /\ writes'[a] > 0
  <2>1. a \notin Referring(key[h])
    BY <1>0 DEF Referring, TypeOK
  <2> QED
    BY <1>0, <1>1, <1>4, <2>1 DEF Delete
<1>5. CASE UNCHANGED <<rows, writes>>
  BY <1>5
<1> QED
  BY <1>2, <1>3, <1>4, <1>5
  DEF Next, Handle, Request, CacheHit, CacheMiss, Load, NotFound, Fill,
      FillFails, WriteFails, Invalidate, InvalidateFails, Die, Expire, vars

(***************************************************************************)
(* No update brings a deleted asset back, although a stale copy lets the   *)
(* update begin: UPDATE affects no row then.                               *)
(***************************************************************************)
THEOREM DeletionIsFinal == Spec => DeletedStaysDeleted
<1> DEFINE Final == \A a \in Assets :
             (writes[a] > 0 /\ rows[a] = None) => rows'[a] = None
<1>1. IInv /\ [Next]_vars => [Final]_vars
  BY FinalStep
<1> QED
  BY <1>1, CacheInvariance, PTL DEF Spec, DeletedStaysDeleted

-------------------------------------------------------------------------------
(* One handler and no faults.                                              *)

Alone ==
  /\ \A g, h \in Handlers : g = h
  /\ ~ Faults

(* Then no reader is overtaken, and the copies that nobody deletes are     *)
(* those of chains whose native asset was deleted.                         *)
OnlyOrphans ==
  /\ \A k \in tainted : Orphaned(k)
  /\ \A h \in Handlers : ~ overtaken[h]

LEMMA OrphansStay ==
  ASSUME IInv, [Next]_vars, NEW k \in Keys, Orphaned(k)
  PROVE  Orphaned(k)'
<1>1. NativeAsset[k] \in Assets
  BY DEF Orphaned
<1> QED
  BY <1>1, FinalStep DEF Orphaned

LEMMA OnlyOrphansStep ==
  ASSUME Alone
  PROVE  IInv /\ OnlyOrphans /\ [Next]_vars => OnlyOrphans'
<1> SUFFICES ASSUME IInv, OnlyOrphans, [Next]_vars
             PROVE  OnlyOrphans'
  OBVIOUS
<1> USE DEF Alone, OnlyOrphans
<1>0. TypeOK
  BY DEF IInv
<1>1. \A k \in tainted : Orphaned(k)'
  BY <1>0, OrphansStay DEF TypeOK
<1>2. ASSUME NEW h \in Handlers, NEW K, pc[h] = "write", Commit(K)
      PROVE  \A g \in Handlers : ~ overtaken'[g]
  BY <1>2 DEF Commit
<1>3. ASSUME NEW h \in Handlers, Insert(h) \/ Update(h)
      PROVE  OnlyOrphans'
  BY <1>1, <1>2, <1>3 DEF Insert, Update, Committed, Taint
<1>4. ASSUME NEW h \in Handlers, Delete(h)
      PROVE  OnlyOrphans'
  <2>1. /\ key[h] \in Assets /\ rows'[key[h]] = None
        /\ writes'[key[h]] = writes[key[h]] + 1 /\ writes[key[h]] \in Nat
    BY <1>0, <1>4 DEF Delete, Commit, TypeOK
  <2>2. \A c \in Referring(key[h]) : Orphaned(c)'
    BY <1>0, <2>1 DEF Referring, Orphaned, TypeOK
  <2>3. tainted' = Taint(Referring(key[h])) /\ pc[h] = "write"
    BY <1>4 DEF Delete, Committed
  <2>4. \A g \in Handlers : ~ overtaken'[g]
    BY <1>2, <1>4 DEF Delete
  <2> QED
    BY <1>1, <2>2, <2>3, <2>4 DEF Taint
<1>5. CASE tainted' \subseteq tainted /\ UNCHANGED overtaken
  BY <1>1, <1>5
<1>6. ASSUME NEW h \in Handlers, NEW o \in Operations, NEW k \in Keys,
             Request(h, o, k)
      PROVE  OnlyOrphans'
  BY <1>0, <1>1, <1>6 DEF Request, TypeOK
<1>7. ASSUME NEW h \in Handlers, Fill(h)
      PROVE  OnlyOrphans'
  BY <1>5, <1>7 DEF Fill
<1> QED
  BY <1>3, <1>4, <1>5, <1>6, <1>7
  DEF Next, Handle, CacheHit, CacheMiss, Load, NotFound, FillFails, WriteFails,
      Invalidate, InvalidateFails, Die, Expire, vars

(***************************************************************************)
(* Without overlap and faults, and whatever chains refer to the assets,    *)
(* every read of an asset returns its current row, and a read of a chain   *)
(* does unless the asset it was native to has been deleted: of the causes  *)
(* of stale copies only the cascade is left, which the delete handler does *)
(* not follow.                                                             *)
(***************************************************************************)
THEOREM AloneReadsCurrent == Alone /\ Spec => ReadsCurrent
<1> SUFFICES ASSUME Alone
             PROVE  Spec => ReadsCurrent
  OBVIOUS
<1> DEFINE Current == \A h \in Handlers :
             ( op[h] = "get" /\ pc[h] \in {"lookup", "load", "fill"}
               /\ pc'[h] = "idle" )
               => read'[h] = rows[key[h]] \/ Orphaned(key[h])
<1>1. Init => OnlyOrphans
  BY DEF Init, OnlyOrphans
<1>2. IInv /\ OnlyOrphans /\ [Next]_vars => [Current]_vars
  <2> SUFFICES ASSUME IInv, OnlyOrphans, [Next]_vars, NEW h \in Handlers,
                      op[h] = "get", pc[h] \in {"lookup", "load", "fill"},
                      pc'[h] = "idle", ~ Orphaned(key[h])
               PROVE  read'[h] = rows[key[h]]
    OBVIOUS
  <2>1. TypeOK /\ ReadInv /\ StaleCopiesExplained
    BY DEF IInv
  <2>2. pc'[h] # pc[h]
    OBVIOUS
  <2>3. ASSUME NEW g \in Handlers
        PROVE  g = h
    BY DEF Alone
  <2>4. CASE CacheHit(h)
    <3>1. Coherent(key[h])
      BY <2>1, <2>3 DEF StaleCopiesExplained, OnlyOrphans, TypeOK
    <3> QED
      BY <2>1, <2>4, <3>1 DEF CacheHit, Coherent, TypeOK
  <2>5. CASE NotFound(h)
    BY <2>1, <2>5 DEF NotFound, ReadInv, Alone
  <2>6. CASE Fill(h)
    BY <2>1, <2>6 DEF Fill, ReadInv, OnlyOrphans
  <2>7. CASE CacheMiss(h) \/ Load(h)
    BY <2>1, <2>7 DEF CacheMiss, Load, Goto, TypeOK
  <2>8. CASE Insert(h) \/ Update(h) \/ Delete(h) \/ WriteFails(h)
             \/ Invalidate(h)
    BY <2>8 DEF Insert, Update, Delete, WriteFails, Invalidate
  <2>9. CASE \E o \in Operations, k \in Keys : Request(h, o, k)
    BY <2>9 DEF Request
  <2>10. CASE (\E k \in Keys : Expire(k)) \/ UNCHANGED vars
    BY <2>2, <2>10 DEF Expire, vars
  <2> QED
    BY <2>3, <2>4, <2>5, <2>6, <2>7, <2>8, <2>9, <2>10
    DEF Next, Handle, FillFails, InvalidateFails, Die, Alone
<1>3. IInv /\ OnlyOrphans /\ [Next]_vars => OnlyOrphans'
  BY OnlyOrphansStep
<1> QED
  BY <1>1, <1>2, <1>3, CacheInvariance, PTL DEF Spec, ReadsCurrent
===============================================================================
