--------------------------- MODULE QualityFlagsProofs ---------------------------
(***************************************************************************)
(* Proofs about QualityFlags, for any sets of handlers, assets, flags and  *)
(* resolvers.                                                              *)
(***************************************************************************)
EXTENDS QualityFlags, TLAPS

USE FlagConstants
    DEF Severities, Row, Raises, Resolves, NoRequest, Stages, Replies, tables

-------------------------------------------------------------------------------
(* Type correctness.                                                       *)

(* Every step keeps the tables and the handlers well formed. *)
LEMMA FlagTypeStep == TypeOK /\ [Next]_vars => TypeOK'
<1> SUFFICES ASSUME TypeOK, [Next]_vars
             PROVE  TypeOK'
  OBVIOUS
<1> USE DEF TypeOK
<1>1. ASSUME NEW a \in Assets, CreateAsset(a)
      PROVE  TypeOK'
  BY <1>1 DEF CreateAsset
<1>2. ASSUME NEW a \in Assets, DeleteAsset(a)
      PROVE  TypeOK'
  BY <1>2 DEF DeleteAsset, FlagsOf
<1>3. ASSUME NEW h \in Handlers, NEW request \in Raises \cup Resolves,
             Receive(h, request)
      PROVE  TypeOK'
  BY <1>3 DEF Receive
<1>4. ASSUME NEW h \in Handlers, GetAsset(h)
      PROVE  TypeOK'
  BY <1>4 DEF GetAsset, Goto
<1>5. ASSUME NEW h \in Handlers, AssetNotFound(h)
      PROVE  TypeOK'
  BY <1>5 DEF AssetNotFound, Refuse, Answer
<1>6. ASSUME NEW h \in Handlers, CheckAsset(h)
      PROVE  TypeOK'
  BY <1>6 DEF CheckAsset, Goto
<1>7. ASSUME NEW h \in Handlers, Insert(h)
      PROVE  TypeOK'
  BY <1>7 DEF Insert, Insertable, Answer
<1>8. ASSUME NEW h \in Handlers, RaiseFails(h)
      PROVE  TypeOK'
  BY <1>8 DEF RaiseFails, Refuse, Answer
<1>9. ASSUME NEW h \in Handlers, GetFlag(h)
      PROVE  TypeOK'
  BY <1>9 DEF GetFlag, Goto
<1>10. ASSUME NEW h \in Handlers, FlagNotFound(h)
       PROVE  TypeOK'
  BY <1>10 DEF FlagNotFound, Refuse, Answer
<1>11. ASSUME NEW h \in Handlers, AlreadyResolved(h)
       PROVE  TypeOK'
  BY <1>11 DEF AlreadyResolved, Refuse, Answer
<1>12. ASSUME NEW h \in Handlers, Update(h)
       PROVE  TypeOK'
  <2> DEFINE f == req[h].flag
             row == [flags[f] EXCEPT !.resolved_by = req[h].by]
  <2>1. f \in Flags /\ req[h].by \in People /\ flags[f] \in Row
    BY <1>12 DEF Update, IsActive
  <2>2. row \in Row
    BY <2>1
  <2>3. flags' = [flags EXCEPT ![f] = row]
    BY <1>12 DEF Update
  <2>4. flags' \in [Flags -> Row \cup {NoRow}]
    BY <2>2, <2>3
  <2>5. \A g \in Flags : flags'[g] # NoRow => g \in used
    BY <1>12, <2>1, <2>3 DEF Update, IsActive
  <2> QED
    BY <1>12, <2>4, <2>5 DEF Update, Updated, Goto, Answer
<1>13. ASSUME NEW h \in Handlers, UpdateFails(h)
       PROVE  TypeOK'
  BY <1>13 DEF UpdateFails, Refuse, Answer
<1>14. ASSUME NEW h \in Handlers, Reread(h)
       PROVE  TypeOK'
  BY <1>14 DEF Reread, Answer
<1>15. ASSUME NEW h \in Handlers, RereadFails(h)
       PROVE  TypeOK'
  BY <1>15 DEF RereadFails, Refuse, Answer
<1>16. CASE UNCHANGED vars
  BY <1>16 DEF vars
<1> QED
  BY <1>1, <1>2, <1>3, <1>4, <1>5, <1>6, <1>7, <1>8, <1>9, <1>10, <1>11,
     <1>12, <1>13, <1>14, <1>15, <1>16 DEF Next, Raise, Resolve

(* The tables and the handlers stay well formed. *)
THEOREM FlagTypeCorrect == Spec => []TypeOK
<1>1. Init => TypeOK
  BY DEF Init, TypeOK
<1> QED
  BY <1>1, FlagTypeStep, PTL DEF Spec

-------------------------------------------------------------------------------
(* Flags and assets.                                                       *)

(* The foreign key guards the insert, and the cascade the deletion. *)
LEMMA FlagAssetStep == TypeOK /\ FlagsHaveAssets /\ [Next]_vars => FlagsHaveAssets'
<1> SUFFICES ASSUME TypeOK, FlagsHaveAssets, [Next]_vars
             PROVE  FlagsHaveAssets'
  OBVIOUS
<1> USE DEF TypeOK, FlagsHaveAssets
<1>1. ASSUME NEW a \in Assets, CreateAsset(a)
      PROVE  FlagsHaveAssets'
  BY <1>1 DEF CreateAsset
<1>2. ASSUME NEW a \in Assets, DeleteAsset(a)
      PROVE  FlagsHaveAssets'
  BY <1>2 DEF DeleteAsset, FlagsOf
<1>3. ASSUME NEW h \in Handlers, NEW request \in Raises \cup Resolves,
             Receive(h, request)
      PROVE  FlagsHaveAssets'
  BY <1>3 DEF Receive
<1>4. ASSUME NEW h \in Handlers, GetAsset(h)
      PROVE  FlagsHaveAssets'
  BY <1>4 DEF GetAsset, Goto
<1>5. ASSUME NEW h \in Handlers, AssetNotFound(h)
      PROVE  FlagsHaveAssets'
  BY <1>5 DEF AssetNotFound, Refuse, Answer
<1>6. ASSUME NEW h \in Handlers, CheckAsset(h)
      PROVE  FlagsHaveAssets'
  BY <1>6 DEF CheckAsset, Goto
<1>7. ASSUME NEW h \in Handlers, Insert(h)
      PROVE  FlagsHaveAssets'
  BY <1>7 DEF Insert, Insertable, Answer
<1>8. ASSUME NEW h \in Handlers, RaiseFails(h)
      PROVE  FlagsHaveAssets'
  BY <1>8 DEF RaiseFails, Refuse, Answer
<1>9. ASSUME NEW h \in Handlers, GetFlag(h)
      PROVE  FlagsHaveAssets'
  BY <1>9 DEF GetFlag, Goto
<1>10. ASSUME NEW h \in Handlers, FlagNotFound(h)
       PROVE  FlagsHaveAssets'
  BY <1>10 DEF FlagNotFound, Refuse, Answer
<1>11. ASSUME NEW h \in Handlers, AlreadyResolved(h)
       PROVE  FlagsHaveAssets'
  BY <1>11 DEF AlreadyResolved, Refuse, Answer
<1>12. ASSUME NEW h \in Handlers, Update(h)
       PROVE  FlagsHaveAssets'
  BY <1>12 DEF Update, Updated, Goto, Answer, IsActive
<1>13. ASSUME NEW h \in Handlers, UpdateFails(h)
       PROVE  FlagsHaveAssets'
  BY <1>13 DEF UpdateFails, Refuse, Answer
<1>14. ASSUME NEW h \in Handlers, Reread(h)
       PROVE  FlagsHaveAssets'
  BY <1>14 DEF Reread, Answer
<1>15. ASSUME NEW h \in Handlers, RereadFails(h)
       PROVE  FlagsHaveAssets'
  BY <1>15 DEF RereadFails, Refuse, Answer
<1>16. CASE UNCHANGED vars
  BY <1>16 DEF vars
<1> QED
  BY <1>1, <1>2, <1>3, <1>4, <1>5, <1>6, <1>7, <1>8, <1>9, <1>10, <1>11,
     <1>12, <1>13, <1>14, <1>15, <1>16 DEF Next, Raise, Resolve

(***************************************************************************)
(* No flag outlives its asset, however the deletion of the asset falls     *)
(* between the statements of the handler that raises the flag.             *)
(***************************************************************************)
THEOREM NoOrphanFlags == Spec => []FlagsHaveAssets
<1>1. Init => FlagsHaveAssets
  BY DEF Init, FlagsHaveAssets
<1> QED
  BY <1>1, FlagAssetStep, FlagTypeCorrect, PTL DEF Spec

-------------------------------------------------------------------------------
(* Resolution.                                                             *)

(* The UPDATE lets one request past, and leaves the row to it. *)
LEMMA ResolvedOnceStep == TypeOK /\ ResolvedOnce /\ [Next]_vars => ResolvedOnce'
<1> SUFFICES ASSUME TypeOK, ResolvedOnce, [Next]_vars
             PROVE  ResolvedOnce'
  OBVIOUS
<1> USE DEF TypeOK, ResolvedOnce
<1>1. ASSUME NEW a \in Assets, CreateAsset(a)
      PROVE  ResolvedOnce'
  BY <1>1 DEF CreateAsset
<1>2. ASSUME NEW a \in Assets, DeleteAsset(a)
      PROVE  ResolvedOnce'
  BY <1>2 DEF DeleteAsset, FlagsOf
<1>3. ASSUME NEW h \in Handlers, NEW request \in Raises \cup Resolves,
             Receive(h, request)
      PROVE  ResolvedOnce'
  BY <1>3 DEF Receive
<1>4. ASSUME NEW h \in Handlers, GetAsset(h)
      PROVE  ResolvedOnce'
  BY <1>4 DEF GetAsset, Goto
<1>5. ASSUME NEW h \in Handlers, AssetNotFound(h)
      PROVE  ResolvedOnce'
  BY <1>5 DEF AssetNotFound, Refuse, Answer
<1>6. ASSUME NEW h \in Handlers, CheckAsset(h)
      PROVE  ResolvedOnce'
  BY <1>6 DEF CheckAsset, Goto
<1>7. ASSUME NEW h \in Handlers, Insert(h)
      PROVE  ResolvedOnce'
  BY <1>7 DEF Insert, Insertable, Answer
<1>8. ASSUME NEW h \in Handlers, RaiseFails(h)
      PROVE  ResolvedOnce'
  BY <1>8 DEF RaiseFails, Refuse, Answer
<1>9. ASSUME NEW h \in Handlers, GetFlag(h)
      PROVE  ResolvedOnce'
  BY <1>9 DEF GetFlag, Goto
<1>10. ASSUME NEW h \in Handlers, FlagNotFound(h)
       PROVE  ResolvedOnce'
  BY <1>10 DEF FlagNotFound, Refuse, Answer
<1>11. ASSUME NEW h \in Handlers, AlreadyResolved(h)
       PROVE  ResolvedOnce'
  BY <1>11 DEF AlreadyResolved, Refuse, Answer
<1>12. ASSUME NEW h \in Handlers, Update(h)
       PROVE  ResolvedOnce'
  BY <1>12 DEF Update, Updated, Goto, Answer, IsActive
<1>13. ASSUME NEW h \in Handlers, UpdateFails(h)
       PROVE  ResolvedOnce'
  BY <1>13 DEF UpdateFails, Refuse, Answer
<1>14. ASSUME NEW h \in Handlers, Reread(h)
       PROVE  ResolvedOnce'
  BY <1>14 DEF Reread, Answer
<1>15. ASSUME NEW h \in Handlers, RereadFails(h)
       PROVE  ResolvedOnce'
  BY <1>15 DEF RereadFails, Refuse, Answer
<1>16. CASE UNCHANGED vars
  BY <1>16 DEF vars
<1> QED
  BY <1>1, <1>2, <1>3, <1>4, <1>5, <1>6, <1>7, <1>8, <1>9, <1>10, <1>11,
     <1>12, <1>13, <1>14, <1>15, <1>16 DEF Next, Raise, Resolve

(***************************************************************************)
(* Of the requests that race to resolve a flag at most one succeeds, and   *)
(* it answers with its own resolution.                                     *)
(***************************************************************************)
THEOREM OneResolution == Spec => []ResolvedOnce
<1>1. Init => ResolvedOnce
  BY DEF Init, ResolvedOnce
<1> QED
  BY <1>1, ResolvedOnceStep, FlagTypeCorrect, PTL DEF Spec

(***************************************************************************)
(* A resolution is never replaced nor taken back: it goes only with the    *)
(* asset.                                                                  *)
(***************************************************************************)
THEOREM ResolutionsAreFinal == Spec => ResolutionFinal
<1> DEFINE Final == \A f \in Flags : (flags[f] # NoRow /\ ~ IsActive(flags[f]))
                                      => flags'[f] \in {flags[f], NoRow}
<1>1. TypeOK /\ [Next]_vars => [Final]_vars
  <2> SUFFICES ASSUME TypeOK, [Next]_vars, NEW f \in Flags,
                      flags[f] # NoRow, ~ IsActive(flags[f])
               PROVE  flags'[f] \in {flags[f], NoRow}
    OBVIOUS
  <2>1. ASSUME NEW a \in Assets, DeleteAsset(a)
        PROVE  flags'[f] \in {flags[f], NoRow}
    BY <2>1 DEF DeleteAsset
  <2>2. ASSUME NEW h \in Handlers, Insert(h)
        PROVE  flags'[f] \in {flags[f], NoRow}
    <3>1. f \in used
      BY DEF TypeOK
    <3> QED
      BY <2>2, <3>1 DEF Insert, TypeOK
  <2>3. ASSUME NEW h \in Handlers, Update(h)
        PROVE  flags'[f] \in {flags[f], NoRow}
    <3>1. req[h].flag # f
      BY <2>3 DEF Update
    <3> QED
      BY <2>3, <3>1 DEF Update, TypeOK
  <2>4. CASE UNCHANGED flags
    BY <2>4
  <2> QED
    BY <2>1, <2>2, <2>3, <2>4
    DEF Next, Raise, Resolve, CreateAsset, Receive, GetAsset, AssetNotFound,
        CheckAsset, RaiseFails, GetFlag, FlagNotFound, AlreadyResolved,
        UpdateFails, Reread, RereadFails, Goto, Refuse, vars
<1> QED
  BY <1>1, FlagTypeCorrect, PTL DEF Spec, ResolutionFinal

(***************************************************************************)
(* An asset under a CRITICAL flag becomes tradeable again only with its    *)
(* deletion or by the UPDATE of a request that resolves a flag of it.      *)
(***************************************************************************)
THEOREM StopsLast == Spec => CriticalUntilResolved
<1> DEFINE Lifted(a) == \/ a \notin assets'
                        \/ \E h \in Handlers :
                             /\ pc[h] = "update" /\ pc'[h] # "update"
                             /\ req[h].flag \in FlagsOf(a)
           Kept == \A a \in Assets :
                     (~ IsAssetTradeable(a) /\ IsAssetTradeable(a)') => Lifted(a)
<1>1. TypeOK /\ [Next]_vars => [Kept]_vars
  <2> SUFFICES ASSUME TypeOK, [Next]_vars, NEW a \in Assets,
                      ~ IsAssetTradeable(a), IsAssetTradeable(a)'
               PROVE  Lifted(a)
    OBVIOUS
  <2>0. PICK f \in Flags : /\ flags[f] # NoRow /\ flags[f].asset = a
                            /\ IsActive(flags[f])
                            /\ flags[f].severity = "CRITICAL"
    BY DEF IsAssetTradeable, ListQualityFlags, FlagsOf
  <2>1. flags'[f] # flags[f]
    BY <2>0 DEF IsAssetTradeable, ListQualityFlags, FlagsOf
  <2>2. ASSUME NEW b \in Assets, DeleteAsset(b)
        PROVE  Lifted(a)
    <3>1. a = b
      BY <2>0, <2>1, <2>2 DEF DeleteAsset, FlagsOf
    <3> QED
      BY <2>2, <3>1 DEF DeleteAsset
  <2>3. ASSUME NEW h \in Handlers, Insert(h)
        PROVE  FALSE
    <3>1. f \in used
      BY <2>0 DEF TypeOK
    <3> QED
      BY <2>1, <2>3, <3>1 DEF Insert, TypeOK
  <2>4. ASSUME NEW h \in Handlers, Update(h)
        PROVE  Lifted(a)
    <3>1. req[h].flag = f
      BY <2>1, <2>4 DEF Update, TypeOK
    <3>2. pc'[h] # "update"
      BY <2>4 DEF Update, Updated, Goto, Answer, TypeOK
    <3> QED
      BY <2>0, <2>4, <3>1, <3>2 DEF Update, FlagsOf
  <2>5. CASE UNCHANGED flags
    BY <2>1, <2>5
  <2> QED
    BY <2>2, <2>3, <2>4, <2>5
    DEF Next, Raise, Resolve, CreateAsset, Receive, GetAsset, AssetNotFound,
        CheckAsset, RaiseFails, GetFlag, FlagNotFound, AlreadyResolved,
        UpdateFails, Reread, RereadFails, Goto, Refuse, vars, tables
<1> QED
  BY <1>1, FlagTypeCorrect, PTL DEF Spec, CriticalUntilResolved
===============================================================================
