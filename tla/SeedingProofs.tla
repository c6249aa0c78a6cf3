---------------------------- MODULE SeedingProofs ----------------------------
(***************************************************************************)
(* Proofs that IInv of Seeding is an invariant, and with it the properties *)
(* of the module, for any finite number of runs and symbols, every size of *)
(* a page and every answer of a search.                                    *)
(***************************************************************************)
EXTENDS Seeding, FiniteSetTheorems, TLAPS

-------------------------------------------------------------------------------

(* The calls the runs may make are as many as the pairs of run and symbol, *)
(* and a larger set of used ones has the larger cardinality.               *)
LEMMA CallsAreFinite ==
  /\ IsFiniteSet(Runs \X Symbols)
  /\ MaxCalls \in Nat
  /\ Cardinality(Runs \X Symbols) = MaxCalls
<1>1. /\ IsFiniteSet(Runs \X Symbols)
      /\ Cardinality(Runs \X Symbols) = MaxCalls
  BY FS_Product, ConstantsAssumption DEF ConstantsAssumption, MaxCalls
<1> QED
  BY <1>1, FS_CardinalityType

LEMMA UsedIsBounded ==
  /\ IsFiniteSet(Used)
  /\ Cardinality(Used) \in 0..(MaxCalls)
<1>1. Used \subseteq Runs \X Symbols
  BY DEF Used
<1>2. /\ IsFiniteSet(Used)
      /\ Cardinality(Used) <= Cardinality(Runs \X Symbols)
  BY <1>1, CallsAreFinite, FS_Subset
<1>3. Cardinality(Used) \in Nat /\ Cardinality(Runs \X Symbols) \in Nat
  BY <1>2, CallsAreFinite, FS_CardinalityType
<1> QED
  BY <1>2, <1>3, CallsAreFinite

LEMMA UsedIsBoundedNext ==
  /\ IsFiniteSet(Used')
  /\ Cardinality(Used') \in 0..(MaxCalls)
<1>1. Used' \subseteq Runs \X Symbols
  BY DEF Used
<1>2. /\ IsFiniteSet(Used')
      /\ Cardinality(Used') <= Cardinality(Runs \X Symbols)
  BY <1>1, CallsAreFinite, FS_Subset
<1>3. Cardinality(Used') \in Nat /\ Cardinality(Runs \X Symbols) \in Nat
  BY <1>2, CallsAreFinite, FS_CardinalityType
<1> QED
  BY <1>2, <1>3, CallsAreFinite

-------------------------------------------------------------------------------

(* What a run has passed it has passed for good, rows are only added, and  *)
(* the history of a run that has started does not change.                  *)
OnlyMore ==
  /\ clock' \in Nat /\ clock <= clock'
  /\ assets \subseteq assets' /\ chains \subseteq chains'
  /\ troubled \subseteq troubled' /\ troubled' \subseteq Runs
  /\ before' \in [Runs -> SUBSET assets']
  /\ \A q \in Runs :
       phase[q] # "new" => phase'[q] # "new" /\ before'[q] = before[q]
  /\ \A q \in Runs, s \in Symbols : IsTaken(q, s) => IsTaken(q, s)'

LEMMA StepAdds ==
  ASSUME TypeOK, NEW r \in Runs, Start(r) \/ Go(r) \/ Die(r)
  PROVE  OnlyMore
<1> USE DEF OnlyMore, TypeOK, TablesTyped, RunsTyped, IsTaken, tables
<1>1. CASE Start(r)
  BY <1>1 DEF Start
<1>2. CASE Die(r)
  BY <1>2 DEF Die, Stop
<1>3. CASE \E ch \in Chains : SeedChain(r, ch)
  BY <1>3 DEF SeedChain
<1>4. CASE \E s \in Symbols : TakeAsset(r, s)
  BY <1>4 DEF TakeAsset, CreateAsset
<1>5. CASE \E s \in Symbols : SearchAsset(r, s)
  BY <1>5 DEF SearchAsset, CreateAsset
<1>6. CASE \E s \in Symbols : SearchHome(r, s)
  BY <1>6 DEF SearchHome
<1>7. CASE \E w \in Wanted : SeedDeployment(r, w)
  BY <1>7 DEF SeedDeployment
<1>8. CASE EndChains(r)
  BY <1>8 DEF EndChains
<1>9. CASE InsertAsset(r)
  BY <1>9 DEF InsertAsset
<1>10. CASE EndAssets(r)
  BY <1>10 DEF EndAssets
<1>11. CASE ListHomes(r)
  BY <1>11 DEF ListHomes, Deploy
<1>12. CASE ListFails(r)
  BY <1>12 DEF ListFails, Stop
<1>13. CASE EndSearch(r)
  BY <1>13 DEF EndSearch, Deploy
<1>14. CASE EndDeployments(r)
  BY <1>14 DEF EndDeployments, Stop
<1>15. CASE \E w \in Wanted : ListDeployments(r, w)
  BY <1>15 DEF ListDeployments
<1> QED
  BY <1>1, <1>2, <1>3, <1>4, <1>5, <1>6, <1>7, <1>8, <1>9, <1>10, <1>11, <1>12,
     <1>13, <1>14, <1>15 DEF Go

-------------------------------------------------------------------------------

(* The types of rows and items grow with the clock. *)
LEMMA TypesGrow ==
  ASSUME TypeOK, clock' \in Nat, clock <= clock'
  PROVE  /\ AssetType \subseteq AssetType'
         /\ ItemType \subseteq ItemType'
<1>1. 1..clock \subseteq 1..clock'
  BY DEF TypeOK, TablesTyped
<1> QED
  BY <1>1 DEF AssetType, ItemType

LEMMA InitIsTyped == Init => TypeOK
<1> SUFFICES ASSUME Init PROVE TypeOK
  OBVIOUS
<1>1. MaxCalls \in Nat
  BY CallsAreFinite
<1>2. TablesTyped
  BY <1>1 DEF Init, TablesTyped
<1>3. RunsTyped
  BY DEF Init, RunsTyped, Phases
<1> QED
  BY <1>2, <1>3 DEF TypeOK

LEMMA RunsStayTyped ==
  ASSUME TypeOK, NEW r \in Runs, Start(r) \/ Go(r) \/ Die(r)
  PROVE  RunsTyped'
<1> USE DEF TypeOK, TablesTyped, RunsTyped, Phases, tables
<1>0. ItemType \subseteq ItemType'
  BY StepAdds, TypesGrow DEF OnlyMore
<1>1. CASE Start(r)
  BY <1>1, <1>0 DEF Start
<1>2. CASE Die(r)
  BY <1>2, <1>0 DEF Die, Stop
<1>3. CASE \E ch \in Chains : SeedChain(r, ch)
  BY <1>3, <1>0 DEF SeedChain
<1>4. CASE \E s \in Symbols : TakeAsset(r, s)
  BY <1>4, <1>0 DEF TakeAsset, CreateAsset, ItemType
<1>5. CASE \E s \in Symbols : SearchAsset(r, s)
  BY <1>5, <1>0 DEF SearchAsset, CreateAsset, ItemType
<1>6. CASE \E s \in Symbols : SearchHome(r, s)
  BY <1>6, <1>0 DEF SearchHome
<1>7. CASE \E w \in Wanted : SeedDeployment(r, w)
  BY <1>7, <1>0 DEF SeedDeployment
<1>8. CASE EndChains(r)
  BY <1>8, <1>0 DEF EndChains
<1>9. CASE InsertAsset(r)
  BY <1>9, <1>0 DEF InsertAsset, ItemType
<1>10. CASE EndAssets(r)
  BY <1>10, <1>0 DEF EndAssets
<1>11. CASE ListHomes(r)
  BY <1>11, <1>0 DEF ListHomes, Deploy
<1>12. CASE ListFails(r)
  BY <1>12, <1>0 DEF ListFails, Stop
<1>13. CASE EndSearch(r)
  BY <1>13, <1>0 DEF EndSearch, Deploy
<1>14. CASE EndDeployments(r)
  BY <1>14, <1>0 DEF EndDeployments, Stop
<1>15. CASE \E w \in Wanted : ListDeployments(r, w)
  BY <1>15, <1>0 DEF ListDeployments
<1> QED
  BY <1>1, <1>2, <1>3, <1>4, <1>5, <1>6, <1>7, <1>8, <1>9, <1>10, <1>11, <1>12,
     <1>13, <1>14, <1>15 DEF Go

LEMMA TablesStayTyped ==
  ASSUME TypeOK, ClockCountsCalls', NEW r \in Runs, Start(r) \/ Go(r) \/ Die(r)
  PROVE  TablesTyped'
<1> USE DEF TypeOK, TablesTyped, RunsTyped, tables
<1>0. OnlyMore /\ AssetType \subseteq AssetType'
  BY StepAdds, TypesGrow DEF OnlyMore
<1>a. clock' \in Nat => clock' \in 0..MaxCalls
  BY UsedIsBoundedNext, CallsAreFinite DEF ClockCountsCalls
<1>1. CASE Start(r)
  BY <1>1, <1>0 DEF Start
<1>2. CASE Die(r)
  BY <1>2, <1>0 DEF Die, Stop
<1>3. CASE \E ch \in Chains : SeedChain(r, ch)
  BY <1>3, <1>0 DEF SeedChain
<1>4. CASE \E s \in Symbols : TakeAsset(r, s)
  BY <1>4, <1>0, <1>a DEF TakeAsset, CreateAsset, AssetType
<1>5. CASE \E s \in Symbols : SearchAsset(r, s)
  BY <1>5, <1>0, <1>a DEF SearchAsset, CreateAsset, AssetType
<1>6. CASE \E s \in Symbols : SearchHome(r, s)
  <2>1. PICK s \in Symbols : SearchHome(r, s)
    BY <1>6
  <2>2. First(SearchAssets(s)) \subseteq assets
    BY DEF First, SearchAssets, Found, Page
  <2> QED
    BY <2>1, <2>2, <1>0 DEF SearchHome
<1>7. CASE \E w \in Wanted : SeedDeployment(r, w)
  <2>1. PICK w \in Wanted : SeedDeployment(r, w)
    BY <1>7
  <2>2. \A x \in assets : <<w[1], x>> \in home[r] => w[1] \in Symbols
    OBVIOUS
  <2>3. /\ UNCHANGED <<chains, assets, clock, home, before, troubled>>
        /\ \/ deployments' = deployments
           \/ \E x \in assets :
                /\ w[1] \in Symbols /\ w[2] \in chains
                /\ deployments' = deployments \cup {Deployment(x, w[2], w[1], r)}
    BY <2>1, <2>2 DEF SeedDeployment, Deployable
  <2> QED
    BY <2>3, <1>0 DEF Deployment
<1>8. CASE EndChains(r)
  BY <1>8, <1>0 DEF EndChains
<1>9. CASE InsertAsset(r)
  BY <1>9, <1>0 DEF InsertAsset, NewAsset, AssetType, ItemType
<1>10. CASE EndAssets(r)
  BY <1>10, <1>0 DEF EndAssets
<1>11. CASE ListHomes(r)
  BY <1>11, <1>0 DEF ListHomes, Deploy, Oldest, ListAssets, Page, AssetType
<1>12. CASE ListFails(r)
  BY <1>12, <1>0 DEF ListFails, Stop
<1>13. CASE EndSearch(r)
  BY <1>13, <1>0 DEF EndSearch, Deploy
<1>14. CASE EndDeployments(r)
  BY <1>14, <1>0 DEF EndDeployments, Stop
<1>15. CASE \E w \in Wanted : ListDeployments(r, w)
  BY <1>15, <1>0 DEF ListDeployments
<1> QED
  BY <1>1, <1>2, <1>3, <1>4, <1>5, <1>6, <1>7, <1>8, <1>9, <1>10, <1>11, <1>12,
     <1>13, <1>14, <1>15 DEF Go

-------------------------------------------------------------------------------

(* What a step may do to the data: a call begins, and if it comes from a   *)
(* search that returned nothing although the asset was there before the    *)
(* run, the run is troubled; a call ends; homes are read; a deployment is  *)
(* made; or nothing but phases, what is left to do and table chains moves. *)
Begins(r, s) ==
  /\ phase[r] = "assets" /\ s \in todo[r]
  /\ todo' = [todo EXCEPT ![r] = @ \ {s}]
  /\ CreateAsset(r, s)
  /\ Kind[r] = "search" /\ (\E x \in before[r] : x.symbol = s) => r \in troubled'
  /\ UNCHANGED <<assets, deployments, home, before>>

Settled(r) ==
  /\ \A q \in Runs : home'[q] \subseteq home[q]
  /\ \A q \in Runs :
       phase'[q] = "insert" => phase[q] = "insert" /\ item'[q] = item[q]
  /\ UNCHANGED <<assets, deployments, clock>>

Kinds(r) ==
  \/ \E s \in Symbols : Begins(r, s)
  \/ InsertAsset(r)
  \/ ListHomes(r) \/ \E s \in Symbols : SearchHome(r, s)
  \/ \E w \in Wanted : SeedDeployment(r, w)
  \/ Settled(r)

(* A search that returns no asset of a symbol that has one was cut.        *)
LEMMA MissedMeansCut ==
  ASSUME TypeOK, NEW r \in Runs, NEW s \in Symbols,
         \A x \in SearchAssets(s) : x.symbol # s,
         NEW y \in before[r], y.symbol = s
  PROVE  IsCut(Found(s))
<1>1. y \in assets /\ s \in Matching[s]
  BY ConstantsAssumption DEF ConstantsAssumption, TypeOK, TablesTyped
<1>2. y \in Found(s) /\ y \notin Page(Found(s))
  BY <1>1 DEF Found, SearchAssets
<1> QED
  BY <1>2 DEF IsCut

LEMMA SearchBegins ==
  ASSUME TypeOK, NEW r \in Runs, NEW s \in Symbols, SearchAsset(r, s)
  PROVE  Begins(r, s) \/ Settled(r)
<1>1. CASE /\ \E x \in SearchAssets(s) : x.symbol = s
           /\ UNCHANGED <<clock, phase, item, troubled>>
  BY <1>1 DEF SearchAsset, Settled, tables
<1>2. CASE /\ \A x \in SearchAssets(s) : x.symbol # s
           /\ CreateAsset(r, s)
           /\ troubled' = troubled \cup {q \in {r} : IsCut(Found(s))}
  BY <1>2, MissedMeansCut DEF SearchAsset, Begins, tables
<1>3. CASE /\ CreateAsset(r, s)
           /\ troubled' = troubled \cup {r}
  BY <1>3 DEF SearchAsset, Begins, tables
<1> QED
  BY <1>1, <1>2, <1>3 DEF SearchAsset

LEMMA StepHasKind ==
  ASSUME TypeOK, NEW r \in Runs, Start(r) \/ Go(r) \/ Die(r)
  PROVE  Kinds(r)
<1>1. CASE \E s \in Symbols : TakeAsset(r, s)
  <2>1. Kind[r] # "search"
    BY <1>1 DEF TakeAsset
  <2> QED
    BY <1>1, <2>1 DEF TakeAsset, Kinds, Begins, tables
<1>2. CASE \E s \in Symbols : SearchAsset(r, s)
  BY <1>2, SearchBegins DEF Kinds
<1>3. CASE \/ InsertAsset(r) \/ ListHomes(r)
           \/ \E s \in Symbols : SearchHome(r, s)
           \/ \E w \in Wanted : SeedDeployment(r, w)
  BY <1>3 DEF Kinds
<1>4. CASE ListFails(r) \/ EndDeployments(r) \/ Die(r)
  <2>1. Settled(r)
    BY <1>4 DEF ListFails, EndDeployments, Die, Stop, Settled, TypeOK,
         RunsTyped, TablesTyped, tables
  <2> QED
    BY <2>1 DEF Kinds
<1>5. CASE \/ Start(r) \/ EndChains(r) \/ EndAssets(r) \/ EndSearch(r)
           \/ \E ch \in Chains : SeedChain(r, ch)
           \/ \E w \in Wanted : ListDeployments(r, w)
  <2>1. Settled(r)
    BY <1>5 DEF Start, EndChains, EndAssets, EndSearch, Deploy, SeedChain,
                ListDeployments, Settled, TypeOK, RunsTyped, TablesTyped, tables
  <2> QED
    BY <2>1 DEF Kinds
<1> QED
  BY <1>1, <1>2, <1>3, <1>4, <1>5 DEF Go

-------------------------------------------------------------------------------

(* A call that begins uses a pair of run and symbol not used before; other *)
(* steps leave the clock alone.                                            *)
LEMMA StepCounts ==
  ASSUME TypeOK, ClockCountsCalls, NEW r \in Runs, OnlyMore, Kinds(r)
  PROVE  ClockCountsCalls'
<1>1. Used \subseteq Used'
  BY DEF OnlyMore, Used
<1>2. CASE \E s \in Symbols : Begins(r, s)
  <2>1. PICK s \in Symbols : Begins(r, s)
    BY <1>2
  <2>2. <<r, s>> \notin Used
    BY <2>1 DEF Begins, Used, IsTaken
  <2>3. <<r, s>> \in Used'
    BY <2>1 DEF Begins, CreateAsset, Used, IsTaken, TypeOK, RunsTyped
  <2>4. Used \cup {<<r, s>>} \subseteq Used'
    BY <1>1, <2>3
  <2>5. Cardinality(Used \cup {<<r, s>>}) = Cardinality(Used) + 1
    BY <2>2, UsedIsBounded, FS_AddElement
  <2>6. Cardinality(Used \cup {<<r, s>>}) <= Cardinality(Used')
    BY <2>4, UsedIsBoundedNext, FS_Subset
  <2>7. clock' = clock + 1
    BY <2>1 DEF Begins, CreateAsset
  <2>8. /\ Cardinality(Used) \in Int /\ Cardinality(Used') \in Int
        /\ clock \in Int /\ clock <= Cardinality(Used)
    BY UsedIsBounded, UsedIsBoundedNext DEF TypeOK, TablesTyped, ClockCountsCalls
  <2>9. clock + 1 <= Cardinality(Used')
    BY <2>5, <2>6, <2>8
  <2> QED
    BY <2>7, <2>9 DEF ClockCountsCalls
<1>3. CASE clock' = clock
  <2>1. Cardinality(Used) <= Cardinality(Used')
    BY <1>1, UsedIsBoundedNext, FS_Subset
  <2>2. /\ Cardinality(Used) \in Int /\ Cardinality(Used') \in Int
        /\ clock \in Int /\ clock <= Cardinality(Used)
    BY UsedIsBounded, UsedIsBoundedNext DEF TypeOK, TablesTyped, ClockCountsCalls
  <2>3. clock <= Cardinality(Used')
    BY <2>1, <2>2
  <2> QED
    BY <1>3, <2>3 DEF ClockCountsCalls
<1> QED
  BY <1>2, <1>3 DEF Kinds, InsertAsset, ListHomes, SearchHome, SeedDeployment,
                    Settled, tables

(* What keeps the assets of a run apart. *)
LEMMA StepKeepsAssets ==
  ASSUME IInv, NEW r \in Runs, OnlyMore, Kinds(r)
  PROVE  AssetsAreTaken' /\ InsertsAreNeeded' /\ OncePerRun' /\ RerunsSkip'
<1> USE DEF IInv
<1>0. \A x \in assets : x.run \in Runs /\ x.symbol \in Symbols
  BY DEF TypeOK, TablesTyped, AssetType
<1>1. CASE \E s \in Symbols : Begins(r, s)
  <2>1. PICK s \in Symbols : Begins(r, s)
    BY <1>1
  <2>2. /\ assets' = assets /\ before' = before /\ ~ IsTaken(r, s)
        /\ phase' = [phase EXCEPT ![r] = "insert"]
        /\ item'[r].symbol = s
        /\ \A q \in Runs \ {r} : item'[q] = item[q]
        /\ s \notin todo'[r]
    BY <2>1 DEF Begins, CreateAsset, IsTaken, TypeOK, RunsTyped
  <2>3. AssetsAreTaken'
    BY <1>0, <2>2 DEF OnlyMore, AssetsAreTaken, TypeOK, RunsTyped
  <2>4. InsertsAreNeeded'
    <3>1. ASSUME NEW q \in Runs, phase'[q] = "insert"
          PROVE  /\ IsTaken(q, item[q].symbol)'
                 /\ Kind[q] = "search"
                      /\ (\E x \in before'[q] : x.symbol = item'[q].symbol)
                      => q \in troubled'
      <4>1. CASE q = r
        BY <4>1, <2>1, <2>2 DEF Begins, IsTaken, TypeOK, RunsTyped
      <4>2. CASE q # r
        <5>1. phase[q] = "insert" /\ item'[q] = item[q]
          BY <4>2, <2>2, <3>1 DEF TypeOK, RunsTyped
        <5>2. item[q].symbol \in Symbols
          BY <5>1 DEF TypeOK, RunsTyped, ItemType
        <5> QED
          BY <5>1, <5>2, <2>2 DEF InsertsAreNeeded, OnlyMore, IsTaken
      <4> QED
        BY <4>1, <4>2
    <3> QED
      BY <3>1 DEF InsertsAreNeeded
  <2> QED
    BY <2>2, <2>3, <2>4 DEF OncePerRun, RerunsSkip, OnlyMore
<1>2. CASE InsertAsset(r)
  <2>1. /\ phase[r] = "insert" /\ before' = before /\ troubled' = troubled
        /\ assets' = assets \/ assets' = assets \cup {NewAsset(r)}
        /\ phase' = [phase EXCEPT ![r] = "assets"]
        /\ \A q \in Runs \ {r} : item'[q] = item[q]
    BY <1>2 DEF InsertAsset, TypeOK, RunsTyped
  <2>2. /\ NewAsset(r).run = r /\ NewAsset(r).symbol = item[r].symbol
        /\ item[r].symbol \in Symbols
    BY <2>1 DEF NewAsset, TypeOK, RunsTyped, ItemType
  <2>3. IsTaken(r, item[r].symbol)
    BY <2>1 DEF InsertsAreNeeded
  <2>4. AssetsAreTaken'
    <3>1. ASSUME NEW x \in assets'
          PROVE  IsTaken(x.run, x.symbol)' /\ x.run \in Runs
      BY <1>0, <2>1, <2>2, <2>3 DEF AssetsAreTaken, OnlyMore
    <3>2. ASSUME NEW x \in assets', phase'[x.run] = "insert"
          PROVE  item'[x.run].symbol # x.symbol
      <4>1. x.run # r /\ phase[x.run] = "insert"
        BY <3>1, <3>2, <2>1 DEF TypeOK, RunsTyped
      <4> QED
        BY <4>1, <3>1, <2>1, <2>2 DEF AssetsAreTaken
    <3> QED
      BY <3>1, <3>2 DEF AssetsAreTaken
  <2>5. InsertsAreNeeded'
    <3>1. ASSUME NEW q \in Runs, phase'[q] = "insert"
          PROVE  phase[q] = "insert" /\ item'[q] = item[q] /\ item[q].symbol \in Symbols
      BY <2>1, <3>1 DEF TypeOK, RunsTyped, ItemType
    <3> QED
      BY <3>1, <2>1 DEF InsertsAreNeeded, OnlyMore, IsTaken
  <2>6. \A x \in assets : x.run = r => x.symbol # item[r].symbol
    BY <2>1 DEF AssetsAreTaken
  <2>7. OncePerRun'
    BY <2>1, <2>2, <2>6 DEF OncePerRun
  <2>8. RerunsSkip'
    <3>1. \A q \in Runs : before[q] \subseteq assets
      BY DEF TypeOK, TablesTyped
    <3>2. ASSUME NEW x \in assets', NEW y \in assets', x # y,
                 x.symbol = y.symbol, Kind[y.run] = "search", x \in before[y.run]
          PROVE  y.run \in troubled
      <4>1. CASE y \in assets
        <5>1. x \in assets
          BY <4>1, <1>0, <3>1, <3>2
        <5> QED
          BY <4>1, <5>1, <3>2 DEF RerunsSkip
      <4>2. CASE y = NewAsset(r)
        BY <4>2, <3>2, <2>1, <2>2 DEF InsertsAreNeeded
      <4> QED
        BY <4>1, <4>2, <2>1
    <3> QED
      BY <3>2, <2>1 DEF RerunsSkip
  <2> QED
    BY <2>4, <2>5, <2>7, <2>8
<1>3. CASE /\ assets' = assets
           /\ \A q \in Runs :
                phase'[q] = "insert" => phase[q] = "insert" /\ item'[q] = item[q]
  <2>1. AssetsAreTaken'
    BY <1>0, <1>3 DEF AssetsAreTaken, OnlyMore
  <2>2. \A q \in Runs : phase[q] = "insert" => item[q].symbol \in Symbols
    BY DEF TypeOK, RunsTyped, ItemType
  <2>3. InsertsAreNeeded'
    BY <1>3, <2>2 DEF InsertsAreNeeded, OnlyMore, IsTaken
  <2>4. \A x \in assets : phase[x.run] # "new"
    BY DEF AssetsAreTaken, IsTaken
  <2>5. OncePerRun' /\ RerunsSkip'
    BY <1>0, <1>3, <2>4 DEF OncePerRun, RerunsSkip, OnlyMore
  <2> QED
    BY <2>1, <2>3, <2>5
<1>4. ASSUME \/ ListHomes(r) \/ \E s \in Symbols : SearchHome(r, s)
             \/ \E w \in Wanted : SeedDeployment(r, w)
             \/ Settled(r)
      PROVE  /\ assets' = assets
             /\ \A q \in Runs :
                  phase'[q] = "insert" => phase[q] = "insert" /\ item'[q] = item[q]
  BY <1>4 DEF ListHomes, Deploy, SearchHome, SeedDeployment, Settled, tables,
              TypeOK, RunsTyped
<1> QED
  BY <1>1, <1>2, <1>3, <1>4 DEF Kinds

-------------------------------------------------------------------------------

(* An asset once fit for a deployment of a run stays fit. *)
LEMMA HomeStays ==
  ASSUME OnlyMore, NEW q \in Runs, phase[q] # "new", NEW x, NEW s,
         IsHome(x, s, q)
  PROVE  IsHome(x, s, q)'
  BY DEF OnlyMore, IsHome

(* The homes read from a page of assets: a page that was not cut holds all *)
(* assets there are.                                                       *)
LEMMA ListedHomes ==
  ASSUME TypeOK, NEW r \in Runs, ListHomes(r), NEW h \in home'[r]
  PROVE  IsHome(h[2], h[1], r)'
<1>1. /\ before' = before
      /\ troubled' = troubled \cup {q \in {r} : IsCut(assets)}
      /\ home'[r] = {<<x.symbol, x>> : x \in Oldest(ListAssets)}
  BY DEF ListHomes, TypeOK, TablesTyped
<1>2. PICK x \in Oldest(ListAssets) : h = <<x.symbol, x>>
  BY <1>1
<1>3. CASE r \in troubled'
  BY <1>1, <1>2, <1>3 DEF IsHome
<1>4. CASE r \notin troubled'
  <2>1. ListAssets = assets
    BY <1>1, <1>4 DEF IsCut, ListAssets
  <2>2. \A y \in before[r] : y.symbol = x.symbol => x.created <= y.created
    BY <2>1 DEF Oldest, TypeOK, TablesTyped
  <2> QED
    BY <1>1, <1>2, <2>2 DEF IsHome
<1> QED
  BY <1>3, <1>4

LEMMA StepKeepsHomes ==
  ASSUME IInv, NEW r \in Runs, OnlyMore, Kinds(r)
  PROVE  HomesFit'
<1> USE DEF IInv
<1>1. SUFFICES ASSUME NEW q \in Runs, NEW h \in home'[q]
               PROVE  /\ phase'[q] # "new"
                      /\ Kind[q] = "file" => IsHome(h[2], h[1], q)'
  BY DEF HomesFit
<1>2. CASE h \in home[q]
  BY <1>2, HomeStays DEF HomesFit, OnlyMore
<1>3. CASE h \notin home[q]
  <2>1. /\ q = r /\ phase[r] # "new"
        /\ ListHomes(r) \/ \E s \in Symbols : SearchHome(r, s)
    BY <1>3 DEF Kinds, Begins, InsertAsset, ListHomes, SearchHome, SeedDeployment,
                Settled, TypeOK, TablesTyped
  <2>2. Kind[q] = "file" => ListHomes(r)
    BY <2>1 DEF SearchHome
  <2> QED
    BY <2>1, <2>2, ListedHomes DEF OnlyMore
<1> QED
  BY <1>2, <1>3

LEMMA StepKeepsDeployments ==
  ASSUME IInv, NEW r \in Runs, OnlyMore, Kinds(r)
  PROVE  DeploymentsAreLate' /\ DeploymentsFindHome'
<1> USE DEF IInv
<1>1. SUFFICES ASSUME NEW d \in deployments'
               PROVE  /\ d.run \in Runs /\ phase'[d.run] # "new"
                      /\ Kind[d.run] = "file" => IsHome(d.asset, d.symbol, d.run)'
  BY DEF DeploymentsAreLate, DeploymentsFindHome
<1>2. CASE d \in deployments
  <2>1. /\ d.run \in Runs /\ phase[d.run] # "new"
        /\ Kind[d.run] = "file" => IsHome(d.asset, d.symbol, d.run)
    BY <1>2 DEF DeploymentsAreLate, DeploymentsFindHome, TypeOK, TablesTyped
  <2> QED
    BY <2>1, HomeStays DEF OnlyMore
<1>3. CASE d \notin deployments
  <2>1. PICK w \in Wanted : SeedDeployment(r, w)
    BY <1>3 DEF Kinds, Begins, InsertAsset, ListHomes, SearchHome, Settled, tables
  <2>2. PICK x \in assets :
          <<w[1], x>> \in home[r] /\ d = Deployment(x, w[2], w[1], r)
    BY <1>3, <2>1 DEF SeedDeployment
  <2>3. phase[r] # "new" /\ (Kind[r] = "file" => IsHome(x, w[1], r))
    BY <2>2 DEF HomesFit
  <2>4. d.run = r /\ d.asset = x /\ d.symbol = w[1]
    BY <2>2 DEF Deployment
  <2> QED
    BY <2>3, <2>4, HomeStays DEF OnlyMore
<1> QED
  BY <1>2, <1>3

-------------------------------------------------------------------------------

LEMMA InitHolds == Init => IInv
<1> SUFFICES ASSUME Init PROVE IInv
  OBVIOUS
<1>1. TypeOK
  BY InitIsTyped
<1>2. ClockCountsCalls
  BY UsedIsBounded, CallsAreFinite DEF Init, ClockCountsCalls
<1>3. /\ AssetsAreTaken /\ InsertsAreNeeded /\ OncePerRun /\ RerunsSkip
      /\ HomesFit /\ DeploymentsAreLate /\ DeploymentsFindHome
  BY DEF Init, AssetsAreTaken, InsertsAreNeeded, OncePerRun, RerunsSkip, HomesFit,
         DeploymentsAreLate, DeploymentsFindHome
<1> QED
  BY <1>1, <1>2, <1>3 DEF IInv

LEMMA StepHolds == IInv /\ [Next]_vars => IInv'
<1> SUFFICES ASSUME IInv, [Next]_vars PROVE IInv'
  OBVIOUS
<1>1. CASE Next
  <2>1. PICK r \in Runs : Start(r) \/ Go(r) \/ Die(r)
    BY <1>1 DEF Next
  <2>2. OnlyMore /\ Kinds(r)
    BY <2>1, StepAdds, StepHasKind DEF IInv
  <2>3. ClockCountsCalls'
    BY <2>2, StepCounts DEF IInv
  <2>4. TypeOK'
    BY <2>1, <2>3, RunsStayTyped, TablesStayTyped DEF IInv, TypeOK
  <2>5. AssetsAreTaken' /\ InsertsAreNeeded' /\ OncePerRun' /\ RerunsSkip'
    BY <2>2, StepKeepsAssets
  <2>6. HomesFit' /\ DeploymentsAreLate' /\ DeploymentsFindHome'
    BY <2>2, StepKeepsHomes, StepKeepsDeployments
  <2> QED
    BY <2>3, <2>4, <2>5, <2>6 DEF IInv
<1>2. CASE UNCHANGED vars
  BY <1>2 DEF IInv, vars, tables, TypeOK, TablesTyped, RunsTyped, AssetType, ItemType,
              ClockCountsCalls, Used, IsTaken, AssetsAreTaken, InsertsAreNeeded,
              OncePerRun, RerunsSkip, HomesFit, DeploymentsAreLate,
              DeploymentsFindHome, IsHome
<1> QED
  BY <1>1, <1>2

LEMMA Invariance == Spec => []IInv
  BY InitHolds, StepHolds, PTL DEF Spec

(***************************************************************************)
(* Rows of all tables and what the runs hold are well formed: no asset     *)
(* carries a time the clock has not shown, no deployment is on an asset or *)
(* a chain that is not there, and the runs together make no more than one  *)
(* call for each symbol each.                                              *)
(***************************************************************************)
THEOREM SeedingTypeCorrect == Spec => []TypeOK
<1>1. IInv => TypeOK
  BY DEF IInv
<1> QED
  BY <1>1, Invariance, PTL

(***************************************************************************)
(* A run makes at most one asset of each symbol, whatever its calls answer *)
(* and whatever other runs do at the same time: the seeders do not send a  *)
(* call again.                                                             *)
(***************************************************************************)
THEOREM OneAssetPerRun == Spec => []OncePerRun
<1>1. IInv => OncePerRun
  BY DEF IInv
<1> QED
  BY <1>1, Invariance, PTL

(***************************************************************************)
(* A run that searches makes again nothing that was there when it began,   *)
(* unless a search failed or did not fit its page.                         *)
(***************************************************************************)
THEOREM SearchingRunsSkip == Spec => []RerunsSkip
<1>1. IInv => RerunsSkip
  BY DEF IInv
<1> QED
  BY <1>1, Invariance, PTL

(***************************************************************************)
(* Deployments of a run of main gather on the oldest asset of a symbol     *)
(* there was when it began, unless the list of assets was cut.             *)
(***************************************************************************)
THEOREM DeploymentsGather == Spec => []DeploymentsFindHome
<1>1. IInv => DeploymentsFindHome
  BY DEF IInv
<1> QED
  BY <1>1, Invariance, PTL

-------------------------------------------------------------------------------
(* Runs without failing calls, on pages that hold what the runs can make.  *)

(* No more assets than symbols for each run. *)
AssetsAreFew == IsFiniteSet(assets) /\ Cardinality(assets) <= MaxCalls

(***************************************************************************)
(* However often the tool is run, it makes no more assets than it has      *)
(* symbols for each run, which is what a page must hold for no answer to   *)
(* be cut.                                                                 *)
(***************************************************************************)
THEOREM AssetsBounded == Spec => []AssetsAreFew
<1>1. TypeOK /\ OncePerRun => AssetsAreFew
  <2> SUFFICES ASSUME TypeOK, OncePerRun PROVE AssetsAreFew
    OBVIOUS
  <2> DEFINE f == [x \in assets |-> <<x.run, x.symbol>>]
  <2>1. f \in [assets -> Runs \X Symbols]
    BY DEF TypeOK, TablesTyped, AssetType
  <2>2. \A x, y \in assets : f[x] = f[y] => x = y
    BY DEF OncePerRun
  <2>3. f \in Injection(assets, Runs \X Symbols)
    BY <2>1, <2>2 DEF Injection, IsInjective
  <2> QED
    BY <2>3, FS_Injection, CallsAreFinite DEF AssetsAreFew
<1> QED
  BY <1>1, SeedingTypeCorrect, OneAssetPerRun, PTL

(* No call returns an error, and a page holds all that the runs can make.  *)
Roomy == ~ CallsFail /\ MaxCalls <= PageSize

LEMMA PagesHoldAll ==
  ASSUME Roomy, TypeOK, AssetsAreFew, NEW rows \in SUBSET assets
  PROVE  ~ IsCut(rows)
<1>1. /\ IsFiniteSet(rows) /\ Cardinality(rows) <= Cardinality(assets)
      /\ Cardinality(rows) \in Nat /\ Cardinality(assets) \in Nat
  BY FS_Subset, FS_CardinalityType DEF AssetsAreFew
<1>2. Cardinality(rows) <= PageSize
  BY <1>1, CallsAreFinite, ConstantsAssumption
     DEF AssetsAreFew, Roomy, ConstantsAssumption
<1>3. ASSUME NEW x \in rows
      PROVE  Cardinality(Newer(x, rows)) < PageSize
  <2>1. x.created \in Int
    BY DEF TypeOK, TablesTyped, AssetType
  <2>2. Newer(x, rows) \in SUBSET rows /\ x \notin Newer(x, rows)
    BY <2>1 DEF Newer
  <2>3. /\ Cardinality(Newer(x, rows)) \in Nat
        /\ Cardinality(Newer(x, rows)) <= Cardinality(rows)
        /\ Cardinality(Newer(x, rows)) # Cardinality(rows)
    BY <1>1, <2>2, FS_Subset, FS_CardinalityType
  <2> QED
    BY <1>1, <1>2, <2>3, ConstantsAssumption DEF ConstantsAssumption
<1> QED
  BY <1>3 DEF IsCut, Page

LEMMA NoTrouble ==
  ASSUME Roomy
  PROVE  Spec => [](troubled = {})
<1>1. Init => troubled = {}
  BY DEF Init
<1>2. TypeOK /\ AssetsAreFew /\ troubled = {} /\ [Next]_vars => (troubled = {})'
  <2> SUFFICES ASSUME TypeOK, AssetsAreFew, troubled = {}, [Next]_vars
               PROVE  troubled' = {}
    OBVIOUS
  <2>1. ASSUME NEW r \in Runs, NEW s \in Symbols, SearchAsset(r, s)
        PROVE  troubled' = {}
    <3>1. ~ IsCut(Found(s))
      BY PagesHoldAll DEF Found
    <3> QED
      BY <2>1, <3>1 DEF SearchAsset, Roomy
  <2>2. ASSUME NEW r \in Runs, ListHomes(r)
        PROVE  troubled' = {}
    <3>1. ~ IsCut(assets)
      BY PagesHoldAll
    <3> QED
      BY <2>2, <3>1 DEF ListHomes
  <2> QED
    BY <2>1, <2>2
       DEF Next, Go, Start, Die, Stop, SeedChain, TakeAsset, SearchHome,
           ListDeployments, SeedDeployment, EndChains, InsertAsset, EndAssets,
           ListFails, EndSearch, EndDeployments, vars
<1> QED
  BY <1>1, <1>2, SeedingTypeCorrect, AssetsBounded, PTL DEF Spec

(* What a run that searches makes was not there when the run began.        *)
SearchesAddNothing ==
  \A x, y \in assets :
    x # y /\ x.symbol = y.symbol /\ Kind[y.run] = "search" => x \notin before[y.run]

(* A run of main deploys on the oldest asset of a symbol that was there.   *)
OldestIsHome ==
  \A d \in deployments : Kind[d.run] = "file" =>
    /\ d.asset.symbol = d.symbol
    /\ \A x \in before[d.run] : x.symbol = d.symbol => d.asset.created <= x.created

(***************************************************************************)
(* When no call fails and the pages hold what the runs can make, runs that *)
(* search add nothing that was there when they began, without exception,   *)
(* although other runs create at the same time, and runs of main deploy on *)
(* the oldest asset of the symbol there was.                               *)
(***************************************************************************)
THEOREM RoomyReruns ==
  ASSUME Roomy
  PROVE  Spec => [](SearchesAddNothing /\ OldestIsHome)
<1>1. troubled = {} /\ RerunsSkip => SearchesAddNothing
  BY DEF RerunsSkip, SearchesAddNothing
<1>2. troubled = {} /\ DeploymentsFindHome => OldestIsHome
  BY DEF DeploymentsFindHome, IsHome, OldestIsHome
<1> QED
  BY <1>1, <1>2, NoTrouble, SearchingRunsSkip, DeploymentsGather, PTL
===============================================================================
