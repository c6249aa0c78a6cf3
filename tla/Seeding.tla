-------------------------------- MODULE Seeding --------------------------------
(***************************************************************************)
(* Filling an empty registry: runs of the bootstrap tool, one after the    *)
(* other or at the same time, each through chains, assets and deployments  *)
(* by calls to the service.  A run of kind "file" is the one main starts   *)
(* (FileBasedSeeder); a run of kind "search" uses the ChainSeeder, the     *)
(* AssetSeeder and the DeploymentSeeder, which ask what is there first.    *)
(*                                                                         *)
(* An asset is created in two steps, as its row carries the time at which  *)
(* the service received the call and lists are ordered by that time.       *)
(* Other calls are single steps: what overlaps inside them is the subject  *)
(* of Listings.  A call that returns an error is over at the service too,  *)
(* with its row written or not.  The files' contents are constants;        *)
(* reading and parsing them is left out, as are dry runs and the counting  *)
(* of results.                                                             *)
(***************************************************************************)
EXTENDS FiniteSets, Naturals

CONSTANTS
  Symbols,      \* symbols of the assets to seed, all different
  Chains,       \* chains to seed
  Wanted,       \* pairs of a symbol and a chain to deploy it on
  Runs,         \* runs of the tool
  Kind,         \* the kind of each run
  Matching,     \* symbols whose asset a search for a symbol returns
  PageSize,     \* assets in one answer of ListAssets and SearchAssets
  CallsFail     \* whether a call may return an error, done or not

ASSUME ConstantsAssumption ==
  /\ IsFiniteSet(Symbols) /\ IsFiniteSet(Runs)
  /\ Kind \in [Runs -> {"file", "search"}]
  /\ Matching \in [Symbols -> SUBSET Symbols]
  /\ \A s \in Symbols : s \in Matching[s]
  /\ PageSize \in Nat \ {0}
  /\ CallsFail \in BOOLEAN

VARIABLES
  chains,       \* rows of table chains
  assets,       \* rows [symbol, created, run] of table assets
  deployments,  \* rows [asset, chain, symbol, run] of table deployments
  clock,        \* the service's clock
  phase,        \* where each run is
  todo,         \* what the phase has still to go through
  item,         \* the symbol at hand, with the time its call was received
  home,         \* pairs <<symbol, asset>>: where deployments are made
  missing,      \* the deployment at hand, when no list has shown it
  before,       \* history: the assets that were there when the run began
  troubled      \* history: runs that met a failing search or a cut page

tables == <<chains, assets, deployments>>
vars == <<tables, clock, phase, todo, item, home, missing, before, troubled>>

Phases == {"new", "chains", "assets", "insert", "list", "deployments", "done",
           "dead"}

Nothing == [symbol |-> "none"]

-------------------------------------------------------------------------------

Init ==
  /\ chains = {} /\ assets = {} /\ deployments = {}
  /\ clock = 0
  /\ phase = [r \in Runs |-> "new"]
  /\ todo = [r \in Runs |-> {}]
  /\ item = [r \in Runs |-> Nothing]
  /\ home = [r \in Runs |-> {}]
  /\ missing = [r \in Runs |-> {}]
  /\ before = [r \in Runs |-> {}]
  /\ troubled = {}

(* The newest rows first: what does not fit the page is not returned. *)
Newer(x, rows) == {y \in rows : y.created > x.created}
Page(rows) == {x \in rows : Cardinality(Newer(x, rows)) < PageSize}
IsCut(rows) == Page(rows) # rows

(* Of the assets of each symbol, and of all. *)
Oldest(rows) ==
  {x \in rows : \A y \in rows : y.symbol = x.symbol => x.created <= y.created}
Newest(rows) ==
  {x \in rows : \A y \in rows : y.symbol = x.symbol => y.created <= x.created}
First(rows) == {x \in rows : Newer(x, rows) = {}}

ListAssets == Page(assets)

Found(s) == {x \in assets : x.symbol \in Matching[s]}
SearchAssets(s) == Page(Found(s))

Start(r) ==
  /\ phase[r] = "new"
  /\ phase' = [phase EXCEPT ![r] = "chains"]
  /\ todo' = [todo EXCEPT ![r] = Chains]
  /\ before' = [before EXCEPT ![r] = assets]
  /\ UNCHANGED <<tables, clock, item, home, missing, troubled>>

(* The tool ends. *)
Stop(r, how) ==
  /\ phase' = [phase EXCEPT ![r] = how]
  /\ todo' = [todo EXCEPT ![r] = {}]
  /\ item' = [item EXCEPT ![r] = Nothing]
  /\ home' = [home EXCEPT ![r] = {}]
  /\ missing' = [missing EXCEPT ![r] = {}]
  /\ UNCHANGED <<tables, clock, before, troubled>>

(* A chain that is there already is refused by its primary key, or found   *)
(* by GetChain; either way the run goes on.                                *)
SeedChain(r, ch) ==
  /\ phase[r] = "chains" /\ ch \in todo[r]
  /\ todo' = [todo EXCEPT ![r] = @ \ {ch}]
  /\ \/ chains' = chains \cup {ch}
     \/ CallsFail /\ chains' = chains
  /\ UNCHANGED <<assets, deployments, clock, phase, item, home, missing, before,
                 troubled>>

EndChains(r) ==
  /\ phase[r] = "chains" /\ todo[r] = {}
  /\ phase' = [phase EXCEPT ![r] = "assets"]
  /\ todo' = [todo EXCEPT ![r] = Symbols]
  /\ UNCHANGED <<tables, clock, item, home, missing, before, troubled>>

(* The service receives CreateAsset for symbol s: the row it will insert   *)
(* carries this time.                                                      *)
CreateAsset(r, s) ==
  /\ clock' = clock + 1
  /\ item' = [item EXCEPT ![r] = [symbol |-> s, created |-> clock + 1]]
  /\ phase' = [phase EXCEPT ![r] = "insert"]

(* FileBasedSeeder.SeedAssets asks for every asset of the file. *)
TakeAsset(r, s) ==
  /\ Kind[r] = "file"
  /\ phase[r] = "assets" /\ s \in todo[r]
  /\ todo' = [todo EXCEPT ![r] = @ \ {s}]
  /\ CreateAsset(r, s)
  /\ UNCHANGED <<tables, home, missing, before, troubled>>

(* Fault: the seeder compares with the first result only. *)
SearchAssetFirst(r, s) ==
  /\ Kind[r] = "search"
  /\ phase[r] = "assets" /\ s \in todo[r]
  /\ todo' = [todo EXCEPT ![r] = @ \ {s}]
  /\ \/ /\ \E x \in First(SearchAssets(s)) : x.symbol = s
        /\ UNCHANGED <<clock, phase, item, troubled>>
     \/ /\ \A x \in First(SearchAssets(s)) : x.symbol # s
        /\ CreateAsset(r, s)
        /\ troubled' = troubled \cup {q \in {r} : IsCut(Found(s))}
     \/ /\ CallsFail
        /\ CreateAsset(r, s)
        /\ troubled' = troubled \cup {r}
  /\ UNCHANGED <<tables, home, missing, before>>

(* seedAsset skips an asset whose symbol the search returns; a search that *)
(* fails counts as one that finds nothing.                                 *)
SearchAsset(r, s) ==
  /\ Kind[r] = "search"
  /\ phase[r] = "assets" /\ s \in todo[r]
  /\ todo' = [todo EXCEPT ![r] = @ \ {s}]
  /\ \/ /\ \E x \in SearchAssets(s) : x.symbol = s
        /\ UNCHANGED <<clock, phase, item, troubled>>
     \/ /\ \A x \in SearchAssets(s) : x.symbol # s
        /\ CreateAsset(r, s)
        /\ troubled' = troubled \cup {q \in {r} : IsCut(Found(s))}
     \/ /\ CallsFail
        /\ CreateAsset(r, s)
        /\ troubled' = troubled \cup {r}
  /\ UNCHANGED <<tables, home, missing, before>>

NewAsset(r) ==
  [symbol |-> item[r].symbol, created |-> item[r].created, run |-> r]

(* Fault: a call that returns an error is sent again. *)
InsertAssetRetrying(r) ==
  /\ phase[r] = "insert"
  /\ assets' = assets \cup {NewAsset(r)}
  /\ \/ /\ phase' = [phase EXCEPT ![r] = "assets"]
        /\ item' = [item EXCEPT ![r] = Nothing]
        /\ clock' = clock
     \/ /\ CallsFail
        /\ clock < Cardinality(Runs) * Cardinality(Symbols)
        /\ CreateAsset(r, item[r].symbol)
  /\ UNCHANGED <<chains, deployments, todo, home, missing, before, troubled>>

(* The row commits, or not; the run goes on to the next asset whatever it  *)
(* is answered.                                                            *)
InsertAsset(r) ==
  /\ phase[r] = "insert"
  /\ \/ assets' = assets \cup {NewAsset(r)}
     \/ CallsFail /\ assets' = assets
  /\ phase' = [phase EXCEPT ![r] = "assets"]
  /\ item' = [item EXCEPT ![r] = Nothing]
  /\ UNCHANGED <<chains, deployments, clock, todo, home, missing, before,
                 troubled>>

EndAssets(r) ==
  /\ phase[r] = "assets" /\ todo[r] = {}
  /\ phase' = [phase EXCEPT ![r] = "list"]
  /\ todo' = [todo EXCEPT ![r] = Symbols]
  /\ UNCHANGED <<tables, clock, item, home, missing, before, troubled>>

Deploy(r) ==
  /\ phase' = [phase EXCEPT ![r] = "deployments"]
  /\ todo' = [todo EXCEPT ![r] = Wanted]

(* Fault: the map from symbols to ids keeps the first asset of a symbol. *)
ListHomesNewest(r) ==
  /\ Kind[r] = "file" /\ phase[r] = "list"
  /\ home' = [home EXCEPT ![r] =
                {<<x.symbol, x>> : x \in Newest(ListAssets)}]
  /\ troubled' = troubled \cup {q \in {r} : IsCut(assets)}
  /\ Deploy(r)
  /\ UNCHANGED <<tables, clock, item, missing, before>>

(* FileBasedSeeder.SeedDeployments: the page is read from the newest asset *)
(* to the oldest, and the last of a symbol stays in the map.               *)
ListHomes(r) ==
  /\ Kind[r] = "file" /\ phase[r] = "list"
  /\ home' = [home EXCEPT ![r] =
                {<<x.symbol, x>> : x \in Oldest(ListAssets)}]
  /\ troubled' = troubled \cup {q \in {r} : IsCut(assets)}
  /\ Deploy(r)
  /\ UNCHANGED <<tables, clock, item, missing, before>>

(* Without the list there is nothing to go on with. *)
ListFails(r) ==
  /\ Kind[r] = "file" /\ phase[r] = "list"
  /\ CallsFail
  /\ Stop(r, "dead")

(***************************************************************************)
(* DeploymentSeeder: a search for every symbol, of which it takes the      *)
(* first result, whatever its symbol.  In the code a symbol's deployments  *)
(* are made before the next symbol is searched; they change nothing that a *)
(* search returns.                                                         *)
(***************************************************************************)
SearchHome(r, s) ==
  /\ Kind[r] = "search" /\ phase[r] = "list" /\ s \in todo[r]
  /\ todo' = [todo EXCEPT ![r] = @ \ {s}]
  /\ \/ home' = [home EXCEPT ![r] =
                   @ \cup {<<s, x>> : x \in First(SearchAssets(s))}]
     \/ CallsFail /\ home' = home
  /\ UNCHANGED <<tables, clock, phase, item, missing, before, troubled>>

EndSearch(r) ==
  /\ Kind[r] = "search" /\ phase[r] = "list" /\ todo[r] = {}
  /\ Deploy(r)
  /\ UNCHANGED <<tables, clock, item, home, missing, before, troubled>>

Deployment(x, ch, s, r) == [asset |-> x, chain |-> ch, symbol |-> s, run |-> r]

(* Fault: the chain is not looked up. *)
DeployableAnywhere(x, ch) ==
  \A d \in deployments : d.asset # x \/ d.chain # ch

(* CreateAssetDeployment takes one deployment per asset and chain, on a    *)
(* chain that is there.                                                    *)
Deployable(x, ch) ==
  /\ ch \in chains
  /\ \A d \in deployments : d.asset # x \/ d.chain # ch

HasHome(r, w) == \E x \in assets : <<w[1], x>> \in home[r]

(***************************************************************************)
(* DeploymentSeeder lists the deployments of the asset before it makes one *)
(* and leaves a chain alone that it finds there.  A list that fails counts *)
(* as one that shows nothing.                                              *)
(***************************************************************************)
ListDeployments(r, w) ==
  /\ Kind[r] = "search"
  /\ phase[r] = "deployments" /\ w \in todo[r]
  /\ missing[r] = {} /\ HasHome(r, w)
  /\ LET shown == \E d \in deployments :
                    <<w[1], d.asset>> \in home[r] /\ d.chain = w[2]
     IN  \/ /\ shown
            /\ todo' = [todo EXCEPT ![r] = @ \ {w}]
            /\ missing' = missing
         \/ /\ ~ shown \/ CallsFail
            /\ missing' = [missing EXCEPT ![r] = {w}]
            /\ todo' = todo
  /\ UNCHANGED <<tables, clock, phase, item, home, before, troubled>>

(* What a run asks the service to deploy, or passes over for want of an    *)
(* asset; a run of main asks without a list.                               *)
Deploys(r, w) ==
  /\ phase[r] = "deployments" /\ w \in todo[r]
  /\ missing[r] \subseteq {w}
  /\ Kind[r] = "search" /\ HasHome(r, w) => w \in missing[r]

(* The service refuses on what is there now; a call that fails and a       *)
(* symbol without an asset are left behind.                                *)
SeedDeployment(r, w) ==
  /\ Deploys(r, w)
  /\ todo' = [todo EXCEPT ![r] = @ \ {w}]
  /\ missing' = [missing EXCEPT ![r] = {}]
  /\ \/ \E x \in assets :
          /\ <<w[1], x>> \in home[r] /\ Deployable(x, w[2])
          /\ deployments' = deployments \cup {Deployment(x, w[2], w[1], r)}
     \/ /\ \/ CallsFail
           \/ \A x \in assets : <<w[1], x>> \in home[r] => ~ Deployable(x, w[2])
        /\ deployments' = deployments
  /\ UNCHANGED <<chains, assets, clock, phase, item, home, before, troubled>>

EndDeployments(r) ==
  /\ phase[r] = "deployments" /\ todo[r] = {}
  /\ Stop(r, "done")

(* The tool is interrupted. *)
Die(r) ==
  /\ phase[r] \notin {"new", "done", "dead"}
  /\ Stop(r, "dead")

-------------------------------------------------------------------------------

Go(r) ==
  \/ \E ch \in Chains : SeedChain(r, ch)
  \/ \E s \in Symbols : TakeAsset(r, s) \/ SearchAsset(r, s) \/ SearchHome(r, s)
  \/ \E w \in Wanted : ListDeployments(r, w) \/ SeedDeployment(r, w)
  \/ EndChains(r) \/ InsertAsset(r) \/ EndAssets(r)
  \/ ListHomes(r) \/ ListFails(r) \/ EndSearch(r) \/ EndDeployments(r)

Next == \E r \in Runs : Start(r) \/ Go(r) \/ Die(r)

Spec == Init /\ [][Next]_vars

-------------------------------------------------------------------------------

AssetType == [symbol : Symbols, created : 1..clock, run : Runs]
ItemType == [symbol : Symbols, created : 1..clock]

MaxCalls == Cardinality(Runs) * Cardinality(Symbols)

TablesTyped ==
  /\ chains \subseteq Chains
  /\ assets \subseteq AssetType
  /\ deployments \subseteq
       [asset : assets, chain : chains, symbol : Symbols, run : Runs]
  /\ clock \in 0..MaxCalls
  /\ home \in [Runs -> SUBSET (Symbols \X assets)]
  /\ before \in [Runs -> SUBSET assets]
  /\ troubled \subseteq Runs

RunsTyped ==
  /\ phase \in [Runs -> Phases]
  /\ todo \in [Runs -> SUBSET (Chains \cup Symbols \cup Wanted)]
  /\ item \in [Runs -> ItemType \cup {Nothing}]
  /\ missing \in [Runs -> SUBSET Wanted]
  /\ \A r \in Runs :
       /\ phase[r] \in {"new", "done", "dead"} => todo[r] = {}
       /\ phase[r] = "chains" => todo[r] \subseteq Chains
       /\ phase[r] \in {"assets", "insert", "list"} => todo[r] \subseteq Symbols
       /\ phase[r] = "deployments" => todo[r] \subseteq Wanted
       /\ phase[r] = "insert" => item[r] \in ItemType

TypeOK == TablesTyped /\ RunsTyped

(***************************************************************************)
(* A run makes an asset of each symbol at most once, whatever its calls    *)
(* answer: two assets of one symbol come from two runs.                    *)
(***************************************************************************)
OncePerRun ==
  \A x, y \in assets : x.symbol = y.symbol /\ x.run = y.run => x = y

(***************************************************************************)
(* A run that searches does not create again what was there when it began, *)
(* unless one of its searches failed or was cut to a page.  (A run that does *)
(* not search always does: the service has no unique symbols and answers   *)
(* no call with AlreadyExists.)                                            *)
(***************************************************************************)
RerunsSkip ==
  \A x, y \in assets :
    x # y /\ x.symbol = y.symbol /\ Kind[y.run] = "search" /\ x \in before[y.run]
      => y.run \in troubled

(***************************************************************************)
(* A run of main deploys a symbol on an asset of that symbol, and on the   *)
(* oldest one there was when it began, unless its list was cut: repeated   *)
(* runs duplicate the assets but do not scatter their deployments.  (Of a  *)
(* run that searches nothing of the kind is true: its search for one       *)
(* symbol returns others too, and it takes the first.)                     *)
(***************************************************************************)
IsHome(x, s, r) ==
  /\ x.symbol = s
  /\ r \in troubled
       \/ \A y \in before[r] : y.symbol = s => x.created <= y.created

DeploymentsFindHome ==
  \A d \in deployments :
    Kind[d.run] = "file" => IsHome(d.asset, d.symbol, d.run)

(***************************************************************************)
(* The inductive invariant.  A run that has passed a symbol has used the   *)
(* one call it makes for it, so that the clock counts no more than the     *)
(* calls used, and an asset of the run is not the one it is about to       *)
(* insert.  What the insert and the deployments will rely on was true when *)
(* the page was read and stays true, as rows are only added and the        *)
(* history of a run is fixed when it starts.                               *)
(***************************************************************************)
IsTaken(r, s) ==
  /\ phase[r] \notin {"new", "chains"}
  /\ phase[r] \in {"assets", "insert"} => s \notin todo[r]

Used == {u \in Runs \X Symbols : IsTaken(u[1], u[2])}

ClockCountsCalls == clock <= Cardinality(Used)

AssetsAreTaken ==
  \A x \in assets :
    /\ IsTaken(x.run, x.symbol)
    /\ phase[x.run] = "insert" => item[x.run].symbol # x.symbol

InsertsAreNeeded ==
  \A r \in Runs :
    phase[r] = "insert" =>
      /\ IsTaken(r, item[r].symbol)
      /\ Kind[r] = "search" /\ (\E x \in before[r] : x.symbol = item[r].symbol)
           => r \in troubled

HomesFit ==
  \A r \in Runs : \A h \in home[r] :
    phase[r] # "new" /\ (Kind[r] = "file" => IsHome(h[2], h[1], r))

DeploymentsAreLate == \A d \in deployments : phase[d.run] # "new"

IInv ==
  /\ TypeOK /\ ClockCountsCalls /\ AssetsAreTaken /\ InsertsAreNeeded
  /\ OncePerRun /\ RerunsSkip
  /\ HomesFit /\ DeploymentsAreLate /\ DeploymentsFindHome
===============================================================================
