--------------------------- MODULE RelationshipGraph ---------------------------
(***************************************************************************)
(* AssetManager.CreateAssetRelationship and the rows it works on: the      *)
(* tables assets and relationships in Postgres, written by concurrent      *)
(* gRPC handlers.  A handler reads the two assets (through the Redis       *)
(* cache), searches the graph of the relationship type breadth first for a *)
(* path back, one query per visited asset, and then inserts the row.       *)
(* Nothing holds a lock or a transaction across those statements, so every *)
(* statement is an action of its own.                                      *)
(*                                                                         *)
(* Not modelled: checks of the request's shape (ids present, type not      *)
(* UNSPECIFIED), which refuse before any state is read, and the event      *)
(* published after the insert.                                             *)
(***************************************************************************)
EXTENDS TypedGraphs, FiniteSets, Naturals

CONSTANTS
  Callers,        \* concurrent CreateAssetRelationship handlers
  Admitted,       \* types whose stored label chk_relationship_type admits
  PageLimit,      \* RelationshipFilter.Limit of the search's queries (100)
  DatabaseFails   \* whether a statement may return an error

ASSUME ConstantsAssumption ==
  /\ Admitted \subseteq Types
  /\ PageLimit \in Nat \ {0}
  /\ DatabaseFails \in BOOLEAN

VARIABLES
  assets,         \* ids of the rows of table assets
  retired,        \* ids of deleted rows: Redis may still serve them
  relationships,  \* rows <<from_asset_id, to_asset_id, relationship_type>>
  pc,             \* where each handler is
  req,            \* the handler's request, a triple like a row, or NoRequest
  visited,        \* the search's visited map
  frontier,       \* the search's queue
  reply,          \* how the handler last answered
  gap,            \* history: the running search may have missed an edge
  lost,           \* history: an edge of its type was deleted while it ran
  unchecked       \* history: rows inserted after a search with a gap

graphVars == <<assets, relationships>>
handlerVars == <<pc, req, visited, frontier, reply, gap, lost>>
vars == <<assets, retired, relationships, pc, req, visited, frontier, reply,
          gap, lost, unchecked>>

Triples == Assets \X Assets \X Types

NoRequest == <<>>

Stages == {"idle", "getFrom", "getTo", "search", "check", "insert"}

(* The handler holds the verdict of a search, or is about to. *)
Deciding(c) == pc[c] \in {"search", "check", "insert"}

Replies ==
  {"none", "OK", "NotFound", "SelfReference", "Cycle", "Internal"}

From(c) == req[c][1]
To(c) == req[c][2]
Type(c) == req[c][3]

-------------------------------------------------------------------------------

Init ==
  /\ assets = {}
  /\ retired = {}
  /\ relationships = {}
  /\ pc = [c \in Callers |-> "idle"]
  /\ req = [c \in Callers |-> NoRequest]
  /\ visited = [c \in Callers |-> {}]
  /\ frontier = [c \in Callers |-> {}]
  /\ reply = [c \in Callers |-> "none"]
  /\ gap = [c \in Callers |-> FALSE]
  /\ lost = [c \in Callers |-> FALSE]
  /\ unchecked = {}

-------------------------------------------------------------------------------
(* Assets come and go under the handlers.                                  *)

(* CreateAsset: a row with a fresh UUID. *)
CreateAsset(a) ==
  /\ a \notin assets \cup retired
  /\ assets' = assets \cup {a}
  /\ UNCHANGED <<retired, relationships, unchecked>>
  /\ UNCHANGED handlerVars

(* Fault: only from_asset_id cascades. *)
TouchingFrom(rel, a) == {r \in rel : a = r[1]}

(* The rows that refer to an asset by either foreign key. *)
Touching(rel, a) == {r \in rel : a \in {r[1], r[2]}}

(***************************************************************************)
(* DeleteAsset: the handler has found the asset (a cached copy will do)    *)
(* and its DELETE affects the row; both foreign keys of relationships      *)
(* cascade.                                                                *)
(***************************************************************************)
DeleteAsset(a) ==
  /\ a \in assets
  /\ assets' = assets \ {a}
  /\ retired' = retired \cup {a}
  /\ relationships' = relationships \ Touching(relationships, a)
  /\ unchecked' = unchecked \ Touching(unchecked, a)
  /\ lost' = [c \in Callers |->
                \/ lost[c]
                \/ /\ pc[c] = "search"
                   /\ \E r \in Touching(relationships, a) : r[3] = Type(c)]
  /\ UNCHANGED <<pc, req, visited, frontier, reply, gap>>

-------------------------------------------------------------------------------
(* CreateAssetRelationship, handler c.                                     *)

(* Fault: the answer to the previous request is still there. *)
ReceiveKeepingReply(c, triple) ==
  /\ pc[c] = "idle"
  /\ pc' = [pc EXCEPT ![c] = "getFrom"]
  /\ req' = [req EXCEPT ![c] = triple]
  /\ UNCHANGED <<visited, frontier, reply, gap, lost>>
  /\ UNCHANGED <<assets, retired, relationships, unchecked>>

Receive(c, triple) ==
  /\ pc[c] = "idle"
  /\ pc' = [pc EXCEPT ![c] = "getFrom"]
  /\ req' = [req EXCEPT ![c] = triple]
  /\ reply' = [reply EXCEPT ![c] = "none"]
  /\ UNCHANGED <<visited, frontier, gap, lost>>
  /\ UNCHANGED <<assets, retired, relationships, unchecked>>

(* The handler returns; its locals are gone. *)
Answer(c, r) ==
  /\ pc' = [pc EXCEPT ![c] = "idle"]
  /\ req' = [req EXCEPT ![c] = NoRequest]
  /\ reply' = [reply EXCEPT ![c] = r]
  /\ visited' = [visited EXCEPT ![c] = {}]
  /\ frontier' = [frontier EXCEPT ![c] = {}]
  /\ lost' = [lost EXCEPT ![c] = FALSE]

(* The handler returns without having written anything. *)
Refuse(c, r) ==
  /\ Answer(c, r)
  /\ gap' = [gap EXCEPT ![c] = FALSE]
  /\ UNCHANGED <<assets, retired, relationships, unchecked>>

(***************************************************************************)
(* CachedRepository.GetAsset finds a live row, and may find a deleted one  *)
(* that is still cached; an error of any kind reads as NotFound.           *)
(***************************************************************************)
Findable(a) == a \in assets \cup retired
Missable(a) == a \notin assets \/ DatabaseFails

GetFrom(c) ==
  /\ pc[c] = "getFrom"
  /\ Findable(From(c))
  /\ pc' = [pc EXCEPT ![c] = "getTo"]
  /\ UNCHANGED <<req, visited, frontier, reply, gap, lost>>
  /\ UNCHANGED <<assets, retired, relationships, unchecked>>

NotFound(c) ==
  /\ \/ pc[c] = "getFrom" /\ Missable(From(c))
     \/ pc[c] = "getTo" /\ Missable(To(c))
  /\ Refuse(c, "NotFound")

RefuseSelf(c) ==
  /\ pc[c] = "getTo"
  /\ Findable(To(c))
  /\ From(c) = To(c)
  /\ Refuse(c, "SelfReference")

(* The second asset is found and detectRelationshipCycle starts. *)
StartSearch(c) ==
  /\ pc[c] = "getTo"
  /\ Findable(To(c))
  /\ From(c) # To(c)
  /\ pc' = [pc EXCEPT ![c] = "search"]
  /\ visited' = [visited EXCEPT ![c] = {To(c)}]
  /\ frontier' = [frontier EXCEPT ![c] = {To(c)}]
  /\ UNCHANGED <<req, reply, gap, lost>>
  /\ UNCHANGED <<assets, retired, relationships, unchecked>>

(***************************************************************************)
(* The page a query returns: all the successors, or PageLimit of them.     *)
(* Which ones depends on created_at, stamped by the inserting handlers'    *)
(* clocks before they insert, so any choice of that size can occur.        *)
(***************************************************************************)
Pages(S) ==
  IF Cardinality(S) <= PageLimit
    THEN {S}
    ELSE {P \in SUBSET S : Cardinality(P) = PageLimit}

(* Fault: successors are marked visited but not queued. *)
VisitUnqueued(c, a, next, page) ==
  /\ visited' = [visited EXCEPT ![c] = @ \cup page]
  /\ frontier' = [frontier EXCEPT ![c] = @ \ {a}]
  /\ gap' = [gap EXCEPT ![c] = @ \/ page # next]

(* Fault: visited successors are queued again. *)
VisitAgain(c, a, next, page) ==
  /\ visited' = [visited EXCEPT ![c] = @ \cup page]
  /\ frontier' = [frontier EXCEPT ![c] = (@ \ {a}) \cup page]
  /\ gap' = [gap EXCEPT ![c] = @ \/ page # next]

(***************************************************************************)
(* One round of the search: an asset leaves the queue and its successors,  *)
(* as far as the page shows them, join it unless visited.  The queue is a  *)
(* set: the order in which it is served changes neither the verdict nor    *)
(* what the search has seen when it ends.                                  *)
(***************************************************************************)
Visit(c, a, next, page) ==
  /\ visited' = [visited EXCEPT ![c] = @ \cup page]
  /\ frontier' = [frontier EXCEPT ![c] = (@ \ {a}) \cup (page \ visited[c])]
  /\ gap' = [gap EXCEPT ![c] = @ \/ page # next]

Predecessors(ty, b) == {a \in Assets : <<a, b, ty>> \in relationships}

(* Fault: the query filters on to_asset_id. *)
ExpandBackwards(c) ==
  /\ pc[c] = "search"
  /\ \E a \in frontier[c] \ {From(c)} :
       LET next == Predecessors(Type(c), a) IN
       \E page \in Pages(next) : Visit(c, a, next, page)
  /\ UNCHANGED <<pc, req, reply, lost>>
  /\ UNCHANGED <<assets, retired, relationships, unchecked>>

(* The next round of the search: one query, on from_asset_id and type. *)
Expand(c) ==
  /\ pc[c] = "search"
  /\ \E a \in frontier[c] \ {From(c)} :
       LET next == Successors(relationships, Type(c), a) IN
       \E page \in Pages(next) : Visit(c, a, next, page)
  /\ UNCHANGED <<pc, req, reply, lost>>
  /\ UNCHANGED <<assets, retired, relationships, unchecked>>

(* The path leads back to the from asset. *)
RefuseCycle(c) ==
  /\ pc[c] = "search"
  /\ From(c) \in frontier[c]
  /\ Refuse(c, "Cycle")

(* Fault: the loop runs while len(queue) > 1. *)
EndSearchEarly(c) ==
  /\ pc[c] = "search"
  /\ Cardinality(frontier[c]) <= 1
  /\ pc' = [pc EXCEPT ![c] = "check"]
  /\ UNCHANGED <<req, visited, frontier, reply, gap, lost>>
  /\ UNCHANGED <<assets, retired, relationships, unchecked>>

(* The queue is empty: no cycle found. *)
EndSearch(c) ==
  /\ pc[c] = "search"
  /\ frontier[c] = {}
  /\ pc' = [pc EXCEPT ![c] = "check"]
  /\ UNCHANGED <<req, visited, frontier, reply, gap, lost>>
  /\ UNCHANGED <<assets, retired, relationships, unchecked>>

(***************************************************************************)
(* A query of the search fails: the loop is left and the verdict is "no    *)
(* cycle".                                                                 *)
(***************************************************************************)
AbandonSearch(c) ==
  /\ DatabaseFails
  /\ pc[c] = "search"
  /\ frontier[c] \ {From(c)} # {}
  /\ pc' = [pc EXCEPT ![c] = "check"]
  /\ gap' = [gap EXCEPT ![c] = TRUE]
  /\ UNCHANGED <<req, visited, frontier, reply, lost>>
  /\ UNCHANGED <<assets, retired, relationships, unchecked>>

(***************************************************************************)
(* PostgresRepository.CreateAssetRelationship: the two EXISTS queries,     *)
(* then the INSERT, whose constraints are checked again by the database.   *)
(***************************************************************************)
CheckRows(c) ==
  /\ pc[c] = "check"
  /\ {From(c), To(c)} \subseteq assets
  /\ pc' = [pc EXCEPT ![c] = "insert"]
  /\ UNCHANGED <<req, visited, frontier, reply, gap, lost>>
  /\ UNCHANGED <<assets, retired, relationships, unchecked>>

(* Fault: the EXISTS queries are relied on, the foreign keys are not there. *)
InsertableUnreferenced(triple) ==
  triple \notin relationships /\ triple[3] \in Admitted

(* The foreign keys and the constraints of table relationships. *)
Insertable(triple) ==
  /\ {triple[1], triple[2]} \subseteq assets
  /\ triple[1] # triple[2]
  /\ triple \notin relationships
  /\ triple[3] \in Admitted

(* The row commits; the acknowledgement may be lost on the way back. *)
Insert(c) ==
  /\ pc[c] = "insert"
  /\ Insertable(req[c])
  /\ relationships' = relationships \cup {req[c]}
  /\ unchecked' = IF gap[c] THEN unchecked \cup {req[c]} ELSE unchecked
  /\ gap' = [d \in Callers |->
               /\ d # c
               /\ gap[d] \/ (Deciding(d) /\ Type(d) = Type(c))]
  /\ \/ Answer(c, "OK")
     \/ DatabaseFails /\ Answer(c, "Internal")
  /\ UNCHANGED <<assets, retired>>

InsertFails(c) ==
  /\ \/ pc[c] = "check" /\ ~ {From(c), To(c)} \subseteq assets
     \/ pc[c] = "insert" /\ ~ Insertable(req[c])
     \/ pc[c] \in {"check", "insert"} /\ DatabaseFails
  /\ Refuse(c, "Internal")

-------------------------------------------------------------------------------

(* A step of the handler that does not wait for a request. *)
Handle(c) ==
  \/ GetFrom(c) \/ NotFound(c) \/ RefuseSelf(c) \/ StartSearch(c)
  \/ Expand(c) \/ RefuseCycle(c) \/ EndSearch(c) \/ AbandonSearch(c)
  \/ CheckRows(c) \/ Insert(c) \/ InsertFails(c)

Next ==
  \/ \E a \in Assets : CreateAsset(a) \/ DeleteAsset(a)
  \/ \E c \in Callers, triple \in Triples : Receive(c, triple)
  \/ \E c \in Callers : Handle(c)

Spec == Init /\ [][Next]_vars

(* Go keeps running a handler that has a statement to execute. *)
FairSpec == Spec /\ \A c \in Callers : WF_vars(Handle(c))

-------------------------------------------------------------------------------

TypeOK ==
  /\ assets \subseteq Assets
  /\ retired \subseteq Assets
  /\ relationships \subseteq Triples
  /\ unchecked \subseteq relationships
  /\ pc \in [Callers -> Stages]
  /\ req \in [Callers -> Triples \cup {NoRequest}]
  /\ \A c \in Callers : pc[c] # "idle" => req[c] \in Triples /\ reply[c] = "none"
  /\ visited \in [Callers -> SUBSET Assets]
  /\ frontier \in [Callers -> SUBSET Assets]
  /\ reply \in [Callers -> Replies]
  /\ gap \in [Callers -> BOOLEAN]
  /\ lost \in [Callers -> BOOLEAN]

(***************************************************************************)
(* A relationship joins two distinct registered assets, whatever was       *)
(* deleted between the handler's reads, its EXISTS queries and its INSERT. *)
(***************************************************************************)
ReferentialIntegrity ==
  \A r \in relationships : {r[1], r[2]} \subseteq assets /\ r[1] # r[2]

(***************************************************************************)
(* What a search knows, while rows come and go under it.  It has not       *)
(* passed through the from asset; unless it has a gap, every edge now in   *)
(* the table that leaves an asset it has expanded leads to one it has      *)
(* visited; and unless rows were deleted, it has only visited assets that  *)
(* the to asset still reaches.                                             *)
(***************************************************************************)
SearchKnows(c) ==
  /\ From(c) # To(c)
  /\ To(c) \in visited[c]
  /\ frontier[c] \subseteq visited[c]
  /\ From(c) \in visited[c] => From(c) \in frontier[c]
  /\ gap[c] \/ \A a \in visited[c] \ frontier[c] :
                  Successors(relationships, Type(c), a) \subseteq visited[c]
  /\ pc[c] # "search" => gap[c] \/ frontier[c] = {}
  /\ pc[c] = "search" => lost[c] \/ \A a \in visited[c] :
                            Reaches(relationships, Type(c), To(c), a)

SearchInv == \A c \in Callers : Deciding(c) => SearchKnows(c)

(***************************************************************************)
(* The cycle check does prevent cycles among the rows whose search could   *)
(* see everything: every cycle of the table holds a row inserted after a   *)
(* search that failed, was cut at the page limit, or ran while another     *)
(* handler inserted.                                                       *)
(***************************************************************************)
CyclesNeedAGap == Acyclic(relationships \ unchecked)

(***************************************************************************)
(* What the comment of detectRelationshipCycle promises: no cycle A->B->C  *)
(* ->A at all.                                                             *)
(***************************************************************************)
NoCycles == Acyclic(relationships)

(* The inductive invariant of the proofs. *)
IInv == TypeOK /\ SearchInv /\ ReferentialIntegrity /\ CyclesNeedAGap

(***************************************************************************)
(* One handler at a time, every statement answered and no query cut at its *)
(* limit: then the handler-level specification implements AssetGraph, edge *)
(* by edge.                                                                *)
(***************************************************************************)
Serial ==
  /\ \A c, d \in Callers : c = d
  /\ ~ DatabaseFails
  /\ IsFiniteSet(Assets) /\ Cardinality(Assets) <= PageLimit

Graph == INSTANCE AssetGraph WITH
  Assets <- Assets, Types <- Types,
  assets <- assets, relationships <- relationships

ImplementsAssetGraph == Graph!Spec

(***************************************************************************)
(* With handlers that overlap, statements that fail and queries that are   *)
(* cut, the rows whose searches had no gap still implement AssetGraph      *)
(* among themselves: such a row is never let in where it closes a cycle of *)
(* such rows, it goes only with one of its assets, and goes at once.       *)
(***************************************************************************)
Checked == INSTANCE AssetGraph WITH
  Assets <- Assets, Types <- Types,
  assets <- assets, relationships <- relationships \ unchecked

ImplementsCheckedGraph == Checked!Spec

(***************************************************************************)
(* The search gives no false alarm: a handler is refused for a cycle only  *)
(* when its to asset reaches its from asset, unless rows it had already    *)
(* followed were deleted while it searched.                                *)
(***************************************************************************)
RefusalsJustified ==
  [][\A c \in Callers :
       (pc[c] = "search" /\ reply'[c] = "Cycle" /\ ~ lost[c])
         => Reaches(relationships, Type(c), To(c), From(c))]_vars


(***************************************************************************)
(* Every request is answered: the search ends even when the table holds a  *)
(* cycle and rows disappear under it.                                      *)
(***************************************************************************)
RequestsAreAnswered ==
  \A c \in Callers : (pc[c] # "idle") ~> (pc[c] = "idle")

===============================================================================
