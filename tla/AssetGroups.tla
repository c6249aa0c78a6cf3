------------------------------ MODULE AssetGroups ------------------------------
(***************************************************************************)
(* Asset groups and their members (AssetManager, repository/asset_group.go)*)
(* and the connection pool their statements run on.  A statement takes a   *)
(* connection and gives it back; two handlers keep one while they ask for  *)
(* another: ListAssetGroups, which reads the members of a group inside the *)
(* loop over the rows of its first query, and WithTransaction, whose       *)
(* repository runs its statements on the pool and not on the transaction.  *)
(*                                                                         *)
(* A group stands for its unique name; nothing deletes groups.  Weights    *)
(* and the shape of names are left out.                                    *)
(***************************************************************************)
EXTENDS FiniteSets, Naturals

CONSTANTS
  Assets,
  Groups,
  Callers,
  Requests,       \* what callers may ask for
  PoolSize,       \* max_conns
  Patient,        \* callers whose context has no deadline
  DatabaseFails   \* whether a statement may return an error

Operations == {"Create", "Add", "Remove", "Get", "List", "Transact"}

(* A request; assets holds the members of a group to create, or the asset. *)
RequestType == [op : Operations, group : Groups, assets : SUBSET Assets]

ASSUME ConstantsAssumption ==
  /\ Requests \subseteq RequestType
  /\ \A q \in Requests : q.op \in {"Add", "Remove", "Transact"} => q.assets # {}
  /\ PoolSize \in Nat
  /\ Patient \subseteq Callers
  /\ DatabaseFails \in BOOLEAN

VARIABLES
  assets,    \* ids of the rows of table assets
  retired,   \* ids of deleted assets: Redis may still serve them
  groups,    \* rows of table asset_groups
  members,   \* rows <<group_id, asset_id>> of table group_members
  pc,        \* where each handler is
  req,       \* its request, or NoRequest
  reply,     \* how the caller was last answered
  held,      \* handlers that keep a connection between statements
  todo,      \* groups whose members a reader has still to query
  got,       \* memberships it has read
  scope,     \* history: the groups its first query returned
  seen,      \* history: memberships that were there at some time since
  kept       \* history: memberships that were there all the time since

tables == <<assets, retired, groups, members>>
handler == <<pc, req, reply, held>>
reading == <<todo, got, scope, seen, kept>>
vars == <<tables, handler, reading>>

NoRequest == [op |-> "none"]

Stages == {"idle", "begin", "group", "members", "asset", "check", "write", "end"}

Replies == {"none", "OK", "NotFound", "Internal"}

Memberships == Groups \X Assets

-------------------------------------------------------------------------------

Init ==
  /\ assets = {} /\ retired = {} /\ groups = {} /\ members = {}
  /\ pc = [c \in Callers |-> "idle"]
  /\ req = [c \in Callers |-> NoRequest]
  /\ reply = [c \in Callers |-> "none"]
  /\ held = {}
  /\ todo = [c \in Callers |-> {}]
  /\ got = [c \in Callers |-> {}]
  /\ scope = [c \in Callers |-> {}]
  /\ seen = [c \in Callers |-> {}]
  /\ kept = [c \in Callers |-> {}]

(* The table of members changes under the readers. *)
Write(rows) ==
  /\ members' = rows
  /\ seen' = [c \in Callers |->
                IF pc[c] = "members" THEN seen[c] \cup rows ELSE seen[c]]
  /\ kept' = [c \in Callers |->
                IF pc[c] = "members" THEN kept[c] \cap rows ELSE kept[c]]
  /\ UNCHANGED <<todo, got, scope>>

(* CreateAsset: a row with a fresh UUID. *)
CreateAsset(a) ==
  /\ a \notin assets \cup retired
  /\ assets' = assets \cup {a}
  /\ UNCHANGED <<retired, groups, members, handler, reading>>

(* Fault: the reference of a membership to its asset does not cascade. *)
DeleteAssetAlone(a) ==
  /\ a \in assets
  /\ assets' = assets \ {a}
  /\ retired' = retired \cup {a}
  /\ UNCHANGED <<groups, members, handler, reading>>

(* Memberships go with their asset. *)
DeleteAsset(a) ==
  /\ a \in assets
  /\ assets' = assets \ {a}
  /\ retired' = retired \cup {a}
  /\ Write({m \in members : m[2] # a})
  /\ UNCHANGED <<groups, handler>>

-------------------------------------------------------------------------------
(* A request, handler c.                                                   *)

FirstStage(q) ==
  CASE q.op = "Create" -> "asset"
    [] q.op = "Transact" -> "begin"
    [] OTHER -> "group"

Receive(c, q) ==
  /\ pc[c] = "idle"
  /\ pc' = [pc EXCEPT ![c] = FirstStage(q)]
  /\ req' = [req EXCEPT ![c] = q]
  /\ reply' = [reply EXCEPT ![c] = "none"]
  /\ UNCHANGED <<tables, held, reading>>

(* A connection is free: the statement can run. *)
Connected == Cardinality(held) < PoolSize

Step(c, stage) ==
  /\ pc' = [pc EXCEPT ![c] = stage]
  /\ UNCHANGED <<req, reply>>

(* Fault: the rows of the first query are not closed. *)
AnswerLeaking(c, r) ==
  /\ pc' = [pc EXCEPT ![c] = "idle"]
  /\ req' = [req EXCEPT ![c] = NoRequest]
  /\ reply' = [reply EXCEPT ![c] = r]
  /\ held' = held

(* The handler returns, with rows closed and its transaction ended. *)
Answer(c, r) ==
  /\ pc' = [pc EXCEPT ![c] = "idle"]
  /\ req' = [req EXCEPT ![c] = NoRequest]
  /\ reply' = [reply EXCEPT ![c] = r]
  /\ held' = held \ {c}

(* The first query of a reader: the groups it will go through. *)
StartReading(c, names) ==
  /\ todo' = [todo EXCEPT ![c] = names]
  /\ got' = [got EXCEPT ![c] = {}]
  /\ scope' = [scope EXCEPT ![c] = names]
  /\ seen' = [seen EXCEPT ![c] = members]
  /\ kept' = [kept EXCEPT ![c] = members]

StopReading(c) ==
  /\ todo' = [todo EXCEPT ![c] = {}] /\ got' = [got EXCEPT ![c] = {}]
  /\ scope' = [scope EXCEPT ![c] = {}]
  /\ seen' = [seen EXCEPT ![c] = {}] /\ kept' = [kept EXCEPT ![c] = {}]

Refuse(c, r) == Answer(c, r) /\ StopReading(c) /\ UNCHANGED tables

(* GetAssetGroup, for itself or on behalf of an addition or a removal. *)
GetAssetGroup(c) ==
  /\ pc[c] = "group" /\ req[c].op # "List"
  /\ Connected
  /\ req[c].group \in groups
  /\ StartReading(c, {req[c].group})
  /\ Step(c, "members")
  /\ UNCHANGED <<tables, held>>

(* ListAssetGroups keeps its connection while it goes through the groups. *)
ListAssetGroups(c) ==
  /\ pc[c] = "group" /\ req[c].op = "List"
  /\ Connected
  /\ \/ /\ groups # {}
        /\ StartReading(c, groups)
        /\ held' = held \cup {c}
        /\ Step(c, "members")
     \/ groups = {} /\ Answer(c, "OK") /\ UNCHANGED reading
  /\ UNCHANGED tables

(* Fault: a group whose members cannot be read is listed without them. *)
GetGroupMembersOrNone(c, g) ==
  /\ pc[c] = "members" /\ g \in todo[c]
  /\ Connected
  /\ todo' = [todo EXCEPT ![c] = @ \ {g}]
  /\ \/ got' = [got EXCEPT ![c] = @ \cup {m \in members : m[1] = g}]
     \/ DatabaseFails /\ got' = got
  /\ UNCHANGED <<tables, handler, scope, seen, kept>>

(* getGroupMembers, a query of its own for every group. *)
GetGroupMembers(c, g) ==
  /\ pc[c] = "members" /\ g \in todo[c]
  /\ Connected
  /\ todo' = [todo EXCEPT ![c] = @ \ {g}]
  /\ got' = [got EXCEPT ![c] = @ \cup {m \in members : m[1] = g}]
  /\ UNCHANGED <<tables, handler, scope, seen, kept>>

GroupRead(c) ==
  /\ pc[c] = "members" /\ todo[c] = {}
  /\ \/ req[c].op \in {"Get", "List"} /\ Answer(c, "OK")
     \/ req[c].op = "Add" /\ Step(c, "asset") /\ held' = held
     \/ req[c].op = "Remove" /\ Step(c, "write") /\ held' = held
  /\ StopReading(c)
  /\ UNCHANGED tables

(* The assets are looked up through the cache. *)
GetAsset(c) ==
  /\ pc[c] = "asset"
  /\ req[c].assets \subseteq assets \cup retired
  /\ Step(c, IF req[c].op = "Create" THEN "write" ELSE "check")
  /\ UNCHANGED <<tables, held, reading>>

NotFound(c) ==
  /\ Connected
  /\ \/ /\ pc[c] = "group" /\ req[c].op # "List"
        /\ req[c].group \notin groups \/ DatabaseFails
     \/ /\ pc[c] = "members" /\ req[c].op # "List"
        /\ todo[c] # {} /\ DatabaseFails
     \/ /\ pc[c] = "asset"
        /\ ~ req[c].assets \subseteq assets \/ DatabaseFails
  /\ Refuse(c, "NotFound")

(* The EXISTS queries of the repository's AddAssetToGroup. *)
CheckRows(c) ==
  /\ pc[c] = "check"
  /\ Connected
  /\ req[c].group \in groups /\ req[c].assets \subseteq assets
  /\ Step(c, "write")
  /\ UNCHANGED <<tables, held, reading>>

(* The write has committed; the acknowledgement may be lost. *)
Acknowledge(c) ==
  \/ Answer(c, "OK")
  \/ DatabaseFails /\ Answer(c, "Internal")

(* Only the group's own row is written: the members are dropped. *)
CreateAssetGroup(c) ==
  /\ pc[c] = "write" /\ req[c].op = "Create"
  /\ Connected
  /\ req[c].group \notin groups
  /\ groups' = groups \cup {req[c].group}
  /\ Acknowledge(c)
  /\ UNCHANGED <<assets, retired, members, reading>>

New(q) == {q.group} \X q.assets

(* Fault: the foreign keys are not there. *)
InsertableUnreferenced(q) == New(q) \cap members = {}

(* The foreign keys and UNIQUE(group_id, asset_id). *)
Insertable(q) ==
  /\ q.group \in groups /\ q.assets \subseteq assets
  /\ New(q) \cap members = {}

(* The row commits at once, in a transaction's function too. *)
AddAssetToGroup(c) ==
  /\ pc[c] = "write" /\ req[c].op \in {"Add", "Transact"}
  /\ Connected
  /\ Insertable(req[c])
  /\ Write(members \cup New(req[c]))
  /\ \/ req[c].op = "Add" /\ Acknowledge(c)
     \/ req[c].op = "Transact" /\ Step(c, "end") /\ held' = held
  /\ UNCHANGED <<assets, retired, groups>>

(* Fault: the DELETE names the group only. *)
RemoveGroupMembers(c) ==
  /\ pc[c] = "write" /\ req[c].op = "Remove"
  /\ Connected
  /\ New(req[c]) \subseteq members
  /\ Write({m \in members : m[1] # req[c].group})
  /\ Acknowledge(c)
  /\ UNCHANGED <<assets, retired, groups>>

RemoveAssetFromGroup(c) ==
  /\ pc[c] = "write" /\ req[c].op = "Remove"
  /\ Connected
  /\ New(req[c]) \subseteq members
  /\ Write(members \ New(req[c]))
  /\ Acknowledge(c)
  /\ UNCHANGED <<assets, retired, groups>>

(***************************************************************************)
(* WithTransaction.  The transaction keeps its connection; the function    *)
(* adds a member through the repository it is given, on another one.       *)
(***************************************************************************)
Begin(c) ==
  /\ pc[c] = "begin"
  /\ Connected
  /\ held' = held \cup {c}
  /\ Step(c, "check")
  /\ UNCHANGED <<tables, reading>>

(* The function returns nil or an error: a commit or a rollback, of a      *)
(* transaction in which nothing was written.                               *)
EndTransaction(c) ==
  /\ pc[c] = "end"
  /\ Answer(c, "OK") \/ Answer(c, "Internal")
  /\ UNCHANGED <<tables, reading>>

(* A statement returns an error, or refuses. *)
Fails(c) ==
  /\ Connected
  /\ \/ pc[c] \in {"begin", "check", "write"} /\ DatabaseFails
     \/ /\ req[c].op = "List" /\ DatabaseFails
        /\ pc[c] = "group" \/ (pc[c] = "members" /\ todo[c] # {})
     \/ /\ pc[c] = "check"
        /\ ~ (req[c].group \in groups /\ req[c].assets \subseteq assets)
     \/ /\ pc[c] = "write"
        /\ \/ req[c].op = "Create" /\ req[c].group \in groups
           \/ req[c].op \in {"Add", "Transact"} /\ ~ Insertable(req[c])
           \/ req[c].op = "Remove" /\ ~ New(req[c]) \subseteq members
  /\ Refuse(c, "Internal")

(* The deadline of the request's context passes, also while it waits for   *)
(* a connection.                                                           *)
TimeOut(c) ==
  /\ c \notin Patient
  /\ pc[c] # "idle"
  /\ Refuse(c, "Internal")

-------------------------------------------------------------------------------

Handle(c) ==
  \/ GetAssetGroup(c) \/ ListAssetGroups(c) \/ GroupRead(c)
  \/ \E g \in Groups : GetGroupMembers(c, g)
  \/ GetAsset(c) \/ NotFound(c) \/ CheckRows(c)
  \/ CreateAssetGroup(c) \/ AddAssetToGroup(c) \/ RemoveAssetFromGroup(c)
  \/ Begin(c) \/ EndTransaction(c) \/ Fails(c)

Next ==
  \/ \E a \in Assets : CreateAsset(a) \/ DeleteAsset(a)
  \/ \E c \in Callers, q \in Requests : Receive(c, q)
  \/ \E c \in Callers : Handle(c) \/ TimeOut(c)

Spec == Init /\ [][Next]_vars

(* The pool serves its waiters in turn, and deadlines pass. *)
FairSpec ==
  /\ Spec
  /\ \A c \in Callers : SF_vars(Handle(c)) /\ WF_vars(TimeOut(c))

-------------------------------------------------------------------------------

(* A reader of all groups, or a transaction, between its statements. *)
Keeps(c) ==
  \/ req[c].op = "List" /\ pc[c] = "members"
  \/ req[c].op = "Transact" /\ pc[c] \in {"check", "write", "end"}

(* Connections are kept by those that need them and given back by all      *)
(* others, however they ended.                                             *)
TypeOK ==
  /\ assets \subseteq Assets /\ retired \subseteq Assets
  /\ groups \subseteq Groups
  /\ pc \in [Callers -> Stages]
  /\ req \in [Callers -> Requests \cup {NoRequest}]
  /\ reply \in [Callers -> Replies]
  /\ \A c \in Callers : pc[c] # "idle" => req[c] \in Requests
  /\ held = {c \in Callers : Keeps(c)}
  /\ Cardinality(held) <= PoolSize
  /\ members \subseteq Memberships
  /\ todo \in [Callers -> SUBSET Groups] /\ scope \in [Callers -> SUBSET Groups]
  /\ got \in [Callers -> SUBSET Memberships]
  /\ seen \in [Callers -> SUBSET Memberships]
  /\ kept \in [Callers -> SUBSET Memberships]

(***************************************************************************)
(* A membership joins a group and an asset that are registered, whatever   *)
(* was deleted between the cached lookup, the EXISTS queries and the       *)
(* INSERT, in a transaction or not.                                        *)
(***************************************************************************)
MembersExist == members \subseteq groups \X assets

(***************************************************************************)
(* GetAssetGroup and ListAssetGroups read the groups and the members of    *)
(* each in queries of their own, while members come and go.  Of the groups *)
(* they have read they show every member that was there all the time, and  *)
(* none that was there at no time.                                         *)
(***************************************************************************)
ListingsHonest ==
  \A c \in Callers :
    LET read == scope[c] \ todo[c]
    IN  /\ {m \in kept[c] : m[1] \in read} \subseteq got[c]
        /\ got[c] \subseteq seen[c]

(***************************************************************************)
(* A membership outlives everything but a removal that names it, its asset *)
(* and a failed transaction that made it: overlapping creates, additions   *)
(* and removals, timeouts and lost acknowledgements end no other.  Whether *)
(* a rollback does end it, as documented, is left open here; the code's    *)
(* does not, as the function's statements run outside the transaction.     *)
(***************************************************************************)
MembershipsLast ==
  [][\A m \in members \ members' :
       \/ m[2] \in retired'
       \/ \E c \in Callers :
            /\ \/ req[c].op = "Remove" /\ pc[c] = "write"
               \/ req[c].op = "Transact" /\ reply'[c] = "Internal"
            /\ m \in New(req[c]) /\ pc'[c] = "idle"]_vars

(***************************************************************************)
(* Every request is answered while fewer than PoolSize handlers that keep  *)
(* a connection and ask for another have no deadline: those that have one  *)
(* break the circle.  With as many as the pool has connections the service *)
(* stands still for good.                                                  *)
(***************************************************************************)
RequestsAreAnswered == \A c \in Callers : (pc[c] # "idle") ~> (pc[c] = "idle")
-------------------------------------------------------------------------------
(* The inductive invariant of the proofs.                                  *)

(* The stages an operation goes through. *)
Route(op) ==
  CASE op = "Create" -> {"asset", "write"}
    [] op = "Add" -> {"group", "members", "asset", "check", "write"}
    [] op = "Remove" -> {"group", "members", "write"}
    [] op \in {"Get", "List"} -> {"group", "members"}
    [] op = "Transact" -> {"begin", "check", "write", "end"}

OnRoute == \A c \in Callers : pc[c] # "idle" => pc[c] \in Route(req[c].op)

(* What a reader knows between its queries; nobody else remembers any. *)
ReadersKnow ==
  \A c \in Callers :
    /\ todo[c] \subseteq scope[c]
    /\ pc[c] = "members" => kept[c] \subseteq members /\ members \subseteq seen[c]
    /\ pc[c] # "members" => scope[c] = {} /\ got[c] = {} /\ kept[c] = {}

IInv ==
  /\ TypeOK /\ IsFiniteSet(held) /\ OnRoute
  /\ MembersExist /\ ReadersKnow /\ ListingsHonest
===============================================================================
