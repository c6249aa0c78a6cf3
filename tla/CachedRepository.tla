---------------------------- MODULE CachedRepository ----------------------------
(***************************************************************************)
(* The cache-aside repository: handlers read and write rows of Postgres    *)
(* through CachedRepository, which keeps copies in Redis.  A read takes    *)
(* the copy, or loads the row and stores a copy of it; a write changes the *)
(* row and then deletes the copy.  The two stores are never updated        *)
(* together, so every call to one of them is an action of its own.         *)
(*                                                                         *)
(* A row is known by the number of the write that last changed it.  The    *)
(* keys are assets, which are created, updated and deleted, and chains,    *)
(* which are created and which lose their native asset when it is deleted  *)
(* (ON DELETE SET NULL).  Venues and venue assets are cached the same way  *)
(* as chains, and venue assets are deleted with their asset.               *)
(***************************************************************************)
EXTENDS Naturals

CONSTANTS
  Handlers,     \* concurrent gRPC handlers, of any instance of the service
  Assets,       \* keys of table assets
  Chains,       \* keys of table chains
  NativeAsset,  \* the asset a chain's creator names, if it names one
  MaxWrites,    \* bound: no update is requested of a row written that often
  Faults        \* whether statements and Redis calls fail and handlers die

ASSUME KeysAssumption ==
  /\ Assets \cap Chains = {}
  /\ NativeAsset \in [Chains -> Assets]
  /\ MaxWrites \in Nat
  /\ Faults \in BOOLEAN

Keys == Assets \cup Chains

VARIABLES
  rows,       \* the row of each key: the number of its last write, or None
  writes,     \* the number of committed writes of each key
  linked,     \* chains whose native_asset_id is not NULL
  cache,      \* the copy in Redis, or None
  pc,         \* where each handler is
  op,         \* the handler's operation
  key,        \* the key it operates on
  read,       \* the row its read returned, None for "not found"
  overtaken,  \* history: the row changed since the handler loaded it
  tainted     \* history: keys whose copy no write will delete any more

vars == <<rows, writes, linked, cache, pc, op, key, read, overtaken, tainted>>
rowVars == <<rows, writes, linked>>

None == 0

Stages == {"idle", "lookup", "load", "fill", "write", "invalidate"}

Operations == {"get", "create", "update", "delete"}

-------------------------------------------------------------------------------

Init ==
  /\ rows = [k \in Keys |-> None]
  /\ writes = [k \in Keys |-> 0]
  /\ linked = {}
  /\ cache = [k \in Keys |-> None]
  /\ pc = [h \in Handlers |-> "idle"]
  /\ op = [h \in Handlers |-> "get"]
  /\ key \in [Handlers -> Keys]
  /\ read = [h \in Handlers |-> None]
  /\ overtaken = [h \in Handlers |-> FALSE]
  /\ tainted = {}

Goto(h, stage) == pc' = [pc EXCEPT ![h] = stage]

(* The copies of keys in K, if there are any, have lost who deletes them. *)
Taint(K) == tainted \cup {k \in K : cache[k] # None}

-------------------------------------------------------------------------------
(* Requests.                                                               *)

(* CreateAsset draws a fresh UUID; the caller names a chain. *)
Creatable(k) ==
  k \in Assets => /\ writes[k] = 0
                  /\ \A h \in Handlers : pc[h] # "idle" => key[h] # k

Request(h, o, k) ==
  /\ pc[h] = "idle"
  /\ o \in {"update", "delete"} => k \in Assets
  /\ o = "create" => Creatable(k)
  /\ o = "update" => writes[k] < MaxWrites
  /\ Goto(h, IF o = "create" THEN "write" ELSE "lookup")
  /\ op' = [op EXCEPT ![h] = o]
  /\ key' = [key EXCEPT ![h] = k]
  /\ read' = [read EXCEPT ![h] = None]
  /\ overtaken' = [overtaken EXCEPT ![h] = FALSE]
  /\ UNCHANGED <<rowVars, cache, tainted>>

-------------------------------------------------------------------------------
(* cacheGetOrLoad.  An update or a delete begins with it too.              *)

AfterRead(h) == Goto(h, IF op[h] = "get" THEN "idle" ELSE "write")

CacheHit(h) ==
  /\ pc[h] = "lookup"
  /\ cache[key[h]] # None
  /\ read' = [read EXCEPT ![h] = cache[key[h]]]
  /\ AfterRead(h)
  /\ UNCHANGED <<rowVars, cache, op, key, overtaken, tainted>>

CacheMiss(h) ==
  /\ pc[h] = "lookup"
  /\ cache[key[h]] = None \/ Faults
  /\ Goto(h, "load")
  /\ UNCHANGED <<rowVars, cache, op, key, read, overtaken, tainted>>

Load(h) ==
  /\ pc[h] = "load"
  /\ rows[key[h]] # None
  /\ read' = [read EXCEPT ![h] = rows[key[h]]]
  /\ Goto(h, "fill")
  /\ UNCHANGED <<rowVars, cache, op, key, overtaken, tainted>>

(* No row, or a failed query: both read as NotFound. *)
NotFound(h) ==
  /\ pc[h] = "load"
  /\ rows[key[h]] = None \/ Faults
  /\ Goto(h, "idle")
  /\ UNCHANGED <<rowVars, cache, op, key, read, overtaken, tainted>>

(* Set: what was loaded replaces whatever copy there is by now. *)
Fill(h) ==
  /\ pc[h] = "fill"
  /\ cache' = [cache EXCEPT ![key[h]] = read[h]]
  /\ tainted' = IF overtaken[h] THEN tainted \cup {key[h]}
                                ELSE tainted \ {key[h]}
  /\ AfterRead(h)
  /\ UNCHANGED <<rowVars, op, key, read, overtaken>>

(* A failed Set is only counted. *)
FillFails(h) ==
  /\ Faults
  /\ pc[h] = "fill"
  /\ AfterRead(h)
  /\ UNCHANGED <<rowVars, cache, op, key, read, overtaken, tainted>>

-------------------------------------------------------------------------------
(* Writes: a statement, and then the deletion of the copy.                 *)

(* The statement commits a new version of the keys in K. *)
Commit(K) ==
  /\ writes' = [k \in Keys |-> IF k \in K THEN writes[k] + 1 ELSE writes[k]]
  /\ overtaken' = [h \in Handlers |->
                     overtaken[h] \/ (pc[h] = "fill" /\ key[h] \in K)]

(***************************************************************************)
(* The handler learns that its statement committed, or the acknowledgement *)
(* is lost and it returns an error without touching the cache.  The copies *)
(* of the other rows that the statement changed are left alone.            *)
(***************************************************************************)
Committed(h, others) ==
  \/ Goto(h, "invalidate") /\ tainted' = Taint(others)
  \/ Faults /\ Goto(h, "idle") /\ tainted' = Taint(others \cup {key[h]})

Insert(h) ==
  /\ pc[h] = "write" /\ op[h] = "create"
  /\ LET k == key[h] IN
       /\ rows[k] = None
       /\ rows' = [rows EXCEPT ![k] = writes[k] + 1]
       /\ Commit({k})
       /\ \/ UNCHANGED linked
          \/ /\ k \in Chains
             /\ rows[NativeAsset[k]] # None
             /\ linked' = linked \cup {k}
  /\ Committed(h, {})
  /\ UNCHANGED <<cache, op, key, read>>

(* Fault: the copy is not deleted. *)
UpdateWithoutInvalidation(h) ==
  /\ pc[h] = "write" /\ op[h] = "update"
  /\ LET k == key[h] IN
       /\ rows[k] # None
       /\ rows' = [rows EXCEPT ![k] = writes[k] + 1]
       /\ Commit({k})
  /\ Goto(h, "idle")
  /\ UNCHANGED <<linked, cache, op, key, read, tainted>>

(* Fault: an upsert, trusting the read that found the row. *)
Upsert(h) ==
  /\ pc[h] = "write" /\ op[h] = "update"
  /\ LET k == key[h] IN
       /\ rows' = [rows EXCEPT ![k] = writes[k] + 1]
       /\ Commit({k})
  /\ Committed(h, {})
  /\ UNCHANGED <<linked, cache, op, key, read>>

(* UPDATE with its check that a row was affected. *)
Update(h) ==
  /\ pc[h] = "write" /\ op[h] = "update"
  /\ LET k == key[h] IN
       /\ rows[k] # None
       /\ rows' = [rows EXCEPT ![k] = writes[k] + 1]
       /\ Commit({k})
  /\ Committed(h, {})
  /\ UNCHANGED <<linked, cache, op, key, read>>

(* The chains that refer to asset a. *)
Referring(a) == {c \in linked : NativeAsset[c] = a}

(* Fault: native_asset_id keeps the id of the deleted asset. *)
DeleteKeepingLinks(h) ==
  /\ pc[h] = "write" /\ op[h] = "delete"
  /\ LET a == key[h] IN
       /\ rows[a] # None
       /\ rows' = [rows EXCEPT ![a] = None]
       /\ Commit({a})
  /\ Committed(h, {})
  /\ UNCHANGED <<linked, cache, op, key, read>>

(* DELETE, and the SET NULL it causes in table chains. *)
Delete(h) ==
  /\ pc[h] = "write" /\ op[h] = "delete"
  /\ LET a == key[h] IN
       /\ rows[a] # None
       /\ rows' = [k \in Keys |-> IF k = a THEN None
                                  ELSE IF k \in Referring(a) THEN writes[k] + 1
                                  ELSE rows[k]]
       /\ Commit({a} \cup Referring(a))
       /\ linked' = linked \ Referring(a)
       /\ Committed(h, Referring(a))
  /\ UNCHANGED <<cache, op, key, read>>

(***************************************************************************)
(* No row was affected, the id is taken, the asset that a chain names does *)
(* not exist, or the statement failed.                                     *)
(***************************************************************************)
WriteFails(h) ==
  /\ pc[h] = "write"
  /\ \/ op[h] \in {"update", "delete"} /\ rows[key[h]] = None
     \/ op[h] = "create" /\ rows[key[h]] # None
     \/ op[h] = "create" /\ key[h] \in Chains
                         /\ rows[NativeAsset[key[h]]] = None
     \/ Faults
  /\ Goto(h, "idle")
  /\ UNCHANGED <<rowVars, cache, op, key, read, overtaken, tainted>>

Invalidate(h) ==
  /\ pc[h] = "invalidate"
  /\ cache' = [cache EXCEPT ![key[h]] = None]
  /\ tainted' = tainted \ {key[h]}
  /\ Goto(h, "idle")
  /\ UNCHANGED <<rowVars, op, key, read, overtaken>>

(* A failed Delete is ignored. *)
InvalidateFails(h) ==
  /\ Faults
  /\ pc[h] = "invalidate"
  /\ tainted' = Taint({key[h]})
  /\ Goto(h, "idle")
  /\ UNCHANGED <<rowVars, cache, op, key, read, overtaken>>

-------------------------------------------------------------------------------

(* The process stops, or the request's context is cancelled. *)
Die(h) ==
  /\ Faults
  /\ pc[h] # "idle"
  /\ tainted' = IF pc[h] = "invalidate" THEN Taint({key[h]}) ELSE tainted
  /\ Goto(h, "idle")
  /\ UNCHANGED <<rowVars, cache, op, key, read, overtaken>>

(* Fault: every read of a copy starts its time to live again. *)
ExpireUnread(k) ==
  /\ cache[k] # None
  /\ \A h \in Handlers : pc[h] # "idle" => key[h] # k
  /\ cache' = [cache EXCEPT ![k] = None]
  /\ tainted' = tainted \ {k}
  /\ UNCHANGED <<rowVars, pc, op, key, read, overtaken>>

(* The copy's time to live is over. *)
Expire(k) ==
  /\ cache[k] # None
  /\ cache' = [cache EXCEPT ![k] = None]
  /\ tainted' = tainted \ {k}
  /\ UNCHANGED <<rowVars, pc, op, key, read, overtaken>>

Handle(h) ==
  \/ CacheHit(h) \/ CacheMiss(h) \/ Load(h) \/ NotFound(h)
  \/ Fill(h) \/ FillFails(h)
  \/ Insert(h) \/ Update(h) \/ Delete(h) \/ WriteFails(h)
  \/ Invalidate(h) \/ InvalidateFails(h)

Next ==
  \/ \E h \in Handlers, o \in Operations, k \in Keys : Request(h, o, k)
  \/ \E h \in Handlers : Handle(h) \/ Die(h)
  \/ \E k \in Keys : Expire(k)

Spec == Init /\ [][Next]_vars

(* Handlers run on, and every copy is stored with a time to live. *)
FairSpec ==
  /\ Spec
  /\ \A h \in Handlers : WF_vars(Handle(h))
  /\ \A k \in Keys : WF_vars(Expire(k))

-------------------------------------------------------------------------------

(* A row is the result of the last write, and links refer to rows. *)
TypeOK ==
  /\ writes \in [Keys -> Nat]
  /\ rows \in [Keys -> Nat]
  /\ \A k \in Keys : rows[k] \in {None, writes[k]}
  /\ linked \subseteq {c \in Chains : rows[NativeAsset[c]] # None}
  /\ cache \in [Keys -> Nat]
  /\ pc \in [Handlers -> Stages]
  /\ op \in [Handlers -> Operations]
  /\ key \in [Handlers -> Keys]
  /\ \A h \in Handlers : op[h] \in {"update", "delete"} => key[h] \in Assets
  /\ \A h \in Handlers :
       op[h] = "create" => pc[h] \in {"idle", "write", "invalidate"}
  /\ read \in [Handlers -> Nat]
  /\ overtaken \in [Handlers -> BOOLEAN]
  /\ tainted \subseteq Keys

Coherent(k) == cache[k] \in {None, rows[k]}

(***************************************************************************)
(* What makes a copy stale.  A copy differs from its row only while the    *)
(* handler that changed the row is about to delete the copy, or after one  *)
(* of four things: a reader stored a row that changed after it had loaded  *)
(* it, a deletion failed, a handler died before it, or the row was changed *)
(* by the deletion of another row.                                         *)
(***************************************************************************)
StaleCopiesExplained ==
  \A k \in Keys :
    \/ Coherent(k)
    \/ k \in tainted
    \/ \E h \in Handlers : pc[h] = "invalidate" /\ key[h] = k

(***************************************************************************)
(* What a reader holds: nothing before it has loaded the row, and the      *)
(* current row when it is about to store a copy that was not overtaken.    *)
(***************************************************************************)
ReadInv ==
  \A h \in Handlers :
    /\ pc[h] \in {"lookup", "load"} => read[h] = None
    /\ (pc[h] = "fill" /\ ~ overtaken[h]) => read[h] = rows[key[h]]

Creating(h, k) == pc[h] = "write" /\ op[h] = "create" /\ key[h] = k

(* An asset that is being created is being created once, under a new id. *)
CreateInv ==
  \A h \in Handlers, a \in Assets : Creating(h, a) =>
    /\ writes[a] = 0
    /\ \A g \in Handlers : Creating(g, a) => g = h

(* The inductive invariant of the proofs. *)
IInv == TypeOK /\ ReadInv /\ CreateInv /\ StaleCopiesExplained

(* A deleted asset stays deleted, although stale copies let updates start. *)
DeletedStaysDeleted ==
  [][\A a \in Assets :
       (writes[a] > 0 /\ rows[a] = None) => rows'[a] = None]_vars

(***************************************************************************)
(* The cache is invalidated by every change: with no write in its last     *)
(* step there is no stale copy.  This is what the API documentation says.  *)
(***************************************************************************)
InvalidatedByUpdates ==
  (\A h \in Handlers : pc[h] # "invalidate") => \A k \in Keys : Coherent(k)

(* A chain whose row changed when its native asset was deleted. *)
Orphaned(k) ==
  /\ k \in Chains
  /\ writes[NativeAsset[k]] > 0 /\ rows[NativeAsset[k]] = None

(***************************************************************************)
(* A read of an asset returns its current row, and so does a read of a     *)
(* chain until its native asset is deleted: this is said of one handler    *)
(* without faults, for which the cache has only the cascade to fear.       *)
(***************************************************************************)
ReadsCurrent ==
  [][\A h \in Handlers :
       ( op[h] = "get" /\ pc[h] \in {"lookup", "load", "fill"}
         /\ pc'[h] = "idle" )
         => read'[h] = rows[key[h]] \/ Orphaned(key[h])]_vars

(***************************************************************************)
(* Staleness ends.  Once no more updates are requested, as MaxWrites has   *)
(* it, copies agree with their rows for good, whatever was lost on the     *)
(* way and whichever readers were still to store an old row.               *)
(***************************************************************************)
Converges == <>[](\A k \in Keys : Coherent(k))

===============================================================================
