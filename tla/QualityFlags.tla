------------------------------ MODULE QualityFlags ------------------------------
(***************************************************************************)
(* Quality flags: QualityManager.RaiseQualityFlag, ResolveQualityFlag and  *)
(* IsAssetTradeable, the gRPC methods around them and table quality_flags. *)
(* A flag is active until one request resolves it; an asset with an active *)
(* CRITICAL flag is not tradeable.  Raisers, resolvers and deletions of    *)
(* assets overlap, each a sequence of statements of its own.               *)
(*                                                                         *)
(* Not modelled: checks of the request's shape, which refuse before any    *)
(* state is read, and the event published after the insert.                *)
(***************************************************************************)
EXTENDS Naturals, FiniteSets

CONSTANTS
  Handlers,      \* concurrent gRPC handlers
  Assets,        \* asset ids
  Flags,         \* flag ids (UUIDs)
  People,        \* values of resolved_by
  Admitted,      \* severities whose stored label chk_severity admits
  NoRow,         \* the flag has no row
  Active,        \* resolved_by of an active flag: NULL
  DatabaseFails  \* whether a statement may return an error

Severities == {"INFO", "WARNING", "CRITICAL"}

ASSUME FlagConstants ==
  /\ Admitted \subseteq Severities
  /\ Active \notin People
  /\ NoRow \notin [asset : Assets, severity : Severities,
                   resolved_by : People \cup {Active}]
  /\ DatabaseFails \in BOOLEAN

VARIABLES
  assets,    \* ids of the rows of table assets
  retired,   \* ids of deleted rows: Redis may still serve them
  flags,     \* table quality_flags: the row of each flag id, or NoRow
  used,      \* flag ids that have been drawn
  pc,        \* where each handler is
  req,       \* the handler's request
  reply,     \* how it last answered
  returned   \* the row in its last OK answer, or NoRow

tables == <<assets, retired, flags, used>>
vars == <<assets, retired, flags, used, pc, req, reply, returned>>

Row == [asset : Assets, severity : Severities, resolved_by : People \cup {Active}]

Raises == [op : {"raise"}, asset : Assets, severity : Severities]
Resolves == [op : {"resolve"}, flag : Flags, by : People]
NoRequest == [op |-> "none"]

Stages ==
  {"idle", "getAsset", "checkAsset", "insert", "getFlag", "update", "reread"}

Replies == {"none", "OK", "NotFound", "FailedPrecondition", "Internal"}

-------------------------------------------------------------------------------

Init ==
  /\ assets = {}
  /\ retired = {}
  /\ flags = [f \in Flags |-> NoRow]
  /\ used = {}
  /\ pc = [h \in Handlers |-> "idle"]
  /\ req = [h \in Handlers |-> NoRequest]
  /\ reply = [h \in Handlers |-> "none"]
  /\ returned = [h \in Handlers |-> NoRow]

Goto(h, stage) ==
  /\ pc' = [pc EXCEPT ![h] = stage]
  /\ UNCHANGED <<req, reply, returned>>

Answer(h, code, row) ==
  /\ pc' = [pc EXCEPT ![h] = "idle"]
  /\ req' = [req EXCEPT ![h] = NoRequest]
  /\ reply' = [reply EXCEPT ![h] = code]
  /\ returned' = [returned EXCEPT ![h] = row]

Refuse(h, code) == Answer(h, code, NoRow) /\ UNCHANGED tables

Raising == {h \in Handlers : req[h] \in Raises}

(* Bound: no flag is raised for which no id is left. *)
Receive(h, request) ==
  /\ pc[h] = "idle"
  /\ request \in Raises => Cardinality(Raising) < Cardinality(Flags \ used)
  /\ pc' = [pc EXCEPT ![h] = IF request.op = "raise" THEN "getAsset"
                                                      ELSE "getFlag"]
  /\ req' = [req EXCEPT ![h] = request]
  /\ reply' = [reply EXCEPT ![h] = "none"]
  /\ returned' = [returned EXCEPT ![h] = NoRow]
  /\ UNCHANGED tables

-------------------------------------------------------------------------------
(* Assets come and go under the handlers.                                  *)

CreateAsset(a) ==
  /\ a \notin assets \cup retired
  /\ assets' = assets \cup {a}
  /\ UNCHANGED <<retired, flags, used, pc, req, reply, returned>>

FlagsOf(a) == {f \in Flags : flags[f] # NoRow /\ flags[f].asset = a}

(* DeleteAsset: the foreign key of quality_flags cascades. *)
DeleteAsset(a) ==
  /\ a \in assets
  /\ assets' = assets \ {a}
  /\ retired' = retired \cup {a}
  /\ flags' = [f \in Flags |-> IF f \in FlagsOf(a) THEN NoRow ELSE flags[f]]
  /\ UNCHANGED <<used, pc, req, reply, returned>>

-------------------------------------------------------------------------------
(* RaiseQualityFlag.                                                       *)

(* CachedRepository.GetAsset: a deleted asset may still be cached. *)
GetAsset(h) ==
  /\ pc[h] = "getAsset"
  /\ req[h].asset \in assets \cup retired
  /\ Goto(h, "checkAsset")
  /\ UNCHANGED tables

AssetNotFound(h) ==
  /\ pc[h] = "getAsset"
  /\ req[h].asset \notin assets \/ DatabaseFails
  /\ Refuse(h, "NotFound")

(* The repository's own EXISTS query. *)
CheckAsset(h) ==
  /\ pc[h] = "checkAsset"
  /\ req[h].asset \in assets
  /\ Goto(h, "insert")
  /\ UNCHANGED tables

(* The foreign key to assets, and chk_severity. *)
Insertable(request) ==
  request.asset \in assets /\ request.severity \in Admitted

(* Fault: the EXISTS query is relied on, there is no foreign key. *)
InsertUnreferenced(h) ==
  /\ pc[h] = "insert"
  /\ req[h].severity \in Admitted
  /\ \E f \in Flags \ used :
       LET row == [asset |-> req[h].asset, severity |-> req[h].severity,
                   resolved_by |-> Active] IN
       /\ flags' = [flags EXCEPT ![f] = row]
       /\ used' = used \cup {f}
       /\ \/ Answer(h, "OK", row)
          \/ DatabaseFails /\ Answer(h, "Internal", NoRow)
  /\ UNCHANGED <<assets, retired>>

(* Fault: an asset has one flag, which the last request raises. *)
InsertReplacing(h) ==
  /\ pc[h] = "insert"
  /\ Insertable(req[h])
  /\ \E f \in Flags \ used :
       LET row == [asset |-> req[h].asset, severity |-> req[h].severity,
                   resolved_by |-> Active] IN
       /\ flags' = [g \in Flags |->
                      IF g = f THEN row
                      ELSE IF g \in FlagsOf(req[h].asset) THEN NoRow
                      ELSE flags[g]]
       /\ used' = used \cup {f}
       /\ Answer(h, "OK", row)
  /\ UNCHANGED <<assets, retired>>

(* The row commits under a fresh id; the acknowledgement may be lost. *)
Insert(h) ==
  /\ pc[h] = "insert"
  /\ Insertable(req[h])
  /\ \E f \in Flags \ used :
       LET row == [asset |-> req[h].asset, severity |-> req[h].severity,
                   resolved_by |-> Active] IN
       /\ flags' = [flags EXCEPT ![f] = row]
       /\ used' = used \cup {f}
       /\ \/ Answer(h, "OK", row)
          \/ DatabaseFails /\ Answer(h, "Internal", NoRow)
  /\ UNCHANGED <<assets, retired>>

RaiseFails(h) ==
  /\ \/ pc[h] = "checkAsset" /\ req[h].asset \notin assets
     \/ pc[h] = "insert" /\ ~ Insertable(req[h])
     \/ pc[h] \in {"checkAsset", "insert"} /\ DatabaseFails
  /\ Refuse(h, "Internal")

-------------------------------------------------------------------------------
(* ResolveQualityFlag.                                                     *)

IsActive(row) == row # NoRow /\ row.resolved_by = Active

GetFlag(h) ==
  /\ pc[h] = "getFlag"
  /\ IsActive(flags[req[h].flag])
  /\ Goto(h, "update")
  /\ UNCHANGED tables

FlagNotFound(h) ==
  /\ pc[h] = "getFlag"
  /\ flags[req[h].flag] = NoRow \/ DatabaseFails
  /\ Refuse(h, "NotFound")

AlreadyResolved(h) ==
  /\ pc[h] = "getFlag"
  /\ flags[req[h].flag] # NoRow
  /\ ~ IsActive(flags[req[h].flag])
  /\ Refuse(h, "FailedPrecondition")

(* The outcomes of a committed UPDATE: acknowledged, or reported as failed. *)
Updated(h) ==
  \/ Goto(h, "reread")
  \/ DatabaseFails /\ Answer(h, "Internal", NoRow)

(* Fault: UPDATE ... WHERE id = $4, trusting the check before it. *)
UpdateAnyway(h) ==
  LET f == req[h].flag IN
  /\ pc[h] = "update"
  /\ flags[f] # NoRow
  /\ flags' = [flags EXCEPT ![f].resolved_by = req[h].by]
  /\ Updated(h)
  /\ UNCHANGED <<assets, retired, used>>

(* Fault: the UPDATE's arguments are bound in the wrong order. *)
UpdateMisbound(h) ==
  LET f == req[h].flag IN
  /\ pc[h] = "update"
  /\ IsActive(flags[f])
  /\ flags' = [flags EXCEPT ![f].resolved_by = f]
  /\ Updated(h)
  /\ UNCHANGED <<assets, retired, used>>

(* UPDATE ... WHERE id = $4 AND resolved_at IS NULL affects the row. *)
Update(h) ==
  LET f == req[h].flag IN
  /\ pc[h] = "update"
  /\ IsActive(flags[f])
  /\ flags' = [flags EXCEPT ![f].resolved_by = req[h].by]
  /\ Updated(h)
  /\ UNCHANGED <<assets, retired, used>>

(***************************************************************************)
(* It affects no row, or it fails: also when the flag was raised by a      *)
(* clock that is ahead (chk_resolution_after_raise).                       *)
(***************************************************************************)
UpdateFails(h) ==
  /\ pc[h] = "update"
  /\ ~ IsActive(flags[req[h].flag]) \/ DatabaseFails
  /\ Refuse(h, "Internal")

(* The server reads the flag again, to return it. *)
Reread(h) ==
  /\ pc[h] = "reread"
  /\ flags[req[h].flag] # NoRow
  /\ Answer(h, "OK", flags[req[h].flag])
  /\ UNCHANGED tables

RereadFails(h) ==
  /\ pc[h] = "reread"
  /\ flags[req[h].flag] = NoRow \/ DatabaseFails
  /\ Refuse(h, "Internal")

-------------------------------------------------------------------------------
(* Queries: one SELECT each, never cached.                                 *)

(* The repository's ListQualityFlags of active flags: the severity has to  *)
(* be the one asked for, also when the server passes on a min_severity.    *)
ListQualityFlags(a, severity) ==
  {f \in FlagsOf(a) : IsActive(flags[f]) /\ flags[f].severity = severity}

(* Asked with a limit of 1. *)
IsAssetTradeable(a) == ListQualityFlags(a, "CRITICAL") = {}

-------------------------------------------------------------------------------

Raise(h) ==
  GetAsset(h) \/ AssetNotFound(h) \/ CheckAsset(h) \/ Insert(h) \/ RaiseFails(h)

Resolve(h) ==
  \/ GetFlag(h) \/ FlagNotFound(h) \/ AlreadyResolved(h)
  \/ Update(h) \/ UpdateFails(h) \/ Reread(h) \/ RereadFails(h)

Next ==
  \/ \E a \in Assets : CreateAsset(a) \/ DeleteAsset(a)
  \/ \E h \in Handlers, request \in Raises \cup Resolves : Receive(h, request)
  \/ \E h \in Handlers : Raise(h) \/ Resolve(h)

Spec == Init /\ [][Next]_vars

-------------------------------------------------------------------------------

TypeOK ==
  /\ assets \subseteq Assets
  /\ retired \subseteq Assets
  /\ flags \in [Flags -> Row \cup {NoRow}]
  /\ used \subseteq Flags
  /\ \A f \in Flags : flags[f] # NoRow => f \in used
  /\ pc \in [Handlers -> Stages]
  /\ \A h \in Handlers :
       \/ pc[h] = "idle" /\ req[h] = NoRequest
       \/ pc[h] \in {"getAsset", "checkAsset", "insert"} /\ req[h] \in Raises
       \/ pc[h] \in {"getFlag", "update", "reread"} /\ req[h] \in Resolves
  /\ req \in [Handlers -> Raises \cup Resolves \cup {NoRequest}]
  /\ reply \in [Handlers -> Replies]
  /\ returned \in [Handlers -> Row \cup {NoRow}]

(***************************************************************************)
(* Every flag belongs to a registered asset, whatever was deleted between  *)
(* the raising handler's checks and its INSERT.                            *)
(***************************************************************************)
FlagsHaveAssets ==
  \A f \in Flags : flags[f] # NoRow => flags[f].asset \in assets

(***************************************************************************)
(* A flag is resolved once.  Of several requests that found it active, one *)
(* gets past the UPDATE, and what it reads back for its answer is its own  *)
(* resolution, unless the flag is gone with its asset by then.             *)
(***************************************************************************)
ResolvedOnce ==
  \A h \in Handlers : pc[h] = "reread" =>
    LET f == req[h].flag IN
    /\ f \in used
    /\ flags[f] = NoRow \/ flags[f].resolved_by = req[h].by
    /\ \A g \in Handlers : (pc[g] = "reread" /\ req[g].flag = f) => g = h

(* A resolution is final: it is not replaced and not taken back. *)
ResolutionFinal ==
  [][\A f \in Flags : (flags[f] # NoRow /\ ~ IsActive(flags[f]))
                        => flags'[f] \in {flags[f], NoRow}]_vars

(***************************************************************************)
(* An asset under a CRITICAL flag is tradeable again only when a request   *)
(* that resolves a flag of it gets to its UPDATE, or when it is deleted:   *)
(* no other flag, and no request that fails its checks, lifts the stop.    *)
(***************************************************************************)
CriticalUntilResolved ==
  [][\A a \in Assets :
       (~ IsAssetTradeable(a) /\ IsAssetTradeable(a)') =>
         \/ a \notin assets'
         \/ \E h \in Handlers :
              /\ pc[h] = "update" /\ pc'[h] # "update"
              /\ req[h].flag \in FlagsOf(a)]_vars

===============================================================================
