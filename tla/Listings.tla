------------------------------- MODULE Listings -------------------------------
(***************************************************************************)
(* The rows that tie assets to the outside: deployments on chains, markets *)
(* at venues, and identifiers at data sources.  Each create looks up what  *)
(* it refers to through the manager (assets, chains and venues from the    *)
(* cache), asks for it again by EXISTS queries and inserts one row; these  *)
(* are statements of their own, between which assets are deleted and other *)
(* creates take the same names.                                            *)
(*                                                                         *)
(* Chains, venues and instruments are registered once and nothing deletes  *)
(* them: they are given, as Fixtures.  Checks of a request's shape that    *)
(* refuse before any state is read are left out.                           *)
(***************************************************************************)
EXTENDS Naturals

CONSTANTS
  Assets,
  Fixtures,       \* registered chains, venues and instruments
  Unregistered,   \* ids of markets to be, and of what is never registered
  Symbols,        \* a venue's symbols, a source's external ids
  Sources,        \* data sources
  Callers,        \* concurrent creates
  Requests,       \* rows callers may ask for
  DatabaseFails   \* whether a statement may return an error

(* Everything a row may refer to. *)
Entities == Assets \cup Fixtures \cup Unregistered

(***************************************************************************)
(* A row of one of the tables: what it refers to, the unique keys it       *)
(* occupies, the id under which other rows can refer to it, and whether    *)
(* its other fields pass: a deployment's address has the form of its       *)
(* chain's type and its decimals are in range, a market's sizes are        *)
(* positive and its status is one of the table's.                          *)
(***************************************************************************)
Row(table, refs, keys, makes, fits) ==
  [table |-> table, refs |-> refs, keys |-> keys, makes |-> makes, fits |-> fits]

(* A deployment: one per asset and chain. *)
Deployment(a, chain, fits) ==
  Row("deployments", {a, chain}, {<<"deployments", a, chain>>}, {}, fits)

(* A market: one per venue and symbol; the assets it settles in and is     *)
(* priced in are optional.                                                 *)
Market(m, instrument, venue, symbol, currencies, fits) ==
  Row("markets", {instrument, venue} \cup currencies,
      {<<"markets", venue, symbol>>, <<"market", m>>}, {m}, fits)

(* An identifier: one entity per source and external id, and one primary   *)
(* identifier per entity and source.                                       *)
Identifier(entity, source, externalId, isPrimary) ==
  Row("identifiers", {entity},
      {<<"identifiers", source, externalId>>}
        \cup {k \in {<<"primary", source, entity>>} : isPrimary},
      {}, TRUE)

Tables == {"deployments", "markets", "identifiers"}

ASSUME ConstantsAssumption ==
  /\ Assets \cap (Fixtures \cup Unregistered) = {}
  /\ Fixtures \cap Unregistered = {}
  /\ DatabaseFails \in BOOLEAN
  /\ \A q \in Requests :
       /\ q.table \in Tables
       /\ q.refs \subseteq Entities
       /\ q.makes \subseteq Unregistered
       /\ q.fits \in BOOLEAN

VARIABLES
  live,      \* ids of the rows that can be referred to
  retired,   \* ids of deleted assets: Redis may still serve them
  rows,      \* rows of deployments, markets and identifiers
  pc,        \* where each create is
  req,       \* its request, or NoRequest
  reply,     \* how the caller was last answered
  stored     \* history: every row that was ever in a table

vars == <<live, retired, rows, pc, req, reply, stored>>

NoRequest == [table |-> "none"]

Stages == {"idle", "lookup", "check", "insert"}

Replies == {"none", "OK", "NotFound", "InvalidArgument", "Internal"}

-------------------------------------------------------------------------------

Init ==
  /\ live = Fixtures
  /\ retired = {}
  /\ rows = {}
  /\ pc = [c \in Callers |-> "idle"]
  /\ req = [c \in Callers |-> NoRequest]
  /\ reply = [c \in Callers |-> "none"]
  /\ stored = {}

(* CreateAsset: a row with a fresh UUID. *)
CreateAsset(a) ==
  /\ a \notin live \cup retired
  /\ live' = live \cup {a}
  /\ UNCHANGED <<retired, rows, pc, req, reply, stored>>

(* Markets restrict the deletion of the assets they name. *)
Restricting == {r \in rows : r.table = "markets"}

(* Fault: the references of markets cascade like the others. *)
DeleteAssetCascading(a) ==
  /\ a \in live
  /\ live' = live \ {a}
  /\ retired' = retired \cup {a}
  /\ rows' = {r \in rows : a \notin r.refs}
  /\ UNCHANGED <<pc, req, reply, stored>>

(* Deployments and identifiers go with their asset. *)
DeleteAsset(a) ==
  /\ a \in live
  /\ \A r \in Restricting : a \notin r.refs
  /\ live' = live \ {a}
  /\ retired' = retired \cup {a}
  /\ rows' = {r \in rows : a \notin r.refs}
  /\ UNCHANGED <<pc, req, reply, stored>>

-------------------------------------------------------------------------------
(* A create, handler c.                                                    *)

Receive(c, q) ==
  /\ pc[c] = "idle"
  /\ pc' = [pc EXCEPT ![c] = IF q.table = "identifiers" THEN "check" ELSE "lookup"]
  /\ req' = [req EXCEPT ![c] = q]
  /\ reply' = [reply EXCEPT ![c] = "none"]
  /\ UNCHANGED <<live, retired, rows, stored>>

Step(c, stage) ==
  /\ pc' = [pc EXCEPT ![c] = stage]
  /\ UNCHANGED <<req, reply, live, retired, rows, stored>>

Answer(c, r) ==
  /\ pc' = [pc EXCEPT ![c] = "idle"]
  /\ req' = [req EXCEPT ![c] = NoRequest]
  /\ reply' = [reply EXCEPT ![c] = r]

Refuse(c, r) ==
  /\ Answer(c, r)
  /\ UNCHANGED <<live, retired, rows, stored>>

(* The lookups find what is registered, and may find a deleted asset that  *)
(* is still cached; an error of any kind reads as "does not exist".        *)
Findable(q) == q.refs \subseteq live \cup retired
Missable(q) == ~ q.refs \subseteq live \/ DatabaseFails

(* ValidateMarketSpecs, which follows, leaves the sizes to the table.      *)
LookUpMarket(c) ==
  /\ pc[c] = "lookup" /\ req[c].table = "markets"
  /\ \/ Findable(req[c]) /\ Step(c, "check")
     \/ Missable(req[c]) /\ Refuse(c, "InvalidArgument")

(* What the address must look like depends on the chain that was found.    *)
LookUpDeployment(c) ==
  /\ pc[c] = "lookup" /\ req[c].table = "deployments"
  /\ \/ Findable(req[c]) /\ req[c].fits /\ Step(c, "check")
     \/ Findable(req[c]) /\ ~ req[c].fits /\ Refuse(c, "InvalidArgument")
     \/ Missable(req[c]) /\ Refuse(c, "NotFound")

(* The EXISTS queries of the repository. *)
CheckRows(c) ==
  /\ pc[c] = "check"
  /\ req[c].refs \subseteq live
  /\ Step(c, "insert")

(* Fault: the UNIQUE constraints are not there. *)
InsertableTwice(q) == q.refs \subseteq live

(* Fault: the foreign keys are not there. *)
InsertableUnreferenced(q) == \A r \in rows : r.keys \cap q.keys = {}

(* The CHECKs, the foreign keys and the UNIQUE constraints. *)
Insertable(q) ==
  /\ q.fits
  /\ q.refs \subseteq live
  /\ \A r \in rows : r.keys \cap q.keys = {}

(* Fault: ON CONFLICT ... DO UPDATE, the new row in place of the old one. *)
InsertReplacing(c) ==
  /\ pc[c] = "insert"
  /\ req[c].fits /\ req[c].refs \subseteq live
  /\ rows' = {r \in rows : r.keys \cap req[c].keys = {}} \cup {req[c]}
  /\ stored' = stored \cup {req[c]}
  /\ live' = live \cup req[c].makes
  /\ Answer(c, "OK")
  /\ UNCHANGED retired

(* The row commits; the acknowledgement may be lost. *)
Insert(c) ==
  /\ pc[c] = "insert"
  /\ Insertable(req[c])
  /\ rows' = rows \cup {req[c]}
  /\ stored' = stored \cup {req[c]}
  /\ live' = live \cup req[c].makes
  /\ \/ Answer(c, "OK")
     \/ DatabaseFails /\ Answer(c, "Internal")
  /\ UNCHANGED retired

(* Fault: the return after the error is missing. *)
CreateFailsGoesOn(c) ==
  /\ pc[c] = "check" /\ ~ req[c].refs \subseteq live
  /\ pc' = [pc EXCEPT ![c] = "insert"]
  /\ req' = [req EXCEPT ![c] = NoRequest]
  /\ reply' = [reply EXCEPT ![c] = "Internal"]
  /\ UNCHANGED <<live, retired, rows, stored>>

CreateFails(c) ==
  /\ \/ pc[c] = "check" /\ ~ req[c].refs \subseteq live
     \/ pc[c] = "insert" /\ ~ Insertable(req[c])
     \/ pc[c] \in {"check", "insert"} /\ DatabaseFails
  /\ Refuse(c, "Internal")

-------------------------------------------------------------------------------

Handle(c) ==
  \/ LookUpMarket(c) \/ LookUpDeployment(c)
  \/ CheckRows(c) \/ Insert(c) \/ CreateFails(c)

Next ==
  \/ \E a \in Assets : CreateAsset(a) \/ DeleteAsset(a)
  \/ \E c \in Callers, q \in Requests : Receive(c, q)
  \/ \E c \in Callers : Handle(c)

Spec == Init /\ [][Next]_vars

-------------------------------------------------------------------------------
(* What is asked of the tables.                                            *)

ResolveMarket(venue, symbol) ==
  {r \in rows : r.table = "markets" /\ <<"markets", venue, symbol>> \in r.keys}

ResolveIdentifierByExternalID(source, externalId) ==
  {r \in rows : /\ r.table = "identifiers"
                /\ <<"identifiers", source, externalId>> \in r.keys}

TypeOK ==
  /\ live \subseteq Entities
  /\ retired \subseteq Assets
  /\ live \cap retired = {}
  /\ rows \subseteq stored
  /\ stored \subseteq Requests
  /\ pc \in [Callers -> Stages]
  /\ req \in [Callers -> Requests \cup {NoRequest}]
  /\ \A c \in Callers : pc[c] # "idle" => req[c] \in Requests
  /\ reply \in [Callers -> Replies]

(***************************************************************************)
(* Every deployment, market and identifier refers to what is registered,   *)
(* whatever was deleted between the cached lookups, the EXISTS queries and *)
(* the INSERT, and ever since.                                             *)
(***************************************************************************)
ReferencesExist == \A r \in rows : r.refs \subseteq live

(***************************************************************************)
(* A venue's symbol, once it resolves to a market, resolves to that market *)
(* for good: no deletion of an asset takes the market away, and no other   *)
(* create gets the symbol.  A source's external id resolves to the same    *)
(* entity until that entity is deleted.                                    *)
(***************************************************************************)
MarketsStable ==
  \A venue \in Fixtures, symbol \in Symbols :
    ResolveMarket(venue, symbol) # {} =>
      ResolveMarket(venue, symbol)' = ResolveMarket(venue, symbol)

IdentifiersStable ==
  \A source \in Sources, externalId \in Symbols :
    \A r \in ResolveIdentifierByExternalID(source, externalId) :
      \/ r.refs \cap retired' # {}
      \/ ResolveIdentifierByExternalID(source, externalId)' = {r}

ResolutionStable == [][MarketsStable /\ IdentifiersStable]_vars

(***************************************************************************)
(* A unique name - a deployment's asset and chain, a source's external id, *)
(* a primary identifier - passes from one row to another only when an      *)
(* asset of the first is gone.                                             *)
(***************************************************************************)
NamesPassOnWithAssets ==
  \A r, s \in stored :
    r # s /\ r.keys \cap s.keys # {} => (r.refs \cup s.refs) \cap retired # {}

(***************************************************************************)
(* A row that was stored stays in its table while its assets do: no        *)
(* interleaving of creates, retries and deletions loses one, or lets one   *)
(* take the place of another.  It says nothing of the rows of a deleted    *)
(* asset, which the code deletes and the documentation keeps.              *)
(***************************************************************************)
RowsStay ==
  \A r \in stored : r.refs \cap retired = {} => r \in rows

(* The inductive invariant of the proofs: besides, no two rows share a key. *)
KeysUnique == \A r, s \in rows : r.keys \cap s.keys # {} => r = s

IInv == TypeOK /\ ReferencesExist /\ RowsStay /\ KeysUnique
===============================================================================
