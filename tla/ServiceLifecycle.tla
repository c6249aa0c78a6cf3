---------------------------- MODULE ServiceLifecycle ----------------------------
(***************************************************************************)
(* Service.Start and Service.Stop around the requests that the gRPC server *)
(* handles and the events they publish.  Start opens the database pool,    *)
(* the cache and the event bus and then serves; Stop stops serving, waits  *)
(* for the requests in flight and closes the three in reverse order.  A    *)
(* request writes a row on a connection of the pool, starts the goroutine  *)
(* that publishes its event (EventPublisher), which nobody waits for, and  *)
(* is then answered.                                                       *)
(*                                                                         *)
(* The CQI wrappers of the gRPC and HTTP servers are external: Start of    *)
(* either returns once it listens or fails, Stop of the gRPC server waits  *)
(* for its requests until its shutdown timeout.  So is pgxpool: Close      *)
(* hands out no more connections and waits, with no timeout, for those     *)
(* that are in use.                                                        *)
(***************************************************************************)
EXTENDS Naturals

CONSTANTS
  Requests,   \* creating requests, each made once
  Announced,  \* those whose manager method publishes to a topic
  Faults      \* whether connecting, writing and publishing can fail

ASSUME LifecycleAssumption ==
  Announced \subseteq Requests /\ Faults \in BOOLEAN

VARIABLES
  step,       \* where Start or Stop is
  open,       \* connections that are open
  serving,    \* servers that accept requests
  request,    \* where each request is
  event,      \* what has become of its event
  impatient   \* history: the gRPC server's shutdown timeout has passed

vars == <<step, open, serving, request, event, impatient>>
serviceVars == <<step, open, serving, impatient>>

Connections == {"database", "cache", "bus"}

StartSteps ==
  {"initDatabase", "initCache", "initEventBus", "startGRPC", "startHTTP"}
StopSteps ==
  {"stopHTTP", "stopGRPC", "drain", "closeBus", "closeCache", "closeDatabase",
   "awaitConnections"}
Rests == {"running", "stopped", "failed", "exited"}

InFlight(r) == request[r] \in {"running", "writing", "written", "announced"}

(* The request has a connection of the pool. *)
Holds(r) == request[r] = "writing"

-------------------------------------------------------------------------------

Init ==
  /\ step = "initDatabase"
  /\ open = {}
  /\ serving = {}
  /\ request = [r \in Requests |-> "new"]
  /\ event = [r \in Requests |-> "none"]
  /\ impatient = FALSE

-------------------------------------------------------------------------------
(* Start.                                                                  *)

Connect(from, connection, to) ==
  /\ step = from
  /\ \/ step' = to /\ open' = open \cup {connection}
     \/ Faults /\ step' = "failed" /\ UNCHANGED open
  /\ UNCHANGED <<serving, request, event, impatient>>

InitDatabase == Connect("initDatabase", "database", "initCache")
InitCache == Connect("initCache", "cache", "initEventBus")
InitEventBus == Connect("initEventBus", "bus", "startGRPC")

StartGRPC ==
  /\ step = "startGRPC"
  /\ \/ step' = "startHTTP" /\ serving' = {"grpc"}
     \/ Faults /\ step' = "failed" /\ UNCHANGED serving
  /\ UNCHANGED <<open, request, event, impatient>>

StartHTTP ==
  /\ step = "startHTTP"
  /\ step' = "running"
  /\ serving' = serving \cup {"http"}
  /\ UNCHANGED <<open, request, event, impatient>>

(* Fault: the gRPC server is left running. *)
StartHTTPFailsServing ==
  /\ Faults
  /\ step = "startHTTP"
  /\ step' = "failed"
  /\ UNCHANGED <<open, serving, request, event, impatient>>

(***************************************************************************)
(* The gRPC server, which may have requests by now, is stopped again, as   *)
(* Drain describes it.                                                     *)
(***************************************************************************)
StartHTTPFails ==
  /\ Faults
  /\ step = "startHTTP"
  /\ serving' = {}
  /\ impatient' = (impatient \/ \E r \in Requests : InFlight(r))
  /\ step' = "failed"
  /\ UNCHANGED <<open, request, event>>

-------------------------------------------------------------------------------
(* Stop.                                                                   *)

Signal ==
  /\ step = "running"
  /\ step' = "stopHTTP"
  /\ UNCHANGED <<open, serving, request, event, impatient>>

(* Fault: the bus is closed before the servers are stopped. *)
StopHTTPAndBus ==
  /\ step = "stopHTTP"
  /\ step' = "stopGRPC"
  /\ serving' = serving \ {"http"}
  /\ open' = open \ {"bus"}
  /\ UNCHANGED <<request, event, impatient>>

StopHTTP ==
  /\ step = "stopHTTP"
  /\ step' = "stopGRPC"
  /\ serving' = serving \ {"http"}
  /\ UNCHANGED <<open, request, event, impatient>>

(* Fault: the connections are closed before the requests are waited for. *)
StopGRPCWithoutDraining ==
  /\ step = "stopGRPC"
  /\ step' = "closeBus"
  /\ serving' = serving \ {"grpc"}
  /\ UNCHANGED <<open, request, event, impatient>>

(* The gRPC server accepts no more requests ... *)
StopGRPC ==
  /\ step = "stopGRPC"
  /\ step' = "drain"
  /\ serving' = serving \ {"grpc"}
  /\ UNCHANGED <<open, request, event, impatient>>

(* Fault: without a shutdown timeout. *)
DrainPatiently ==
  /\ step = "drain"
  /\ ~ (\E r \in Requests : InFlight(r)) /\ UNCHANGED impatient
  /\ step' = "closeBus"
  /\ UNCHANGED <<open, serving, request, event>>

(***************************************************************************)
(* ... and waits for those it has.  Where it goes on with some in flight,  *)
(* its shutdown timeout has passed.                                        *)
(***************************************************************************)
Drain ==
  /\ step = "drain"
  /\ impatient' = (impatient \/ \E r \in Requests : InFlight(r))
  /\ step' = "closeBus"
  /\ UNCHANGED <<open, serving, request, event>>

(* An error of Close is logged, and the next one is closed. *)
Close(from, connection, to) ==
  /\ step = from
  /\ step' = to
  /\ open' = open \ {connection}
  /\ UNCHANGED <<serving, request, event, impatient>>

CloseBus == Close("closeBus", "bus", "closeCache")
CloseCache == Close("closeCache", "cache", "closeDatabase")

(* pgxpool.Close: from now on no statement gets a connection ... *)
CloseDatabase == Close("closeDatabase", "database", "awaitConnections")

(* Fault: only the idle connections are closed. *)
AwaitNobody ==
  /\ step = "awaitConnections"
  /\ step' = "stopped"
  /\ UNCHANGED <<open, serving, request, event, impatient>>

(* ... and the statements that have one are waited for, however long. *)
AwaitConnections ==
  /\ step = "awaitConnections"
  /\ ~ (\E r \in Requests : Holds(r))
  /\ step' = "stopped"
  /\ UNCHANGED <<open, serving, request, event, impatient>>

(***************************************************************************)
(* main returns, or ends with Start's error, and every goroutine with it;  *)
(* an event that was not published yet never will be.                      *)
(***************************************************************************)
Exit ==
  /\ step \in {"stopped", "failed"}
  /\ step' = "exited"
  /\ event' = [r \in Requests |-> IF event[r] = "pending" THEN "lost" ELSE event[r]]
  /\ UNCHANGED <<open, serving, request, impatient>>

-------------------------------------------------------------------------------
(* Requests and their events.                                              *)

Proceed(r, from, to) ==
  /\ step # "exited"
  /\ request[r] = from
  /\ request' = [request EXCEPT ![r] = to]
  /\ UNCHANGED serviceVars

(* A create reaches its manager. *)
Accept(r) ==
  /\ "grpc" \in serving
  /\ Proceed(r, "new", "running")
  /\ UNCHANGED event

(* The INSERT gets a connection. *)
Acquire(r) ==
  /\ "database" \in open
  /\ Proceed(r, "running", "writing")
  /\ UNCHANGED event

(* It is done and gives the connection back. *)
Write(r) == Proceed(r, "writing", "written") /\ UNCHANGED event

(***************************************************************************)
(* No connection or an error: the request is answered with it, and no      *)
(* event is published.                                                     *)
(***************************************************************************)
WriteFails(r) ==
  /\ \/ Proceed(r, "running", "refused") /\ (Faults \/ "database" \notin open)
     \/ Proceed(r, "writing", "refused") /\ Faults
  /\ UNCHANGED event

(* The goroutine that publishes starts, and the manager returns. *)
Announce(r) ==
  /\ Proceed(r, "written", "announced")
  /\ event' = [event EXCEPT ![r] = IF r \in Announced THEN "pending" ELSE @]

(* The answer goes out, and the request's context is cancelled. *)
Respond(r) == Proceed(r, "announced", "answered") /\ UNCHANGED event

(* The goroutine's one call, before the answer or after it. *)
Settle(r, outcome) ==
  /\ step # "exited"
  /\ event[r] = "pending"
  /\ event' = [event EXCEPT ![r] = outcome]
  /\ UNCHANGED request
  /\ UNCHANGED serviceVars

(* A context that is cancelled does not always stop it. *)
Publish(r) == "bus" \in open /\ Settle(r, "published")

(* It fails, which is logged: the context is cancelled, or the bus fails ... *)
PublishFails(r) ==
  Settle(r, "lost") /\ (Faults \/ request[r] = "answered")

(* ... or is closed. *)
PublishRefused(r) == Settle(r, "refused") /\ "bus" \notin open

-------------------------------------------------------------------------------

Start ==
  \/ InitDatabase \/ InitCache \/ InitEventBus
  \/ StartGRPC \/ StartHTTP \/ StartHTTPFails

Stop ==
  \/ StopHTTP \/ StopGRPC \/ Drain
  \/ CloseBus \/ CloseCache \/ CloseDatabase \/ AwaitConnections

Serve(r) ==
  \/ Accept(r) \/ Acquire(r) \/ Write(r) \/ WriteFails(r)
  \/ Announce(r) \/ Respond(r)
  \/ Publish(r) \/ PublishFails(r) \/ PublishRefused(r)

Next == Start \/ Signal \/ Stop \/ Exit \/ \E r \in Requests : Serve(r)

Spec == Init /\ [][Next]_vars

(***************************************************************************)
(* Stop runs on: each of its calls returns, the drain by its timeout, and  *)
(* the pool's Close once no connection is in use.                          *)
(***************************************************************************)
FairSpec == Spec /\ WF_vars(Stop)

-------------------------------------------------------------------------------

(***************************************************************************)
(* Each state has its values, and servers run only while Start has one     *)
(* more to start or Stop one more to stop, or the service is running.      *)
(***************************************************************************)
TypeOK ==
  /\ step \in StartSteps \cup StopSteps \cup Rests
  /\ serving # {} => step \in {"startHTTP", "running", "stopHTTP", "stopGRPC"}
  /\ step = "stopGRPC" => "http" \notin serving
  /\ open \subseteq Connections
  /\ serving \subseteq {"grpc", "http"}
  /\ request \in
       [Requests -> {"new", "running", "writing", "written", "announced",
                     "refused", "answered"}]
  /\ event \in [Requests -> {"none", "pending", "published", "lost", "refused"}]
  /\ impatient \in BOOLEAN

(***************************************************************************)
(* A request that is being handled finds the database, the cache and the   *)
(* bus open, from the first one accepted to the last one drained, unless   *)
(* the drain was given up.                                                 *)
(***************************************************************************)
RequestsAreDrained ==
  impatient \/ \A r \in Requests : InFlight(r) => open = Connections

(***************************************************************************)
(* The goroutine of a request that is still being handled does not find    *)
(* the bus closed.  Only one that outlives its request may, although Stop  *)
(* is documented to flush pending events, or one whose request the drain   *)
(* has given up.                                                           *)
(***************************************************************************)
BusOutlivesRequests ==
  \A r \in Requests :
    event[r] = "refused" => impatient \/ request[r] = "answered"

(***************************************************************************)
(* Once Stop has ended no statement is running in its name, also where the *)
(* drain went on with requests in flight.                                  *)
(***************************************************************************)
NothingRunsAfterStop == step = "stopped" => ~ (\E r \in Requests : Holds(r))

(***************************************************************************)
(* The inductive invariant of the proofs: what is open at each step, when  *)
(* no request may be in flight, and which requests have an event.          *)
(***************************************************************************)
OpenAt ==
  /\ step = "initDatabase" => open = {}
  /\ step = "initCache" => open = {"database"}
  /\ step = "initEventBus" => open = {"database", "cache"}
  /\ step \in {"startGRPC", "startHTTP", "running", "stopHTTP", "stopGRPC",
              "drain", "closeBus"} => open = Connections
  /\ step \in {"awaitConnections", "stopped"} => "database" \notin open

Quiet ==
  step \in {"initDatabase", "initCache", "initEventBus", "startGRPC",
            "closeBus", "closeCache", "closeDatabase", "awaitConnections",
            "stopped"}
    => impatient \/ ~ (\E r \in Requests : InFlight(r))

Published ==
  \A r \in Requests :
    event[r] # "none" => request[r] \in {"announced", "answered"}

IInv ==
  /\ TypeOK /\ OpenAt /\ Quiet /\ Published
  /\ RequestsAreDrained /\ BusOutlivesRequests /\ NothingRunsAfterStop

(***************************************************************************)
(* Stop ends, also with requests that never do, as long as each gives back *)
(* the connections it takes: past the drain only the pool's Close waits,   *)
(* and it waits for those alone.                                           *)
(***************************************************************************)
ConnectionsComeBack == \A r \in Requests : []<>(~ Holds(r))

StopEnds == ConnectionsComeBack => ((step = "stopHTTP") ~> (step = "stopped"))

===============================================================================
