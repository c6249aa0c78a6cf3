------------------------- MODULE ServiceLifecycleProofs -------------------------
(***************************************************************************)
(* Proofs about ServiceLifecycle, for any set of requests.                 *)
(***************************************************************************)
EXTENDS ServiceLifecycle, TLAPS

(* Every step keeps the types. *)
LEMMA LifecycleTypeStep ==
  ASSUME TypeOK, [Next]_vars
  PROVE  TypeOK'
<1> USE DEF TypeOK, StartSteps, StopSteps, Rests, Connections
<1>1. CASE Start
  <2>1. CASE InitDatabase \/ InitCache \/ InitEventBus
    BY <2>1 DEF InitDatabase, InitCache, InitEventBus, Connect
  <2>2. CASE StartGRPC
    BY <2>2 DEF StartGRPC
  <2>3. CASE StartHTTP
    BY <2>3 DEF StartHTTP
  <2>4. CASE StartHTTPFails
    BY <2>4 DEF StartHTTPFails
  <2> QED
    BY <1>1, <2>1, <2>2, <2>3, <2>4 DEF Start
<1>2. CASE Signal
  BY <1>2 DEF Signal
<1>3. CASE Stop
  <2>1. CASE StopHTTP \/ StopGRPC
    BY <2>1 DEF StopHTTP, StopGRPC
  <2>2. CASE Drain
    BY <2>2 DEF Drain
  <2>3. CASE CloseBus \/ CloseCache \/ CloseDatabase
    BY <2>3 DEF CloseBus, CloseCache, CloseDatabase, Close
  <2>4. CASE AwaitConnections
    BY <2>4 DEF AwaitConnections
  <2> QED
    BY <1>3, <2>1, <2>2, <2>3, <2>4 DEF Stop
<1>4. ASSUME NEW r \in Requests, Serve(r)
      PROVE  TypeOK'
  BY <1>4 DEF Serve, Accept, Acquire, Write, WriteFails, Announce, Respond,
              Proceed, Publish, PublishFails, PublishRefused, Settle, serviceVars
<1>5. CASE Exit
  BY <1>5 DEF Exit
<1>6. CASE UNCHANGED vars
  BY <1>6 DEF vars
<1> QED
  BY <1>1, <1>2, <1>3, <1>4, <1>5, <1>6 DEF Next

(* The lifecycle's variables have the values they are meant to have. *)
THEOREM LifecycleTypeCorrect == Spec => []TypeOK
<1>1. Init => TypeOK
  BY DEF Init, TypeOK, StartSteps, StopSteps, Rests, Connections
<1> QED
  BY <1>1, LifecycleTypeStep, PTL DEF Spec

-------------------------------------------------------------------------------
(* Requests in flight.                                                     *)

(* What the steps of a request and of the rest have to keep. *)
Kept ==
  /\ OpenAt /\ Quiet /\ Published
  /\ RequestsAreDrained /\ BusOutlivesRequests /\ NothingRunsAfterStop

(* Start opens before it serves. *)
LEMMA StartStep ==
  ASSUME IInv, Start
  PROVE  Kept'
<1> USE DEF IInv, TypeOK, Kept, OpenAt, Quiet, Published, RequestsAreDrained,
            BusOutlivesRequests, NothingRunsAfterStop, Connections, InFlight, Holds
<1>1. CASE InitDatabase \/ InitCache \/ InitEventBus
  BY <1>1 DEF InitDatabase, InitCache, InitEventBus, Connect
<1>2. CASE StartGRPC
  BY <1>2 DEF StartGRPC
<1>3. CASE StartHTTP
  BY <1>3 DEF StartHTTP
<1>4. CASE StartHTTPFails
  BY <1>4 DEF StartHTTPFails
<1> QED
  BY <1>1, <1>2, <1>3, <1>4 DEF Start

(* Stop drains before it closes, and ends when no connection is in use. *)
LEMMA StopStep ==
  ASSUME IInv, Stop
  PROVE  Kept'
<1> USE DEF IInv, TypeOK, Kept, OpenAt, Quiet, Published, RequestsAreDrained,
            BusOutlivesRequests, NothingRunsAfterStop, Connections, InFlight, Holds
<1>1. CASE StopHTTP \/ StopGRPC
  BY <1>1 DEF StopHTTP, StopGRPC
<1>2. CASE Drain
  BY <1>2 DEF Drain
<1>3. CASE CloseBus \/ CloseCache \/ CloseDatabase
  BY <1>3 DEF CloseBus, CloseCache, CloseDatabase, Close
<1>4. CASE AwaitConnections
  BY <1>4 DEF AwaitConnections
<1> QED
  BY <1>1, <1>2, <1>3, <1>4 DEF Stop

(***************************************************************************)
(* A request enters flight only where the server accepts it and gets a     *)
(* connection only from an open pool; its goroutine finds the bus closed   *)
(* only after it.                                                          *)
(***************************************************************************)
LEMMA ServeStep ==
  ASSUME IInv, NEW r \in Requests, Serve(r)
  PROVE  Kept'
<1> USE DEF IInv, TypeOK, Kept, OpenAt, Quiet, Published, RequestsAreDrained,
            BusOutlivesRequests, NothingRunsAfterStop, Connections, InFlight, Holds
<1>1. CASE Accept(r)
  BY <1>1 DEF Accept, Proceed, serviceVars
<1>2. CASE Acquire(r)
  BY <1>2 DEF Acquire, Proceed, serviceVars
<1>3. CASE Write(r) \/ WriteFails(r) \/ Respond(r)
  BY <1>3 DEF Write, WriteFails, Respond, Proceed, serviceVars
<1>4. CASE Announce(r)
  BY <1>4 DEF Announce, Proceed, serviceVars
<1>5. CASE Publish(r) \/ PublishFails(r)
  BY <1>5 DEF Publish, PublishFails, Settle, serviceVars
<1>6. CASE PublishRefused(r)
  BY <1>6 DEF PublishRefused, Settle, serviceVars
<1> QED
  BY <1>1, <1>2, <1>3, <1>4, <1>5, <1>6 DEF Serve

LEMMA LifecycleInvariance == Spec => []IInv
<1>1. Init => IInv
  BY DEF Init, IInv, TypeOK, OpenAt, Quiet, Published, RequestsAreDrained,
         BusOutlivesRequests, NothingRunsAfterStop, StartSteps,
         StopSteps, Rests, Connections, InFlight
<1>2. IInv /\ [Next]_vars => IInv'
  <2> SUFFICES ASSUME IInv, [Next]_vars
               PROVE  Kept'
    BY LifecycleTypeStep DEF IInv, Kept
  <2> USE DEF IInv, TypeOK, Kept, OpenAt, Quiet, Published, RequestsAreDrained,
              BusOutlivesRequests, NothingRunsAfterStop, InFlight, Holds
  <2>1. CASE Signal
    BY <2>1 DEF Signal
  <2>2. CASE Exit
    BY <2>2 DEF Exit
  <2>3. CASE UNCHANGED vars
    BY <2>3 DEF vars
  <2> QED
    BY <2>1, <2>2, <2>3, StartStep, StopStep, ServeStep DEF Next
<1> QED
  BY <1>1, <1>2, PTL DEF Spec

(***************************************************************************)
(* Requests in flight find every connection open, from the first one       *)
(* accepted to the last one drained, however Start and Stop fail, unless   *)
(* the shutdown timeout has passed.                                        *)
(***************************************************************************)
THEOREM OpenWhileServing == Spec => []RequestsAreDrained
BY LifecycleInvariance, PTL DEF IInv

(***************************************************************************)
(* An event that is refused by the closed bus is that of a goroutine which *)
(* outlived its request, or of a request the drain gave up.                *)
(***************************************************************************)
THEOREM RefusedEventsOutlive == Spec => []BusOutlivesRequests
BY LifecycleInvariance, PTL DEF IInv

(* When Stop has ended no request runs a statement, drained or not. *)
THEOREM StoppedForGood == Spec => []NothingRunsAfterStop
BY LifecycleInvariance, PTL DEF IInv
===============================================================================
