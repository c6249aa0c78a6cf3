\* Three requests, one of a kind that publishes nothing, with faults.
SPECIFICATION FairSpec
CONSTANTS
  Requests = {r1, r2, r3}
  Announced = {r1, r2}
  Faults = TRUE
CHECK_DEADLOCK FALSE
INVARIANTS TypeOK RequestsAreDrained BusOutlivesRequests NothingRunsAfterStop
PROPERTY StopEnds
