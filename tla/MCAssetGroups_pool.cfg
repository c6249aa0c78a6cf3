\* A pool of two, one caller without a deadline.
SPECIFICATION FairSpec
CONSTANTS
  a1 = a1
  a2 = a2
  g1 = g1
  g2 = g2
  Assets = {a1, a2}
  Groups = {g1, g2}
  Callers = {c1, c2}
  Requests <- MCRequests
  PoolSize = 2
  Patient = {c1}
  DatabaseFails = TRUE
INVARIANTS TypeOK MembersExist ListingsHonest
PROPERTIES MembershipsLast RequestsAreAnswered
