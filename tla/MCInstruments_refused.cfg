\* Two creates of any kind, two assets that come and go, no faults.
SPECIFICATION Spec
CONSTANTS
  a1 = a1
  a2 = a2
  k1 = k1
  k2 = k2
  Assets = {a1, a2}
  Codes = {k1, k2}
  Ids = {i1, i2}
  Callers = {c1, c2}
  Requests <- MCRequests
  DatabaseFails = FALSE
PROPERTY RefusedCreatesNothing
