\* A handler whose searches may fail, so that the table may hold cycles the
\* next search runs into, and a type whose label the schema refuses.
SPECIFICATION FairSpec
CONSTANTS
  Assets = {a1, a2, a3}
  Types = {wraps, other}
  Callers = {c1}
  Admitted = {wraps}
  PageLimit = 3
  DatabaseFails = TRUE
PROPERTY RequestsAreAnswered
