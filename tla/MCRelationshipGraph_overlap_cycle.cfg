\* Two overlapping handlers, every statement answered.
SPECIFICATION Spec
CONSTANTS
  Assets = {a1, a2, a3}
  Types = {wraps}
  Callers = {c1, c2}
  Admitted = {wraps}
  PageLimit = 3
  DatabaseFails = FALSE
INVARIANT NoCycles
