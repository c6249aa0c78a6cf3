\* Two handlers, three assets, one type: every interleaving, with failing
\* statements and searches cut at the page limit.
SPECIFICATION Spec
CONSTANTS
  Assets = {a1, a2, a3}
  Types = {wraps}
  Callers = {c1, c2}
  Admitted = {wraps}
  PageLimit = 1
  DatabaseFails = TRUE
SYMMETRY Symmetry
INVARIANTS TypeOK ReferentialIntegrity SearchInv CyclesNeedAGap
PROPERTIES RefusalsJustified ImplementsCheckedGraph
