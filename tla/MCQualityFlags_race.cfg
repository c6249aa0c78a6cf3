\* Three handlers, two assets, two flags, with failing statements.
SPECIFICATION Spec
CONSTANTS
  Handlers = {h1, h2, h3}
  Assets = {a1, a2}
  Flags = {f1, f2}
  People = {p1, p2}
  Admitted = {"INFO", "CRITICAL"}
  NoRow = NoRow
  Active = Active
  DatabaseFails = TRUE
SYMMETRY Symmetry
INVARIANTS TypeOK FlagsHaveAssets ResolvedOnce
PROPERTIES ResolutionFinal CriticalUntilResolved
