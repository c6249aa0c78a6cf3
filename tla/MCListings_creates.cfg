\* Two creates of any table, two assets that come and go, every fault.
SPECIFICATION Spec
CONSTANTS
  a1 = a1
  a2 = a2
  ch = ch
  v = v
  i = i
  m1 = m1
  m2 = m2
  x = x
  s1 = s1
  s2 = s2
  coingecko = coingecko
  Assets = {a1, a2}
  Fixtures = {ch, v, i}
  Unregistered = {m1, m2, x}
  Symbols = {s1, s2}
  Sources = {coingecko}
  Callers = {c1, c2}
  Requests <- MCRequests
  DatabaseFails = TRUE
INVARIANTS TypeOK ReferencesExist NamesPassOnWithAssets RowsStay
PROPERTY ResolutionStable
