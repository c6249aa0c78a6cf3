\* Two handlers, an asset and the chain it is native to, every fault.
SPECIFICATION FairSpec
CONSTANTS
  a1 = a1
  ch1 = ch1
  Handlers = {h1, h2}
  Assets = {a1}
  Chains = {ch1}
  NativeAsset <- NativeA1
  MaxWrites = 2
  Faults = TRUE
INVARIANTS TypeOK StaleCopiesExplained
PROPERTIES DeletedStaysDeleted Converges
