\* A reader and a writer of one asset, no faults.
SPECIFICATION Spec
CONSTANTS
  a1 = a1
  ch1 = ch1
  Handlers = {h1, h2}
  Assets = {a1}
  Chains = {}
  NativeAsset <- NoChains
  MaxWrites = 3
  Faults = FALSE
INVARIANT InvalidatedByUpdates
