\* Two runs of either kind, in any order and overlapping, with failing calls.
SPECIFICATION Spec
CONSTANTS
  eth = eth
  weth = weth
  ethereum = ethereum
  r1 = r1
  r2 = r2
  Symbols = {eth, weth}
  Chains = {ethereum}
  Wanted <- MCWanted
  Runs = {r1, r2}
  Kind <- MCKind
  Matching <- MCMatching
  PageSize = 2
  CallsFail = TRUE
CHECK_DEADLOCK FALSE
INVARIANTS TypeOK OncePerRun RerunsSkip DeploymentsFindHome
