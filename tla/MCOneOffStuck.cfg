SPECIFICATION SpecOneOff
CHECK_DEADLOCK FALSE
SYMMETRY Symmetric
CONSTANTS
  p1 = p1
  p2 = p2
  Providers = {p1, p2}
  NoOne = NoOne
  Slots = {0, 1}
  Values = {0, 1}
  alice = alice
  Accounts = {alice}
  Proposer = alice
  Param <- OneOffParam
  Spec0 <- OneOffSpec
  JailingsWindow = 4
  BallotPeriod <- Ballots
  Supply = 2000
  Overpay = 0
  Gifts = {5}
  MaxDisputes = 1
  ResolveLead <- ShortLead
  Updates <- NoUpdates
  PruneBatches = {50}
  MinDisputeWindow = 1
  LongestDisputeWindow = 5
  BallotAllowance = 2
  MaxTime = 6
INVARIANT
  FinalKeepsUp
