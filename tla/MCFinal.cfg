SPECIFICATION SpecFinal
CHECK_DEADLOCK FALSE
CONSTANTS
  p1 = p1
  Providers = {p1}
  NoOne = NoOne
  Slots = {0}
  Values = {10, 20}
  alice = alice
  Accounts = {alice}
  Proposer = alice
  Param <- FinalParam
  Spec0 <- FinalSpec
  JailingsWindow = 4
  BallotPeriod <- Ballots
  Supply = 2000
  Overpay = 0
  Gifts = {}
  MaxDisputes = 2
  ResolveLead <- Lead
  Updates <- Widening
  PruneBatches = {50}
  MinDisputeWindow = 1
  LongestDisputeWindow = 5
  BallotAllowance = 2
  MaxTime = 9
  DisputeUntil = 3
  LateUntil = 4
  LastPlayed = 1
PROPERTIES
  FinalFeedKept
  EveryAggregateSettles
