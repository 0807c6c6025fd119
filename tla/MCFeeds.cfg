SPECIFICATION SpecFeeds
CHECK_DEADLOCK FALSE
CONSTANTS
  p1 = p1
  Providers = {p1}
  NoOne = NoOne
  Slots = {0}
  Values = {10}
  alice = alice
  Accounts = {alice}
  Proposer = alice
  Param <- FeedsParam
  Spec0 <- RecurringSpec
  JailingsWindow = 4
  BallotPeriod <- Ballots
  Supply = 40
  Overpay = 5
  Gifts = {5}
  MaxDisputes = 0
  ResolveLead <- Lead
  Updates <- Changes
  PruneBatches = {1, 50}
  MinDisputeWindow = 1
  LongestDisputeWindow = 5
  BallotAllowance = 2
  MaxTime = 5
  Until = 2
INVARIANTS
  ExitNeverPanics
PROPERTIES
  CoinsConserved
