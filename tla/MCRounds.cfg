SPECIFICATION SpecRounds
CHECK_DEADLOCK FALSE
SYMMETRY Symmetric
CONSTANTS
  p1 = p1
  p2 = p2
  Providers = {p1, p2}
  NoOne = NoOne
  Slots = {0, 1}
  Values = {10}
  alice = alice
  Accounts = {alice}
  Proposer = alice
  Param <- RoundsParam
  Spec0 <- RoundsSpec
  JailingsWindow = 4
  BallotPeriod <- Ballots
  Supply = 2000
  Overpay = 0
  Gifts = {}
  MaxDisputes = 0
  ResolveLead <- Lead
  Updates <- NoUpdates
  PruneBatches = {50}
  MinDisputeWindow = 1
  LongestDisputeWindow = 5
  BallotAllowance = 2
  MaxTime = 5
INVARIANTS
  SeatsOK
  OneSeatPerRound
  CrankNeverPanics
PROPERTIES
  HoldersOfRecordFixed
