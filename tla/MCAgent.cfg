SPECIFICATION SpecServed
CHECK_DEADLOCK FALSE
SYMMETRY Symmetric
CONSTANTS
  p1 = p1
  p2 = p2
  Providers = {p1, p2}
  NoOne = NoOne
  Slots = {0, 1}
  Values = {10, 20}
  alice = alice
  Accounts = {alice}
  Proposer = alice
  Param <- ServedParam
  Spec0 <- ServedSpec
  JailingsWindow = 4
  BallotPeriod <- Ballots
  Supply = 830
  Overpay = 0
  Gifts = {}
  MaxDisputes = 0
  ResolveLead <- Lead
  Updates <- NoUpdates
  PruneBatches = {50}
  MinDisputeWindow = 1
  LongestDisputeWindow = 5
  BallotAllowance = 2
  MaxTime = 5
  Cfg <- AgentCfg
  GasRounds = 1
  MaxFaults = 1
PROPERTIES
  MissSlashCapped
  CoinsConserved
  OwnSubmissionKept
  PassDelivers
