SPECIFICATION Spec
CHECK_DEADLOCK FALSE
CONSTANTS
  MaxStart = 3
  MaxInterval = 4
  MaxTime = 14
  Limit = 5
  Slots = {0, 1, 2, 3, 4}
  Values = {0, 10, 11, 20}
  Tolerances = {1, 1000, 5000}
  Holders = {1, 2}
  MaxShares = 3
  Fees = {1, 5}
  MaxBumps = 3
  MaxMoves = 4
  MaxSources = 4
  IntMax = 127
  Events = {1}
  MaxBlocks = 2
  StartHeight = 0
  MaxHeight = 3
  MaxMishaps = 2
  Order <- BotOrder
  Gate <- BotGate
  Throttle <- BotThrottle
  CrankEvery = 1
  StartClock = 2
  EndClock = 6
  MaxFailures = 1
  Voters = {"v", "w"}
  VoteChoices = {"UPHOLD", "OVERTURN"}
  LastRound = 2
  MaxSalts = 3
  MaxTroubles = 2
  StakeDelay = 1
  SealAfter = 1
  AnswerWindow = 2
  PriorityWindow = 1
  SettleAfter = 1
  VotePeriod = 2
  Escrow = 1
  DeadAfter = 6
  StakeSize = 2
  Bond = 1
  MaxHour = 8
  MaxDeeds = 2
  Scale = 10
  MaxAccPerShare = 60
INVARIANTS
  CrankersSeeBacklog
  MedianOK
  LeakBounded
  SourcesOK
  EveryEventTried
  RetriedSoon
  SaltKept
  MirrorMovesOn
