SPECIFICATION SpecBallots
CHECK_DEADLOCK FALSE
CONSTANTS
  Scale = 10
  MaxAccPerShare = 100000
  TopK = 2
  Members <- BallotsMembers
  Param <- BallotsParam
  Payloads <- BallotsPayloads
  Rules <- BallotsRules
  Deposits = {0}
  MaxProposals = 0
  Year = 100
  Stakes = {10}
  MaxFees = 0
  Disputes = {1}
  VoterShares = {100}
  Allotted = 70
  Treasury = 5
  MaxTime = 5
  MaxEpoch = 2
INVARIANTS
  DaoTypeOK
  CoinsCovered
  TurnoutExact
  CursorWaits
  ClientsSeeBallots
PROPERTIES
  PenaltiesCapped
  KeepsHouse
