SPECIFICATION SpecStakes
CHECK_DEADLOCK FALSE
CONSTANTS
  Scale = 10
  MaxAccPerShare = 100000
  TopK = 2
  Members <- StakesMembers
  Param <- StakesParam
  Payloads <- NoPayloads
  Rules <- NoRules
  Deposits = {0}
  MaxProposals = 0
  Year = 100
  Stakes = {10, 20}
  MaxFees = 0
  Disputes = {1}
  VoterShares = {100}
  Allotted = 20
  Treasury = 5
  MaxTime = 6
  MaxEpoch = 3
  MovesUntil = 2
INVARIANTS
  StakesAddUp
  StakeWaits
PROPERTIES
  EverySettled
  SealedWeightFixed
