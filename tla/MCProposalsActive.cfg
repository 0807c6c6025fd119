SPECIFICATION SpecActive
CHECK_DEADLOCK FALSE
CONSTANTS
  Scale = 10
  MaxAccPerShare = 100000
  TopK = 2
  Members <- ProposalsMembers
  Param <- ProposalsParam
  Payloads <- TextOnly
  Rules <- ProposalsRules
  Deposits = {0, 2}
  MaxProposals = 7
  Year = 100
  Stakes = {10}
  MaxFees = 4
  Disputes = {1}
  VoterShares = {0}
  Allotted = 20
  Treasury = 3
  MaxTime = 7
  MaxEpoch = 2
INVARIANT
  ActiveBounded
