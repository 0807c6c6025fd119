SPECIFICATION SpecProposals
CHECK_DEADLOCK FALSE
CONSTANTS
  Scale = 100
  MaxAccPerShare = 100000
  TopK = 2
  Members <- ProposalsMembers
  Param <- ProposalsParam
  Payloads <- ProposalsPayloads
  Rules <- ProposalsRules
  Deposits = {0, 2}
  MaxProposals = 1
  Year = 100
  Stakes = {10}
  MaxFees = 4
  Disputes = {1}
  VoterShares = {0}
  Allotted = 20
  Treasury = 3
  MaxTime = 7
  MaxEpoch = 2
INVARIANTS
  TurnoutExact
PROPERTIES
  TreasuryGuarded
