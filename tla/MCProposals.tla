----------------------------- MODULE MCProposals -----------------------------
(* Proposals in a realm that owes rewards: member 1 was the only voter of a   *)
(* dispute, member 2 is still to be charged for its absence, and member 3     *)
(* stakes nothing.                                                            *)
EXTENDS Dao

ProposalsParam ==
  [stakerFeeShareBps |-> 5000, absenceSlashBps |-> 1000, abstainSlashBps |-> 500, incoherenceSlashBps |-> 2000,
   maxPenaltyPerWindowBps |-> 2500, penaltyWindow |-> 50, maxVoterShareBps |-> 5000,
   disputeQuorumBps |-> <<4000, 2500>>, decisionBps |-> <<6000, 5500>>,
   commitPeriod |-> <<1, 1>>, revealPeriod |-> <<1, 1>>, appealWindow |-> 1,
   settleMaxN |-> 2, minStake |-> 10, unstakeCooldown |-> 3,
   proposeBps |-> 1000, proposalDeposit |-> 2, maxActiveProposals |-> 2, executionWindow |-> 1,
   maxMintPerYearBps |-> 200]

ProposalsMembers == 1..3

Payload(kind, amount, m, until) == [kind |-> kind, amount |-> amount, member |-> m, until |-> until]

ProposalsPayloads ==
  { Payload("treasury-ugnot", 1, 3, 0), Payload("treasury-pyth", 2, 3, 0), Payload("mint", 1, 3, 0),
    Payload("vesting", 20, 1, 9), Payload("external", 0, 1, 0) }

\* Bars as in kindRules; a voting period and a timelock of one.
Rule(quorumBps, thresholdBps, timelock) ==
  [quorumBps |-> quorumBps, thresholdBps |-> thresholdBps, voting |-> 1, timelock |-> timelock]

ProposalsRules ==
  [kind \in {"treasury-ugnot", "treasury-pyth", "mint", "vesting", "external"} |->
     CASE kind = "mint" -> Rule(2500, 6600, 1)
       [] kind = "vesting" -> Rule(2500, 6600, 1)
       [] kind = "external" -> Rule(1500, 5000, 0)
       [] OTHER -> Rule(2000, 6600, 1)]

Begun == MemberStake(MemberStake(EmptyStore, 1, 20), 2, 20)

ProposalsInit ==
  /\ now = 1 /\ epoch = 1 /\ minted = << >>
  /\ disputes = [d \in Disputes |-> NoDispute]
  /\ Begun.ok /\ Installed(Begun)

\* First the dispute: opened in epoch 2, voted on by member 1 alone.
Disputing == \E d \in Disputes : disputes[d].status # "resolved"

HasVoted == 1 \in DOMAIN (IF now = 1 THEN ballots[1].commits ELSE ballots[1].reveals)

Disputed ==
  \/ epoch = 1 /\ NextEpoch
  \/ /\ \E d \in Disputes :
          \/ epoch = 2 /\ OpenDisputeVote(d, FALSE)
          \/ ResolveOpen(d)
          \/ \E amount \in VoterShares : ResolveDecided(d, amount)
     /\ UNCHANGED minted
  \/ (\E d \in Disputes : CommitVote(1, d, "UPHOLD") \/ RevealVote(1, d)) /\ UNCHANGED <<disputes, minted>>
  \/ 1 \in DOMAIN ballots /\ HasVoted /\ Tick

\* Then proposals by members 1 and 3, while rewards and fees are claimed.
Proposed ==
  \/ \E m \in {1, 3}, payload \in Payloads, sent \in Deposits : Propose(m, payload, sent)
  \/ \E m \in Members, id \in DOMAIN proposals :
       Cancel(m, id) \/ \E choice \in ProposalChoices : Vote(m, id, choice)
  \/ \E id \in DOMAIN proposals, succeeds \in BOOLEAN : Execute(id, succeeds)

Claimed1 ==
  \/ \E m \in 1..2 : SettleMember(m, 1)
  \/ ClaimRewards(1)
  \/ ClaimFees(1)
  \/ SyncFees
  \/ CoinsArrive(MaxFees)

Proposing ==
  \/ Proposed /\ UNCHANGED disputes
  \/ Claimed1 /\ UNCHANGED <<disputes, minted>>
  \/ Tick

ProposalsNext ==
  \/ Disputing /\ Disputed
  \/ ~Disputing /\ Proposing

SpecProposals == ProposalsInit /\ [][ProposalsNext]_vars

-----------------------------------------------------------------------------

\* One member proposes, and withdraws what it proposed.
ActiveNext ==
  \/ epoch = 1 /\ NextEpoch
  \/ /\ \/ \E payload \in Payloads : Propose(1, payload, 0)
        \/ \E id \in DOMAIN proposals : Cancel(1, id)
     /\ UNCHANGED disputes

TextOnly == { Payload("external", 0, 1, 0) }

SpecActive == ProposalsInit /\ [][ActiveNext]_vars

=============================================================================
