------------------------------ MODULE MCStakes ------------------------------
(* Two members stake, unstake and withdraw while epochs pass, fees arrive and *)
(* a dispute is voted on.                                                     *)
EXTENDS Dao

CONSTANT MovesUntil   \* bound: the last block time at which stake is moved

StakesParam ==
  [stakerFeeShareBps |-> 5000, absenceSlashBps |-> 1000, abstainSlashBps |-> 500, incoherenceSlashBps |-> 2000,
   maxPenaltyPerWindowBps |-> 2500, penaltyWindow |-> 50, maxVoterShareBps |-> 5000,
   disputeQuorumBps |-> <<4000, 2500>>, decisionBps |-> <<6000, 5500>>,
   commitPeriod |-> <<1, 1>>, revealPeriod |-> <<1, 1>>, appealWindow |-> 1,
   settleMaxN |-> 1, minStake |-> 10, unstakeCooldown |-> 1]

StakesMembers == 1..2
NoPayloads == {}
NoRules == << >>

Begun == MemberStake(EmptyStore, 1, 20)

StakesInit ==
  /\ now = 1 /\ epoch = 1 /\ minted = << >>
  /\ disputes = [d \in Disputes |-> NoDispute]
  /\ Begun.ok /\ Installed(Begun)

\* Member 1 may leave, and come back; member 2 may join.
Moved ==
  /\ \/ now <= MovesUntil /\ \E m \in Members : Stake(m, 20)
     \/ now <= MovesUntil /\ \E amount \in Stakes : RequestUnstake(1, amount)
     \/ \E m \in Members : SettleMember(m, 1)
     \/ Withdraw(1)
     \/ (\A d \in Disputes : disputes[d].status = "resolved") /\ ClaimRewards(1)
  /\ UNCHANGED <<disputes, minted>>

Voted ==
  /\ \E m \in Members, d \in Disputes : CommitVote(m, d, "UPHOLD") \/ RevealVote(m, d)
  /\ UNCHANGED <<disputes, minted>>

Ruled ==
  /\ \E d \in Disputes :
       \/ now = 1 /\ OpenDisputeVote(d, FALSE)
       \/ ResolveOpen(d) \/ OpenAppealRound(d)
       \/ \E amount \in VoterShares : ResolveDecided(d, amount) \/ ResolveAppealed(d, amount)
  /\ UNCHANGED minted

StakesNext ==
  \/ Tick
  \/ NextEpoch
  \/ Moved
  \/ Voted
  \/ Ruled

SpecStakes == StakesInit /\ [][StakesNext]_vars /\ Fairness

=============================================================================
