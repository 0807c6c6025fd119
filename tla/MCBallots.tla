------------------------------ MODULE MCBallots ------------------------------
(* Three members vote on a dispute, in one round or in two: votes kept back,  *)
(* revealed in any order, appealed, decided either way or not at all, and     *)
(* settlements that lag behind.                                               *)
EXTENDS Dao

BallotsParam ==
  [stakerFeeShareBps |-> 5000, absenceSlashBps |-> 1000, abstainSlashBps |-> 500, incoherenceSlashBps |-> 2000,
   maxPenaltyPerWindowBps |-> 2500, penaltyWindow |-> 50, maxVoterShareBps |-> 5000,
   disputeQuorumBps |-> <<4000, 2500>>, decisionBps |-> <<6000, 5500>>,
   commitPeriod |-> <<1, 1>>, revealPeriod |-> <<1, 1>>, appealWindow |-> 1,
   settleMaxN |-> 2, minStake |-> 10, unstakeCooldown |-> 3]

BallotsMembers == 1..3

\* What members may vote, by round.
Said ==
  << <<{"OVERTURN_MINOR"}, {"UPHOLD", "ABSTAIN"}, {"UPHOLD", "OVERTURN"}>>,
     <<{}, {"VOID", "OVERTURN"}, {"OVERTURN"}>> >>

BallotsPayloads == {}
BallotsRules == << >>

\* What member m has staked: one member has more than the cap.
Weight(m) == <<10, 30, 60>>[m]

Begun == FoldLeft(LAMBDA st, m : MemberStake(st, m, Weight(m)), EmptyStore, <<1, 2, 3>>)

BallotsInit ==
  /\ now = 1 /\ epoch = 1 /\ minted = << >>
  /\ disputes = [d \in Disputes |-> NoDispute]
  /\ Begun.ok /\ Installed(Begun)

RoundOf(d) == IF disputes[d].status = "appealed" THEN 2 ELSE 1

Voted ==
  /\ \E m \in Members, d \in Disputes :
       RevealVote(m, d) \/ \E choice \in Said[RoundOf(d)][m] : CommitVote(m, d, choice)
  /\ UNCHANGED <<disputes, minted>>

SecondRound == \E d \in Disputes : disputes[d].status = "appealed"

\* Any member is settled at any time, and member 2 may stake what it was charged
\* while the second round is on;
\* rewards are claimed at the end.
Settled ==
  /\ \E m \in Members :
       \/ SettleMember(m, 1)
       \/ m = 2 /\ SecondRound /\ members[m].staked < Weight(m) /\ \E amount \in Stakes : Stake(m, amount)
       \/ (\A d \in Disputes : disputes[d].status = "resolved") /\ ClaimRewards(m)
  /\ UNCHANGED <<disputes, minted>>

\* The dispute comes before any time passes: in the epoch in which members staked, when no
\* stake counts yet, or in the next.
Unasked == \A d \in Disputes : disputes[d].status = "none"

BallotsNext ==
  \/ ~Unasked /\ Tick
  \/ Unasked /\ NextEpoch
  \/ Voted
  \/ CoreOps /\ UNCHANGED minted
  \/ Settled

SpecBallots == BallotsInit /\ [][BallotsNext]_vars

=============================================================================
