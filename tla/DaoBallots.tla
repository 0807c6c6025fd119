----------------------------- MODULE DaoBallots -----------------------------
(* Dispute ballots (dao/impl/v1/ballots.gno): sealed at the epoch in which   *)
(* they open, commit, then reveal, decided, rolled once, appealed once.      *)
(*                                                                           *)
(* The core asks for them; its side is the status of a dispute, which moves  *)
(* as core/impl/v1/disputes.gno moves it (module CoreDisputes has the whole  *)
(* of it).  A commitment is the choice it hides.                             *)
EXTENDS DaoMembers

CONSTANTS
  Disputes,     \* numbers of disputes
  VoterShares   \* what the core may send for the voters of a dispute

ASSUME BallotsAssumption == CapAllowed(Param.maxVoterShareBps) /\ VoterShares \subseteq Nat

VARIABLE disputes  \* the core's side: status and whether the major tier is asked

NoDispute == [status |-> "none", majorRequested |-> FALSE]

MarkDispute(d, status) == disputes' = [disputes EXCEPT ![d].status = status]

\* The dispute's latest ballot, 0 when it has none.
BallotOf(st, d) ==
  LET seqs == { seq \in DOMAIN st.ballots : st.ballots[seq].dispute = d } IN
  IF seqs = {} THEN 0 ELSE Max(seqs)

BallotRules(b) ==
  [quorumBps |-> Param.disputeQuorumBps[b.round], decisionBps |-> Param.decisionBps[b.round],
   majorRequested |-> b.majorRequested]

\* Sealed at the epoch of now, with the weights of its beginning.
OpenBallot(st, d, round, major, prev) ==
  LET commitEnds == now + Param.commitPeriod[round] IN
  NewBallot(st, d, round, major, TotalPowerAt(st, epoch), commitEnds, commitEnds + Param.revealPeriod[round], prev)

\* Mutant: what a member has today, whenever it staked it.
MemberWeightLive(st, m, sealed) == IF st.members[m].known THEN Live(st.members[m]) ELSE 0

\* What a member may vote with: its sealed weight, or what is left of it.
MemberWeight(st, m, sealed) ==
  IF st.members[m].known THEN Lesser(PowerAt(st, m, sealed), Live(st.members[m])) ELSE 0

-----------------------------------------------------------------------------
(* Voters.                                                                   *)

CanCommit(seq) == seq \in DOMAIN ballots /\ ballots[seq].phase = "commit" /\ now < ballots[seq].commitEnds

CommitVote(m, d, choice) ==
  LET seq == BallotOf(Store, d) IN
  /\ CanCommit(seq)
  /\ MemberWeight(Store, m, ballots[seq].sealed) > 0
  /\ Commit(BallotCommit(Store, seq, m, choice))

CanReveal(seq) ==
  /\ seq \in DOMAIN ballots /\ ballots[seq].phase # "resolved"
  /\ ballots[seq].commitEnds <= now /\ now < ballots[seq].revealEnds

Revealed(st, seq, m, choice, weight) ==
  BallotReveal(st, seq, m, choice, weight,
               ReplaceTop(st.ballots[seq].top, [voter |-> m, choice |-> choice, weight |-> weight]))

\* Only what was committed can be revealed, and only a choice the ballot offers.
RevealVote(m, d) ==
  LET seq == BallotOf(Store, d) IN
  /\ CanReveal(seq)
  /\ m \in DOMAIN ballots[seq].commits
  /\ ValidChoice(ballots[seq].commits[m], ballots[seq].majorRequested)
  /\ MemberWeight(Store, m, ballots[seq].sealed) > 0
  /\ Commit(Revealed(Store, seq, m, ballots[seq].commits[m], MemberWeight(Store, m, ballots[seq].sealed)))

-----------------------------------------------------------------------------
(* Deciding.                                                                 *)

\* The decision on the clipped tally; a second round that decides nothing voids the dispute.
Verdict(b) ==
  LET res == Decide(Clip(b.tally, b.top, Param.maxVoterShareBps, b.obligated), b.obligated, BallotRules(b))
  IN IF res.outcome = "ROLL" /\ b.round = 2 THEN [outcome |-> "VOID", tier |-> ""] ELSE res

\* Mutant: pool and coherent weight follow the clipped tally.
ResolveAsClipped(st, seq, b, res) ==
  LET clipped == Clip(b.tally, b.top, Param.maxVoterShareBps, b.obligated) IN
  BallotResolve(st, seq, res.outcome, res.tier, CoherentWeight(clipped, res.outcome),
                ExpectedPenaltyPool(clipped, res.outcome, b.obligated, Rates))

\* Pool and coherent weight follow what members really revealed.
ResolveAs(st, seq, b, res) ==
  BallotResolve(st, seq, res.outcome, res.tier, CoherentWeight(b.tally, res.outcome),
                ExpectedPenaltyPool(b.tally, res.outcome, b.obligated, Rates))

\* Mutant: a vote that decides nothing is not followed by another.
FinishedOnce(st, seq, b, res) == ResolveAs(st, seq, b, res)

\* FinishDisputeVote, once the reveal phase is over: a first round that decides nothing is
\* followed by a second.
Finished(st, seq, b, res) ==
  LET resolved == ResolveAs(st, seq, b, res) IN
  IF res.outcome = "ROLL" THEN OpenBallot(resolved, b.dispute, 2, b.majorRequested, seq) ELSE resolved

\* The core funds the dispute's latest ballot, and with it the first round if it still waits.
FundVoters(st, seq, amount) ==
  LET funded == BallotFund(Require([st EXCEPT !.ugnot = @ + amount], st.ballots[seq].phase = "resolved"), seq, amount)
      prev == st.ballots[seq].prev
  IN IF prev # 0 /\ ~st.ballots[prev].final THEN BallotFund(funded, prev, 0) ELSE funded

-----------------------------------------------------------------------------
(* What the core does with a dispute.                                        *)

OpenDisputeVote(d, major) ==
  /\ disputes[d].status = "none"
  /\ Commit(OpenBallot(Require(Store, BallotOf(Store, d) = 0), d, 1, major, 0))
  /\ disputes' = [disputes EXCEPT ![d] = [status |-> "open", majorRequested |-> major]]

BallotEnded(seq) == seq \in DOMAIN ballots /\ ballots[seq].phase # "resolved" /\ now >= ballots[seq].revealEnds

Ended(st, seq) == Finished(st, seq, st.ballots[seq], Verdict(st.ballots[seq]))

FirstDue(d) == disputes[d].status = "open" /\ BallotEnded(BallotOf(Store, d))
WindowDue(d) == disputes[d].status = "decided" /\ now >= ballots[BallotOf(Store, d)].resolvedAt + Param.appealWindow
SecondDue(d) == disputes[d].status = "appealed" /\ BallotEnded(BallotOf(Store, d))

\* A first ballot that ended: rolled into a second, or decided.
ResolveOpen(d) ==
  /\ FirstDue(d)
  /\ Commit(Ended(Store, BallotOf(Store, d)))
  /\ MarkDispute(d, IF Verdict(ballots[BallotOf(Store, d)]).outcome = "ROLL" THEN "appealed" ELSE "decided")

\* A decision nobody appealed is applied, and its ballot funded.
ResolveDecided(d, amount) ==
  /\ WindowDue(d)
  /\ Commit(FundVoters(Store, BallotOf(Store, d), amount))
  /\ MarkDispute(d, "resolved")

\* A second ballot that ended is decided, applied and funded at once.
ResolveAppealed(d, amount) ==
  LET seq == BallotOf(Store, d) IN
  /\ SecondDue(d)
  /\ Commit(FundVoters(Ended(Store, seq), seq, amount))
  /\ MarkDispute(d, "resolved")

\* An appeal supersedes the first ballot and opens the second.
Superseded(st, seq, b) ==
  OpenBallot(BallotSupersede(Require(st, b.phase = "resolved" /\ b.round = 1 /\ ~b.final), seq,
                             ExpectedPenaltyPool(b.tally, "ROLL", b.obligated, Rates)),
             b.dispute, 2, b.majorRequested, seq)

OpenAppealRound(d) ==
  LET seq == BallotOf(Store, d) IN
  /\ disputes[d].status = "decided"
  /\ now < ballots[seq].resolvedAt + Param.appealWindow
  /\ Commit(Superseded(Store, seq, ballots[seq]))
  /\ MarkDispute(d, "appealed")

VoterOps ==
  /\ \E m \in Members, d \in Disputes : RevealVote(m, d) \/ \E choice \in BallotChoices : CommitVote(m, d, choice)
  /\ UNCHANGED disputes

CoreOps ==
  \E d \in Disputes :
    \/ \E major \in BOOLEAN : OpenDisputeVote(d, major)
    \/ ResolveOpen(d)
    \/ \E amount \in VoterShares : ResolveDecided(d, amount) \/ ResolveAppealed(d, amount)
    \/ OpenAppealRound(d)

=============================================================================
