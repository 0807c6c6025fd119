---------------------------- MODULE CoreDisputes ----------------------------
(* Disputes of finalised rounds, appeals, their resolution, and the reopening *)
(* of a one-off feed (impl/v1/disputes.gno).                                  *)
(*                                                                            *)
(* The ballots are the DAO realm's (core/hooks.gno, BallotHouse): here a      *)
(* ballot runs for its period and then has any outcome the DAO can report.    *)
EXTENDS CoreRounds

CONSTANTS
  MaxDisputes,   \* bound: disputes ever opened
  ResolveLead    \* bounds of a new resolve time, a record with fields min and max

\* What FinishDisputeVote may report: only an overturn has a tier, a minor ask is never
\* answered with a major one, and only a first round rolls.
BallotOutcomes(d) ==
  { [outcome |-> "OVERTURN", tier |-> t] : t \in {"minor", d.tierAsked} }
  \cup { [outcome |-> o, tier |-> ""] :
           o \in IF d.ballotRound = 1 THEN {"UPHOLD", "VOID", "ROLL"} ELSE {"UPHOLD", "VOID"} }

BallotDone(d) == now >= d.ballotEnds

NewDispute(st, id, bond, proposed, tier) ==
  LET rd == st.rounds[id]
      d == [status |-> "open", round |-> id, bond |-> bond, proposedValue |-> proposed,
            tierAsked |-> tier, ballotRound |-> 1, ballotEnds |-> now + BallotPeriod[1],
            outcome |-> "", firstOutcome |-> "", tierDecided |-> "", decidedAt |-> 0,
            appealBond |-> 0, priorTier |-> rd.tier]
  IN [Inflow(st, bond) EXCEPT !.disputes = Append(@, d), !.held.bonds = @ + bond]

\* max(minDisputeBond, a share of the seated stake), doubled per recent dispute, at most 16 times.
DisputeBond ==
  LET seated == { slots[s] : s \in { x \in Slots : slots[x] # NoOne } }
      stake == SumFunction([p \in seated |-> providers[p].stake])
      share == MulBps(stake, Param.disputeBondBps)
      bond == IF share < Param.minDisputeBond THEN Param.minDisputeBond ELSE share
  IN IF now - feed.lastDisputeAt < Param.disputeEscalationWindow
     THEN bond * <<1, 2, 4, 8, 16>>[Smaller(feed.disputesInRow, 4) + 1] ELSE bond

\* Mutant: a round may be disputed long after its window.
DisputableForEver(id) ==
  id \in DOMAIN rounds /\ rounds[id].status = "aggregated" /\ ~Unresolved(Store, rounds[id].disputeID)

Disputable(id) ==
  /\ feed.status \notin {"none", "proposed", "pruned"}
  /\ id \in DOMAIN rounds
  /\ rounds[id].status = "aggregated"
  /\ ~Unresolved(Store, rounds[id].disputeID)
  /\ now < rounds[id].finalisedAt + feed.disputeWindow

Dispute(acct, id, proposed, tier) ==
  /\ Disputable(id)
  /\ proposed # rounds[id].value
  /\ Len(disputes) < MaxDisputes
  /\ \E sent \in Payments(DisputeBond) :
       LET paid == CreditExcess(Receive(Store, sent), acct, sent, DisputeBond)
           marked == RoundMarkDisputed(NewDispute(paid, id, DisputeBond, proposed, tier), id, Len(disputes) + 1)
           inRow == IF now - feed.lastDisputeAt >= Param.disputeEscalationWindow THEN 0 ELSE feed.disputesInRow
       IN Commit([marked EXCEPT !.feed.openDisputes = @ + 1, !.feed.disputesInRow = inRow + 1,
                                !.feed.lastDisputeAt = now])

Appeal(acct, d) ==
  /\ disputes[d].status = "decided"
  /\ now < disputes[d].decidedAt + Param.appealWindow
  /\ LET bond == disputes[d].bond * Param.appealBondMultiple IN
     \E sent \in Payments(bond) :
       LET st == Inflow(CreditExcess(Receive(Store, sent), acct, sent, bond), bond) IN
       Commit([st EXCEPT !.disputes[d].status = "appealed", !.disputes[d].appealBond = bond,
                         !.disputes[d].ballotRound = 2, !.disputes[d].ballotEnds = now + BallotPeriod[2],
                         !.held.bonds = @ + bond])

-----------------------------------------------------------------------------
(* Applying an outcome. *)

\* Mutant: the fees get all that is consumed, and the voters half of it.
ConsumeBondTwice(st, bond, bps) ==
  LET consumed == MulBps(bond, bps) IN
  BondRelease(BondToFees(FundVoters(st, consumed \div 2), consumed), bond - consumed)

\* Half of what is consumed of a bond goes to the voters, the rest to the fees.
ConsumeBond(st, bond, bps) ==
  LET consumed == MulBps(bond, bps)
      half == consumed \div 2
  IN BondRelease(BondToFees(FundVoters(st, half), consumed - half), bond - consumed)

SettleAppealBond(st, d, outcome) ==
  IF d.appealBond = 0 THEN st
  ELSE IF outcome # d.firstOutcome THEN BondRelease(st, d.appealBond)
  ELSE ConsumeBond(st, d.appealBond, Param.appealConsumeBps)

\* The providers whose submission to the disputed round the dispute refuted.
Refuted(st, d) ==
  LET subs == st.rounds[d.round].subs
      right(v) == IF Spec0.numeric THEN WithinTolerance(v, d.proposedValue, st.feed.toleranceBps)
                                   ELSE v = d.proposedValue
  IN { SlotHolderAt(st.slotlog, s, d.round) : s \in { x \in DOMAIN subs : ~right(subs[x]) } } \ {NoOne}

\* minorsToMajor minor slashes within a provider epoch escalate to a major one.
EffectiveTier(pr, tier) ==
  LET minors == IF EpochTurned(pr) THEN 0 ELSE pr.minorsEpoch IN
  IF tier = "minor" /\ minors + 1 >= Param.minorsToMajor THEN "major" ELSE tier

\* What a lost dispute takes from a provider: from the stake first, then from what unbonds.
\* The major tier ejects.  Nothing to take is no slash and no ejection.
SlashProvider(pr, tier) ==
  LET bps == IF tier = "major" THEN Param.majorSlashBps ELSE Param.minorSlashBps
      amount == MulBps(pr.stake + pr.unbondAmount, bps)
      taken == TakenFrom(pr, amount)
      e == IF tier = "minor" /\ EpochTurned(pr)
           THEN [pr EXCEPT !.minorsEpoch = 0, !.missSlashedEpoch = 0, !.epochStart = now] ELSE pr
      cut == [e EXCEPT !.stake = @ - taken.stake, !.unbondAmount = @ - taken.unbond,
                       !.minorsEpoch = IF tier = "minor" THEN @ + 1 ELSE @]
      ejected == tier = "major" /\ pr.status \in {"active", "jailed"}
  IN IF pr.status = "none" \/ amount <= 0
     THEN [rec |-> pr, fromStake |-> 0, fromUnbond |-> 0, ejected |-> FALSE]
     ELSE [rec |-> IF ejected THEN Unbonding(cut, now + Param.unbondPeriod) ELSE cut,
           fromStake |-> taken.stake, fromUnbond |-> taken.unbond, ejected |-> ejected]

Slashes(st, who, tier) ==
  [p \in who |-> SlashProvider(st.providers[p], EffectiveTier(st.providers[p], tier))]

TakenBy(slash) == SumFunction([p \in DOMAIN slash |-> slash[p].fromStake + slash[p].fromUnbond])

\* The slashes carried out; the coins taken wait in the bonds category.
CarryOut(st, slash) ==
  LET out == { p \in DOMAIN slash : slash[p].ejected }
      seated == { p \in out : st.providers[p].status = "active" }
      cleared == { s \in Slots : st.slots[s] \in seated /\ st.providers[st.slots[s]].slot = s }
      fromStake == SumFunction([p \in DOMAIN slash |-> slash[p].fromStake])
      fromUnbond == SumFunction([p \in DOMAIN slash |-> slash[p].fromUnbond])
      moved == SumFunction([p \in out |-> st.providers[p].stake - slash[p].fromStake])
      cut == [st EXCEPT !.providers = [p \in Providers |-> IF p \in DOMAIN slash THEN slash[p].rec ELSE st.providers[p]],
                        !.held.stakes = @ - fromStake - moved,
                        !.held.unbonding = @ - fromUnbond + moved,
                        !.held.bonds = @ + fromStake + fromUnbond]
  IN FeedClearSlots(cut, cleared, ObligedFrom(st.feed))

Uphold(st, d) ==
  LET toProviders == MulBps(d.bond, Param.forfeitSplitWinnerBps)
      toVoters == MulBps(d.bond, Param.forfeitSplitVotersBps)
      paid == FundVoters(BondToPool(st, toProviders), toVoters)
  IN RoundRestartWindow(BondToFees(paid, d.bond - toProviders - toVoters), d.round, d.priorTier)

\* What was taken goes to the disputer, to the voters, and the rest to the fees.
RouteTaken(st, taken) ==
  LET toDisputer == MulBps(taken, Param.forfeitSplitWinnerBps)
      toVoters == MulBps(taken, Param.forfeitSplitVotersBps)
  IN BondToFees(FundVoters(BondRelease(st, toDisputer), toVoters), taken - toDisputer - toVoters)

OverturnWith(st, d, slash) ==
  RoundOverturn(BondRelease(RouteTaken(CarryOut(st, slash), TakenBy(slash)), d.bond), d.round, d.proposedValue)

Overturn(st, d, tier) == OverturnWith(st, d, Slashes(st, Refuted(st, d), tier))

Void(st, d) == RoundVoid(ConsumeBond(st, d.bond, Param.voidConsumeBps), d.round)

Decide(st, d, outcome, tier) ==
  CASE outcome = "UPHOLD" -> Uphold(st, d)
    [] outcome = "OVERTURN" -> Overturn(st, d, tier)
    [] outcome = "VOID" -> Void(st, d)
    [] OTHER -> Require(st, FALSE)

Resolved(st, n, outcome, tier) ==
  [st EXCEPT !.feed.openDisputes = @ - 1, !.disputes[n].status = "resolved",
             !.disputes[n].outcome = outcome, !.disputes[n].tierDecided = tier]

CanApply(st, d) == st.feed.status # "pruned" /\ d.round \in DOMAIN st.rounds

\* The final outcome of dispute number n: bonds and slashes routed, the round decided, and
\* the DAO told that the ballot may settle.
Apply(st, n, outcome, tier) ==
  LET d == st.disputes[n] IN
  Resolved(Decide(SettleAppealBond(Require(st, CanApply(st, d)), d, outcome), d, outcome, tier), n, outcome, tier)

-----------------------------------------------------------------------------

\* A first ballot that ended: a second round if it rolled, else a decision and its appeal window.
ResolveOpen(n) ==
  /\ disputes[n].status = "open" /\ BallotDone(disputes[n])
  /\ \E b \in BallotOutcomes(disputes[n]) :
       Commit(IF b.outcome = "ROLL"
              THEN [Store EXCEPT !.disputes[n].status = "appealed", !.disputes[n].ballotRound = 2,
                                 !.disputes[n].ballotEnds = now + BallotPeriod[2]]
              ELSE [Store EXCEPT !.disputes[n].status = "decided", !.disputes[n].outcome = b.outcome,
                                 !.disputes[n].firstOutcome = b.outcome, !.disputes[n].tierDecided = b.tier,
                                 !.disputes[n].decidedAt = now])

\* A decision nobody appealed.
ResolveDecided(n) ==
  /\ disputes[n].status = "decided"
  /\ now >= disputes[n].decidedAt + Param.appealWindow
  /\ Commit(Apply(Store, n, disputes[n].outcome, disputes[n].tierDecided))

\* A second ballot that ended.
ResolveAppealed(n) ==
  /\ disputes[n].status = "appealed" /\ BallotDone(disputes[n])
  /\ \E b \in BallotOutcomes(disputes[n]) : Commit(Apply(Store, n, b.outcome, b.tier))

ResolveDispute(n) == ResolveOpen(n) \/ ResolveDecided(n) \/ ResolveAppealed(n)

\* Mutant: the slot log keeps the holders of the old round.
FeedResetKeepingLog(st, resolveAt) ==
  [st EXCEPT
     !.feed.startAt = resolveAt, !.feed.reopened = TRUE, !.feed.haveLast = FALSE,
     !.feed.lastFinalized = 0, !.feed.haveValue = FALSE, !.feed.lastTier = "", !.feed.emptyStreak = 0,
     !.rounds = [id \in DOMAIN st.rounds \ {0} |-> st.rounds[id]],
     !.providers = [p \in Providers |->
       IF st.providers[p].status = "none" THEN st.providers[p]
       ELSE [st.providers[p] EXCEPT !.obligedFrom = 0]]]

\* The round, the cursor and the served value go; the slot log is rebased on the seating of
\* now, and (in ReopenOneOff) only the seated owe the new round.  The last-final cursor and
\* the prune cursor stay where they are.
FeedResetForReopen(st, resolveAt) ==
  [st EXCEPT
     !.feed.startAt = resolveAt, !.feed.reopened = TRUE, !.feed.haveLast = FALSE,
     !.feed.lastFinalized = 0, !.feed.haveValue = FALSE, !.feed.lastTier = "", !.feed.emptyStreak = 0,
     !.rounds = [id \in DOMAIN st.rounds \ {0} |-> st.rounds[id]],
     !.slotlog = { LogEntry(s, 0, st.slots[s]) : s \in { x \in Slots : st.slots[x] # NoOne } },
     !.providers = [p \in Providers |->
       LET pr == st.providers[p] IN
       IF pr.status = "none" THEN pr
       ELSE [pr EXCEPT !.obligedFrom = IF pr.status = "active" THEN 0 ELSE 1]]]

\* The requester restarts a one-off feed whose round 0 came to nothing, once.
ReopenOneOff(resolveAt) ==
  /\ ~Recurs /\ Serving(feed) /\ ~feed.reopened
  /\ 0 \in DOMAIN rounds /\ rounds[0].status \in {"void", "empty", "skipped"}
  /\ now + ResolveLead.min <= resolveAt /\ resolveAt <= now + ResolveLead.max
  /\ Commit(FeedResetForReopen(Store, resolveAt))

DisputeOps ==
  \/ \E acct \in Accounts, id \in DOMAIN rounds, v \in Values, tier \in {"minor", "major"} : Dispute(acct, id, v, tier)
  \/ \E acct \in Accounts, n \in DOMAIN disputes : Appeal(acct, n)
  \/ \E n \in DOMAIN disputes : ResolveDispute(n)
  \/ \E resolveAt \in (now + ResolveLead.min) .. (now + ResolveLead.max) : ReopenOneOff(resolveAt)

=============================================================================
