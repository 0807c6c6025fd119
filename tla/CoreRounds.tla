----------------------------- MODULE CoreRounds -----------------------------
(* Submissions and the finalisation of rounds (impl/v1/rounds.gno).          *)
(*                                                                           *)
(* The loops over slots in finalise touch one provider each, the holder of   *)
(* the slot: here all holders are updated at once and the coins their        *)
(* updates move are summed.  That no provider holds two slots of one round,  *)
(* which makes the two forms agree, is the invariant OneSeatPerRound.        *)
EXTENDS CoreProviders

\* The provider that held slot s for round id and owed it a submission, or NoOne.
ObligedHolder(st, s, id) ==
  LET p == SlotHolderAt(st.slotlog, s, id) IN
  IF p = NoOne THEN NoOne
  ELSE IF st.providers[p].status = "none" \/ st.providers[p].obligedFrom > id THEN NoOne ELSE p

ObligedSlots(st, id) == { s \in Slots : ObligedHolder(st, s, id) # NoOne }

AllSubmitted(st, id) == ObligedSlots(st, id) \subseteq DOMAIN GetRound(st, id).subs

-----------------------------------------------------------------------------
(* Aggregation of the submissions of the obliged holders. *)

Aggregate(f, subs) ==
  IF Spec0.numeric
  THEN IF DOMAIN subs = {} THEN [ok |-> FALSE, value |-> 0, eligible |-> {}]
       ELSE LET m == LowerMedian(subs) IN
            [ok |-> TRUE, value |-> m, eligible |-> EligibleNumeric(subs, m, f.toleranceBps)]
  ELSE IF Leaders(subs, Values) = {} THEN [ok |-> FALSE, value |-> 0, eligible |-> {}]
       ELSE LET w == Plurality(subs, Values) IN
            IF HasWinner(subs, Values)
            THEN [ok |-> TRUE, value |-> w, eligible |-> EligibleCategorical(subs, w)]
            ELSE [ok |-> FALSE, value |-> w, eligible |-> {}]

TierOf(st, agg, obliged) ==
  IF ~agg.ok THEN "empty"
  ELSE DecideTier([eligible |-> Cardinality(agg.eligible), active |-> obliged,
                   minProviders |-> Spec0.minProviders, value |-> agg.value,
                   lastFinal |-> st.feed.finalValue, haveLast |-> st.feed.haveFinal,
                   quarantineBps |-> st.feed.quarantineBps, categorical |-> ~Spec0.numeric])

-----------------------------------------------------------------------------
(* Liveness: what one round does to one holder's record. *)

\* A submission ends the run of misses; one out of tolerance is a strike.  The window is
\* counted in unsigned round numbers, so a start beyond id is long past.
Strike(pr, id, outlier) ==
  LET expired == pr.strikeWindowStart > id \/ id - pr.strikeWindowStart >= Param.strikeWindowRounds
      before == IF expired THEN 0 ELSE pr.strikes
  IN [pr EXCEPT !.consecutiveMisses = 0,
                !.strikes = IF outlier THEN before + 1 ELSE before,
                !.strikeWindowStart = IF expired THEN id ELSE @]

EpochTurned(pr) == now - pr.epochStart >= Param.providerEpoch

\* Mutant: the cap of the epoch is not applied.
MissAmountUncapped(base, slashed) == MulBps(base, Param.missSlashBps)

\* What a miss costs a stake of base of which slashed went in this epoch.
MissAmount(base, slashed) ==
  Smaller(MulBps(base, Param.missSlashBps), MulBps(base, Param.missSlashCapPerEpochBps) - slashed)

\* The record after a miss, and what it took.
MissSlash(pr) ==
  LET e == IF EpochTurned(pr)
           THEN [pr EXCEPT !.epochStart = now, !.missSlashedEpoch = 0, !.minorsEpoch = 0] ELSE pr
      amount == MissAmount(e.stake + e.missSlashedEpoch, e.missSlashedEpoch)
      taken == TakenFrom(e, amount)
  IN IF amount <= 0 THEN [rec |-> e, fromStake |-> 0, fromUnbond |-> 0]
     ELSE [rec |-> [e EXCEPT !.stake = @ - taken.stake, !.unbondAmount = @ - taken.unbond,
                             !.missSlashedEpoch = @ + amount],
           fromStake |-> taken.stake, fromUnbond |-> taken.unbond]

\* Mutant: the slot is cleared and the provider believes it still sits there.
JailedInPlace(pr) == [pr EXCEPT !.jailedAt = now, !.jailings = @ + 1]

\* Out of the active set until it unjails; too many jailings force it to unbond.
Jailed(pr) ==
  LET reset == now - pr.jailingsSince >= JailingsWindow
      count == IF reset THEN 1 ELSE pr.jailings + 1
      j == [pr EXCEPT !.status = "jailed", !.slot = NoSlot, !.jailedAt = now, !.jailings = count,
                      !.jailingsSince = IF reset THEN now ELSE @]
  IN IF count >= Param.maxJailings THEN Unbonding(j, now + Param.unbondPeriod) ELSE j

\* The record after the round, before a jailing, and what a miss took.
Judge(pr, id, submitted, outlier, funded) ==
  IF submitted THEN [rec |-> Strike(pr, id, outlier), fromStake |-> 0, fromUnbond |-> 0]
  ELSE LET missed == [pr EXCEPT !.consecutiveMisses = @ + 1] IN
       IF funded THEN MissSlash(missed) ELSE [rec |-> missed, fromStake |-> 0, fromUnbond |-> 0]

\* An active holder is jailed for strikes, for misses, or for the one-off's only round.
IsJailed(rec, submitted) ==
  /\ rec.status = "active"
  /\ IF submitted THEN rec.strikes >= Param.strikesToJail
     ELSE rec.consecutiveMisses >= Param.jailAfterMisses \/ ~Recurs

\* The slot by which each provider that owed round id a submission held it.
SeatHeld(st, id) ==
  LET holding == ObligedSlots(st, id) IN
  [p \in { ObligedHolder(st, s, id) : s \in holding } |-> CHOOSE s \in holding : ObligedHolder(st, s, id) = p]

\* p, judged as j says by the slot s it held: out of s if it still sits there and is jailed;
\* a jailing that forces it to unbond moves its stake.
Sentence(j, stays) ==
  LET rec == IF stays THEN j.rec ELSE Jailed(j.rec) IN
  [rec |-> rec, jailed |-> ~stays, fromStake |-> j.fromStake, fromUnbond |-> j.fromUnbond,
   moved |-> IF ~stays /\ rec.status = "unbonding" THEN j.rec.stake ELSE 0]

Sentenced(j, seated, submitted) == Sentence(j, ~(seated /\ IsJailed(j.rec, submitted)))

\* The sentence of every holder, by the slot it held.
Sentences(st, id, agg, funded, seat) ==
  LET submitted == DOMAIN GetRound(st, id).subs IN
  [p \in DOMAIN seat |->
     Sentenced(Judge(st.providers[p], id, seat[p] \in submitted, agg.ok /\ seat[p] \notin agg.eligible, funded),
               st.slots[seat[p]] = p, seat[p] \in submitted)]

\* The records the verdicts leave, the coins they move, and the slots they clear.
Enforce(st, id, seat, verdict) ==
  LET owing == DOMAIN seat
      cleared == { seat[p] : p \in { q \in owing : verdict[q].jailed } }
      fromStake == SumFunction([p \in owing |-> verdict[p].fromStake])
      fromUnbond == SumFunction([p \in owing |-> verdict[p].fromUnbond])
      moved == SumFunction([p \in owing |-> verdict[p].moved])
      alert == SumFunction([p \in owing |-> MulBps(verdict[p].fromStake + verdict[p].fromUnbond, Param.alerterShareBps)])
      judged == [st EXCEPT
        !.providers = [p \in Providers |-> IF p \in owing THEN verdict[p].rec ELSE st.providers[p]],
        !.feed.penaltyCarry = @ + (fromStake + fromUnbond - alert),
        !.held.pools = @ + (fromStake + fromUnbond - alert),
        !.held.stakes = @ - fromStake - moved,
        !.held.unbonding = @ - fromUnbond + moved]
  IN Send(FeedClearSlots(judged, cleared, id + 1), alert)

Judged(st, id, agg, funded, seat) == Enforce(st, id, seat, Sentences(st, id, agg, funded, seat))

\* Every holder of the round judged: counters, slashes and jailings.
Liveness(st, id, agg, funded) == Judged(st, id, agg, funded, SeatHeld(st, id))

-----------------------------------------------------------------------------

\* A recurring feed that has produced nothing for deadFeedRounds is retired.
AfterEmpty(st) ==
  IF st.feed.status # "deprecated" /\ Recurs /\ st.feed.emptyStreak >= Param.deadFeedRounds
  THEN Retire(FeedPoolToFees(st)) ELSE st

\* A pool that no longer covers a round marks the feed unfunded, a refilled one active.
FundingStatus(st) ==
  LET f == st.feed IN
  IF ~Recurs THEN st
  ELSE IF f.status = "active" /\ f.pool < f.drip THEN FeedSetStatus(st, "unfunded")
  ELSE IF f.status = "unfunded" /\ f.pool >= f.drip THEN FeedSetStatus(st, "active") ELSE st

\* The obliged submissions to round id, aggregated.
AggregateOf(st, id) ==
  LET all == st.rounds[id].subs IN
  Aggregate(st.feed, [s \in DOMAIN all \cap ObligedSlots(st, id) |-> all[s]])

EmptyClosed(st) == [st EXCEPT !.feed.emptyStreak = @ + 1]

\* Round id closed with its aggregate, and served if it has one.
Closed(st, id, agg, tier) ==
  IF tier = "empty" THEN EmptyClosed(FeedSetCursor(RoundFinalise(st, id, "empty", tier, agg.value), id))
  ELSE [FeedSetValue(FeedSetCursor(RoundFinalise(st, id, "aggregated", tier, agg.value), id), id, agg.value, tier)
          EXCEPT !.feed.emptyStreak = 0]

\* The holders of round id judged, the eligible paid, the round closed.
Settled(st, id, agg, tier) ==
  LET paid == IF tier = "empty" THEN {} ELSE { ObligedHolder(st, s, id) : s \in agg.eligible } IN
  AfterEmpty(FundingStatus(
    Closed(RoundPayout(Liveness(st, id, agg, st.feed.status = "active"), paid), id, agg, tier)))

\* A round with a value promotes the final round before it is measured against it.
Promoted(st, agg) == IF agg.ok THEN FeedPromoteFinal(st) ELSE st

FinaliseAs(st, id, agg) ==
  Settled(Promoted(st, agg), id, agg, TierOf(Promoted(st, agg), agg, Cardinality(ObligedSlots(st, id))))

FinaliseOnRecord(st, id) == FinaliseAs(st, id, AggregateOf(st, id))

Finalise(st, id) ==
  FinaliseOnRecord(PutRound(Require(st, GetRound(st, id).status = "open"), id, GetRound(st, id)), id)

\* A closed round nobody submitted to, written off without penalties.
Skip(st, id) == AfterEmpty(EmptyClosed(FeedSetCursor(RoundFinalise(st, id, "skipped", "", 0), id)))

-----------------------------------------------------------------------------

IsNext(id) == id = NextRound(feed.haveLast, feed.lastFinalized)

\* p sits in the feed and round id takes submissions: what is asked before p's obligations.
MayAnswer(p, id) ==
  /\ Serving(feed)
  /\ providers[p].status = "active" /\ providers[p].slot # NoSlot
  /\ Exists(Sched(feed), id, now)
  /\ IsOpen(Sched(feed), id, now)

MaySubmit(p, id) ==
  /\ MayAnswer(p, id)
  /\ providers[p].obligedFrom <= id
  /\ feed.haveLast => id > feed.lastFinalized
  /\ GetRound(Store, id).status = "open"

\* The tables with p's value for round id in place of any earlier one of its slot.
Answered(p, id, v) ==
  LET rd == GetRound(Store, id)
      s == providers[p].slot
  IN PutRound(Store, id, [rd EXCEPT !.subs = [x \in DOMAIN rd.subs \cup {s} |-> IF x = s THEN v ELSE rd.subs[x]]])

\* With the last submission owed, the next round is finalised in the same call.
Completes(submitted, id) == AllSubmitted(submitted, id) /\ IsNext(id)

Submitted(p, id, v) ==
  LET submitted == Answered(p, id, v) IN
  IF Completes(submitted, id) THEN Finalise(submitted, id) ELSE submitted

Submit(p, id, v) == MaySubmit(p, id) /\ Commit(Submitted(p, id, v))

Finalize(id) ==
  /\ Serving(feed)
  /\ IsNext(id)
  /\ Exists(Sched(feed), id, now)
  /\ \/ IsClosed(Sched(feed), id, now)
     \/ id \in DOMAIN rounds /\ AllSubmitted(Store, id)
  /\ Commit(Finalise(Store, id))

\* The closed next round of st, if any, finalised or written off.
CaughtUpOne(st) ==
  IF ~Serving(st.feed) THEN st
  ELSE LET ids == Finalisable(Sched(st.feed), st.feed.haveLast, st.feed.lastFinalized, now, 1) IN
       IF ids = {} THEN st
       ELSE LET id == CHOOSE k \in ids : TRUE IN IF id \in DOMAIN st.rounds THEN Finalise(st, id) ELSE Skip(st, id)

\* The tables after CatchUp(maxRounds = n): rounds in order until the feed is retired.
CaughtUp(st, n) == FoldSet(LAMBDA i, acc : CaughtUpOne(acc), st, 1..n)

\* CatchUp(maxRounds = 1).  A larger maxRounds repeats this at one block time with nothing
\* carried from round to round, so its outcome is reached by as many of these steps.
CatchUp ==
  /\ Serving(feed)
  /\ \E id \in Finalisable(Sched(feed), feed.haveLast, feed.lastFinalized, now, 1) :
       Commit(IF id \in DOMAIN rounds THEN Finalise(Store, id) ELSE Skip(Store, id))

\* Round numbers worth naming in a call at this time.
OpenedRounds == IF Started(Sched(feed), now) THEN 0 .. Current(Sched(feed), now) ELSE {}

RoundOps ==
  \/ \E p \in Providers, id \in OpenedRounds, v \in Values : Submit(p, id, v)
  \/ \E id \in OpenedRounds : Finalize(id)
  \/ CatchUp

=============================================================================
