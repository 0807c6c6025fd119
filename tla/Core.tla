-------------------------------- MODULE Core --------------------------------
(***************************************************************************)
(* The core realm serving one feed: every operation of the implementation  *)
(* (impl/v1) that changes the feed's tables, and the passing of time.      *)
(*                                                                         *)
(* Feeds share no table rows except prepaid credit, the coin categories    *)
(* and the realm's balance, which only ever change by the amounts one      *)
(* feed's handler moves: one feed shows what a handler can do to them.     *)
(***************************************************************************)
EXTENDS CoreFeeds

CONSTANT MaxTime    \* bound: the last block time

ASSUME ConstantsAssumption ==
  /\ Slots = 0 .. Cardinality(Slots) - 1 /\ IsFiniteSet(Slots)
  /\ NoOne \notin Providers /\ IsFiniteSet(Providers)
  /\ Proposer \in Accounts
  /\ Spec0.maxProviders <= Cardinality(Slots) /\ Spec0.minProviders >= 1
  /\ Spec0.interval >= 1 /\ Spec0.submitWindow \in 1 .. Spec0.interval

\* Times and limits are natural numbers.
ASSUME TimesAssumption ==
  /\ {Spec0.interval, Spec0.resolveAt} \subseteq Nat /\ ResolveLead.min \in Nat \ {0}
  /\ PruneBatches \subseteq Nat

\* A dispute window is open for some time, and the periods it is measured by are times (spec.gno).
ASSUME WindowsAssumption ==
  /\ {Spec0.disputeWindow, MinDisputeWindow} \subseteq Nat \ {0}
  /\ {Param.unbondPeriod, Param.appealWindow, BallotAllowance, LongestDisputeWindow} \subseteq Nat

\* What is named are numbers: a categorical value is the index of its option.
ASSUME ValuesAssumption == Values \subseteq Int

\* Prices and payments are amounts, and shares are shares of a whole (the bounds of params.gno,
\* Validate in spec.gno, UpdateFeed in feeds.gno).
ASSUME AmountsAssumption ==
  /\ IsFiniteSet(Accounts)
  /\ Overpay \in Nat /\ Gifts \subseteq Nat
  /\ {Param.feedDeposit, Param.subscriptionPeriod, Param.minDisputeBond, Param.appealBondMultiple} \subseteq Nat
  /\ {Param.feeSplitProvidersBps, Param.crankTipBps, Param.missSlashBps, Param.missSlashCapPerEpochBps,
      Param.alerterShareBps, Param.minorSlashBps, Param.majorSlashBps, Param.disputeBondBps,
      Param.appealConsumeBps, Param.voidConsumeBps, Param.forfeitSplitWinnerBps,
      Param.forfeitSplitVotersBps} \subseteq 0 .. Bps
  /\ {Spec0.subscriberPrice, Spec0.subscriptionPrice, Spec0.providerMinStake, Spec0.bounty} \subseteq Nat
  /\ \A u \in Updates : {u.subscriberPrice, u.subscriptionPrice, u.providerMinStake} \subseteq Nat

NewStore ==
  [feed |-> NoFeed, providers |-> [p \in Providers |-> NoProvider], slots |-> [s \in Slots |-> NoOne],
   slotlog |-> {}, rounds |-> << >>, disputes |-> << >>, credits |-> [a \in Accounts |-> 0],
   held |-> NothingHeld, balance |-> 0, ok |-> TRUE]

\* The state the tables of st make, at a time at which no round has been missed.
Installed(st) ==
  /\ feed = st.feed
  /\ providers = st.providers
  /\ slots = st.slots
  /\ slotlog = st.slotlog
  /\ rounds = st.rounds
  /\ disputes = st.disputes
  /\ credits = st.credits
  /\ held = st.held
  /\ balance = st.balance

Init == now = 1 /\ Installed(NewStore)

Tick == now < MaxTime /\ now' = now + 1 /\ UNCHANGED tables

Next == Tick \/ ProviderOps \/ RoundOps \/ DisputeOps \/ FeedOps \/ FundingOps

Spec == Init /\ [][Next]_vars

-----------------------------------------------------------------------------
(* Types. *)

Statuses == {"none", "proposed", "active", "unfunded", "deprecated", "pruned"}
RoundStatuses == {"open", "aggregated", "empty", "skipped", "void"}
Tiers == {"", "empty", "consensus", "provisional", "disputed", "final", "void"}
DisputeStatuses == {"open", "decided", "appealed", "resolved"}
Verdicts == {"", "UPHOLD", "OVERTURN", "VOID"}

\* The tables hold what state.gno declares: known statuses, slots of known providers,
\* submissions of known slots, and no amount below zero in any record or category.
TypeOK ==
  /\ now \in 1 .. MaxTime
  /\ feed.status \in Statuses /\ feed.lastTier \in Tiers
  /\ slots \in [Slots -> Providers \cup {NoOne}]
  /\ \A e \in slotlog : e.slot \in Slots /\ e.from \in Nat /\ e.holder \in Providers \cup {NoOne}
  /\ \A p \in Providers :
       /\ providers[p].status \in {"none", "active", "jailed", "unbonding"}
       /\ providers[p].slot \in Slots \cup {NoSlot}
       /\ {providers[p].stake, providers[p].unbondAmount, providers[p].rewards} \subseteq Nat
  /\ \A id \in DOMAIN rounds :
       /\ id \in Nat
       /\ rounds[id].status \in RoundStatuses /\ rounds[id].tier \in Tiers
       /\ DOMAIN rounds[id].subs \subseteq Slots
  /\ \A d \in DOMAIN disputes :
       /\ disputes[d].status \in DisputeStatuses /\ disputes[d].outcome \in Verdicts
       /\ disputes[d].bond > 0 /\ disputes[d].appealBond >= 0
  /\ \A a \in Accounts : credits[a] \in Nat
  /\ \A c \in DOMAIN held : held[c] \in Nat
  /\ {feed.deposit, feed.prepaid, feed.pool, feed.penaltyCarry, balance} \subseteq Nat

-----------------------------------------------------------------------------
(* Seats. *)

\* The views of the seating agree, through every way to join and to leave: a provider is
\* active exactly when it sits in the slot its record names, the feed counts the occupied
\* slots, and a feed that serves nothing has nobody seated.
SeatsOK ==
  /\ \A s \in Slots : slots[s] # NoOne => providers[slots[s]].status = "active" /\ providers[slots[s]].slot = s
  /\ \A p \in Providers :
       IF providers[p].status = "active"
       THEN providers[p].slot \in Slots /\ slots[providers[p].slot] = p
       ELSE providers[p].slot = NoSlot
  /\ feed.activeCount = Cardinality({ s \in Slots : slots[s] # NoOne })
  /\ ~Serving(feed) => \A s \in Slots : slots[s] = NoOne

\* Nobody answers twice for one round: the slots of record of a round have different
\* holders, so a round counts, pays and punishes a provider once (allSubmitted, finalise).
OneSeatPerRound ==
  \A id \in 0 .. now :
    \A s, t \in ObligedSlots(Store, id) :
      ObligedHolder(Store, s, id) = ObligedHolder(Store, t, id) => s = t

\* What decided a finalised round stays on record: no seating, leaving, jailing or ejection
\* changes who held a slot for a round at or before the cursor (disputes.gno, apply: "the
\* holders of record of past rounds never change").
HoldersOfRecordFixed ==
  [][ (feed.haveLast /\ feed'.haveLast /\ feed'.status # "pruned") =>
        \A s \in Slots : \A id \in 0 .. feed.lastFinalized :
          SlotHolderAt(slotlog', s, id) = SlotHolderAt(slotlog, s, id) ]_vars

-----------------------------------------------------------------------------
(* Rounds. *)

ClosedNext == Finalisable(Sched(feed), feed.haveLast, feed.lastFinalized, now, 1)

\* No panic can stop the calendar: whatever providers did, the closed next round of a
\* serving feed can be finalised or written off.
CrankNeverPanics ==
  Serving(feed) =>
    \A id \in ClosedNext : IF id \in DOMAIN rounds THEN Finalise(Store, id).ok ELSE Skip(Store, id).ok

\* No panic can hold back a stake: a provider whose unbonding is ready is paid out and
\* its record deleted.
ExitNeverPanics ==
  \A p \in Providers :
    (providers[p].status = "unbonding" /\ now >= providers[p].unbondReadyAt) =>
      ProviderDelete(RewardPay(ProviderPayUnbonded(Store, p), p), p).ok

WithinCap(pr) ==
  pr.missSlashedEpoch <= MulBps(pr.stake + pr.unbondAmount + pr.missSlashedEpoch, Param.missSlashCapPerEpochBps)

\* A miss leaves no provider having lost, in its epoch, more than the capped share of what it
\* had at stake.  (A later step may: the slash of a dispute shrinks the stake and not the cap.)
MissSlashCapped ==
  [][\A p \in Providers :
       \/ /\ providers'[p].missSlashedEpoch = providers[p].missSlashedEpoch
          /\ providers'[p].epochStart = providers[p].epochStart
       \/ providers'[p].missSlashedEpoch = 0
       \/ WithinCap(providers'[p])]_vars

-----------------------------------------------------------------------------
(* Coins. *)

SumOverProviders(amount) == SumFunction([p \in Providers |-> providers[p][amount]])

UnresolvedOnes == { d \in DOMAIN disputes : disputes[d].status # "resolved" }

\* The shares of a forfeit fit in it (core/params.gno bounds each of them, and not their sum).
SharesFit == Param.forfeitSplitWinnerBps + Param.forfeitSplitVotersBps <= Bps

\* The bonds of the disputes that run.
BondsAtStake == SumFunction([d \in UnresolvedOnes |-> disputes[d].bond + disputes[d].appealBond])

\* Every category of coins held is the sum of the records it stands for; shares that do not
\* fit are paid out of other bonds, and leave less of them than the records say.
HeldMatchesRecords ==
  /\ held.stakes = SumOverProviders("stake")
  /\ held.unbonding = SumOverProviders("unbondAmount")
  /\ held.rewards = SumOverProviders("rewards")
  /\ held.credits = SumFunction(credits)
  /\ held.pools = feed.pool + feed.penaltyCarry
  /\ held.deposits = feed.deposit + feed.prepaid
  /\ 0 <= held.bonds /\ held.bonds <= BondsAtStake
  /\ SharesFit => held.bonds = BondsAtStake

\* What the realm has beyond its books.
Surplus == balance - HeldTotal(held)

\* Nobody's claim outlives the feed.
NothingLeftBehind ==
  feed.status = "pruned" =>
    held = [NothingHeld EXCEPT !.credits = held.credits, !.feesPending = held.feesPending]

\* No handler moves coins in the records and not in the books, or strands a coin: through
\* every rounding the books stay the sum of the records, and what the realm has beyond its
\* books is what was sent to it outside its entry points.  So it can always pay.  When the
\* record of a retired feed is gone, no provider, bond, pool or deposit of it is left in them.
CoinsConserved ==
  /\ HeldMatchesRecords /\ Surplus = 0
  /\ [][HeldMatchesRecords' /\ NothingLeftBehind' /\ (Surplus' = Surplus \/ PlainTransfer)]_vars

-----------------------------------------------------------------------------
(* Disputes and the served value. *)

\* Rounds stay on record, and disputes with them.  The cursor splits the rounds: all up to it
\* are settled and, from the oldest kept one on, still there; every round past it is open.  A
\* dispute and its round point at each other while it runs, one dispute a round, and the feed
\* counts the running ones.
RoundsOnRecord ==
  /\ \A id \in DOMAIN rounds : rounds[id].status = "open" <=> ~(feed.haveLast /\ id <= feed.lastFinalized)
  /\ (feed.haveLast /\ ~feed.reopened) => feed.oldestRound .. feed.lastFinalized \subseteq DOMAIN rounds
  /\ \A d \in UnresolvedOnes :
       /\ disputes[d].round \in DOMAIN rounds
       /\ rounds[disputes[d].round].disputeID = d
       /\ rounds[disputes[d].round].status = "aggregated"
       /\ rounds[disputes[d].round].tier = "disputed"
  /\ \A id \in DOMAIN rounds :
       rounds[id].tier = "disputed" => Unresolved(Store, rounds[id].disputeID)
  /\ feed.openDisputes = Cardinality(UnresolvedOnes)

\* What the shares of a forfeit take beyond it.
Overdraw(forfeit) ==
  LET paid == MulBps(forfeit, Param.forfeitSplitWinnerBps) + MulBps(forfeit, Param.forfeitSplitVotersBps)
  IN IF paid > forfeit THEN paid - forfeit ELSE 0

\* The bonds there must be for outcome b of dispute n.
BondsNeeded(n, b) ==
  LET d == disputes[n]
      over == CASE b.outcome = "UPHOLD" -> Overdraw(d.bond)
                [] b.outcome = "OVERTURN" -> Overdraw(TakenBy(Slashes(Store, Refuted(Store, d), b.tier)))
                [] OTHER -> 0
  IN d.bond + d.appealBond + over

\* No panic can leave a dispute, and the promotion it holds back, standing: every outcome
\* the ballot may have can be applied, unless shares of forfeits that add up to more than
\* the whole have left too little of the bonds for it.
ResolutionNeverPanics ==
  \A d \in UnresolvedOnes :
    \A b \in BallotOutcomes(disputes[d]) :
      b.outcome # "ROLL" =>
        \/ Apply(Store, d, b.outcome, b.tier).ok
        \/ ~SharesFit /\ held.bonds < BondsNeeded(d, b)

\* The final value is in doubt: its round may be disputed, is under dispute, void or awaited
\* again, or was played again with another value.  Rounds become final by being past all that,
\* so it takes a dispute window made longer since.
FinalDoubted ==
  LET lf == LatestFinal(Store, now) IN
  /\ lf.ok
  /\ \/ ~feed.haveLast
     \/ /\ lf.round \in DOMAIN rounds
        /\ \/ rounds[lf.round].status # "aggregated" \/ HoldsPromotion(Store, lf.round, now)
           \/ feed.reopened /\ rounds[lf.round].value # lf.value

\* Whatever is read is a standing value: the round it names, if still on record, is
\* aggregated, has that value, and is not under dispute; or it is a final value in doubt.
ServedIsStanding ==
  \A r \in {Read, ReadFinal} :
    (r.ok /\ r.round \in DOMAIN rounds) =>
      \/ /\ rounds[r.round].status = "aggregated"
         /\ rounds[r.round].value = r.value
         /\ rounds[r.round].tier # "disputed"
      \/ FinalDoubted /\ r.round = ReadFinal.round /\ r.value = ReadFinal.value

\* The last final round only moves on: never back to an earlier round or to none, but when
\* the dispute window is made longer, and never to another value of the same round, unless
\* it was in doubt.
FinalNeverRetracted ==
  [][ LET before == ReadFinal
          after == ReadFinal'
      IN (before.ok /\ feed'.disputeWindow <= feed.disputeWindow) =>
           /\ after.ok
           /\ after.round >= before.round
           /\ after.round = before.round => after.value = before.value \/ FinalDoubted ]_vars

\* ReadFinal keeps up with the rounds: an aggregate whose window has passed undisputed, as
\* has every round before it, is the last final round or was overtaken by a later one.
FinalKeepsUp ==
  \A id \in DOMAIN rounds :
    (rounds[id].status = "aggregated" /\ \A k \in DOMAIN rounds : k <= id => ~HoldsPromotion(Store, k, now)) =>
      ReadFinal.ok /\ ReadFinal.round >= id

\* The feed's promise: the aggregates the walk of promotion has not passed are pending, those it
\* waits for contested, and what ReadFinal returns is final.
PendingRounds ==
  LET end == WalkEnd(Store, now) IN { id \in DOMAIN rounds : id >= end /\ rounds[id].status = "aggregated" }

PendingValues == [id \in PendingRounds |-> rounds[id].value]

ContestedRounds == { id \in PendingRounds : HoldsPromotion(Store, id, now) }

FinalRead == LET r == ReadFinal IN [ok |-> r.ok, round |-> r.round, value |-> r.value]

Promise == INSTANCE FinalFeed WITH
  pending <- PendingValues, contested <- ContestedRounds, final <- FinalRead,
  window <- feed.disputeWindow, doubted <- FinalDoubted

\* What is read as final keeps up with the undisputed rounds, waits for every earlier dispute,
\* and is withdrawn, rewritten or taken back to an earlier round only as a dispute window made
\* longer allows: the disputed feed implements FinalFeed (state.gno, FeedPromoteFinal;
\* consumers.gno, latestFinal; feeds.gno, UpdateFeed).
FinalFeedKept == Promise!Spec

\* The round a reopened one-off feed is restarted for is owed by the providers seated for it,
\* and by nobody else (disputes.gno, ReopenOneOff).
ReopenedRoundOwedBySeated ==
  (feed.reopened /\ now < feed.startAt /\ feed.status # "pruned") =>
    \A s \in Slots : ObligedHolder(Store, s, 0) = slots[s]

=============================================================================
