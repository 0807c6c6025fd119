------------------------------ MODULE CoreFeeds ------------------------------
(* The life of a feed, its funding, its pruning, and what consumers read     *)
(* (impl/v1/feeds.gno, impl/v1/consumers.gno, core/money.gno).               *)
EXTENDS CoreDisputes

CONSTANTS
  Updates,          \* what governance may change the adjustable economics to
  PruneBatches,     \* the limits a caller gives PruneRounds
  MinDisputeWindow, \* spec.MinDisputeWindow
  LongestDisputeWindow, \* spec.MaxDisputeWindow
  BallotAllowance   \* the six days limits() allows two ballot rounds

\* limits(): unbonding must outlast a dispute opened at the end of the window, if it lasts
\* long enough for any.
MaxDisputeWindow ==
  LET ceiling == Param.unbondPeriod - BallotAllowance - Param.appealWindow
      longest == IF ceiling > 0 THEN Smaller(ceiling, LongestDisputeWindow) ELSE LongestDisputeWindow
  IN IF longest < MinDisputeWindow THEN MinDisputeWindow ELSE longest

\* The provider share of one period spread over the period's rounds.
DripFor(price) ==
  LET perRound == Param.subscriptionPeriod \div Spec0.interval IN
  MulBps(price, Param.feeSplitProvidersBps) \div (IF perRound < 1 THEN 1 ELSE perRound)

Activate(st) ==
  LET startAt == IF Recurs THEN (now - (now % Spec0.interval)) + Spec0.interval ELSE Spec0.resolveAt
      drip == IF Recurs THEN DripFor(st.feed.subscriptionPrice) ELSE 0
  IN DepositRefund(FeedActivate(Require(st, Recurs \/ Spec0.resolveAt > now), startAt, drip))

\* The first period (recurring) or the bounty (one-off) is sent along with the deposit.
Funding == IF Recurs THEN Spec0.subscriptionPrice ELSE Spec0.bounty

\* A realm's trusted one-off feed activates at once; any other waits for a vote.
ProposeFeed ==
  /\ feed.status = "none"
  /\ Spec0.disputeWindow \in MinDisputeWindow .. MaxDisputeWindow
  /\ Recurs \/ (now + ResolveLead.min <= Spec0.resolveAt /\ Spec0.resolveAt <= now + ResolveLead.max)
  /\ LET st == FeedSetStatus(Store, "proposed") IN
     IF Spec0.fromRealm
     THEN LET filed == CreditSpendOnFeed(st, Proposer, Param.feedDeposit, Funding) IN
          Commit(IF ~Recurs /\ Spec0.trusted THEN Activate(filed) ELSE filed)
     ELSE \E sent \in Payments(Param.feedDeposit + Funding) :
            Commit(CreditSpendOnFeed(CreditDeposit(Receive(st, sent), Proposer, sent),
                                     Proposer, Param.feedDeposit, sent - Param.feedDeposit))

ActivateFeed == feed.status = "proposed" /\ Commit(Activate(Store))

\* A proposal is rejected (as spam, without its deposit); a live feed's funds go to the fees,
\* a one-off's bounty back to its requester.
DeprecateFeed(spam) ==
  /\ feed.status \in {"proposed", "active", "unfunded"}
  /\ LET refunded == IF feed.status # "proposed" THEN Store
                     ELSE IF spam THEN DepositToFees(Store) ELSE DepositRefund(Store)
     IN Commit(Retire(IF Recurs THEN FeedPoolToFees(refunded) ELSE FeedPoolRefund(refunded)))

UpdateFeed(u) ==
  /\ feed.status \in {"proposed", "active", "unfunded"}
  /\ u.disputeWindow \in MinDisputeWindow .. MaxDisputeWindow
  /\ Commit([Store EXCEPT
       !.feed.subscriberPrice = u.subscriberPrice, !.feed.subscriptionPrice = u.subscriptionPrice,
       !.feed.providerMinStake = u.providerMinStake, !.feed.toleranceBps = u.toleranceBps,
       !.feed.quarantineBps = u.quarantineBps, !.feed.disputeWindow = u.disputeWindow,
       !.feed.drip = IF Recurs /\ u.subscriptionPrice # feed.subscriptionPrice
                     THEN DripFor(u.subscriptionPrice) ELSE @])

\* Any sponsorship makes an unfunded feed active, whatever its pool then covers.
Sponsor ==
  /\ Serving(feed) /\ Recurs
  /\ \E sent \in Payments(feed.subscriptionPrice) :
       LET paid == SponsorPay(Receive(Store, sent), sent) IN
       Commit(IF feed.status = "unfunded" THEN FeedSetStatus(paid, "active") ELSE paid)

\* A subscription pays like a sponsorship, but reactivates only a feed whose pool covers a round.
Resubscribed(st) ==
  IF st.feed.status = "unfunded" /\ st.feed.pool >= st.feed.drip THEN FeedSetStatus(st, "active") ELSE st

SubscribeRealm ==
  /\ Serving(feed) /\ Recurs /\ ~Spec0.sponsored
  /\ \E sent \in Payments(feed.subscriberPrice) :
       Commit(Resubscribed(SponsorPay(Receive(Store, sent), sent)))

\* On a feed priced at nothing a subscription moves no coins.
SubscribeFree ==
  /\ Serving(feed) /\ Recurs /\ ~Spec0.sponsored /\ feed.subscriberPrice = 0
  /\ Commit(Resubscribed(Store))

SubscribeFromCredit(acct) ==
  /\ Serving(feed) /\ Recurs /\ ~Spec0.sponsored
  /\ LET price == feed.subscriberPrice IN
     Commit(Resubscribed(SplitSubscription(CreditSpend(Store, acct, price), price)))

FundBounty ==
  /\ ~Recurs /\ feed.status \in {"proposed", "active", "unfunded"}
  /\ \E sent \in Given : Commit(BountyIn(Receive(Store, sent), sent))

DepositFor(acct) == \E sent \in Payments(feed.subscriberPrice) : Commit(CreditDeposit(Receive(Store, sent), acct, sent))

WithdrawCredit(acct) == credits[acct] > 0 /\ Commit(CreditWithdraw(Store, acct, credits[acct]))

ForwardFees ==
  /\ held.feesPending > 0
  /\ Commit(Send([Store EXCEPT !.held.feesPending = 0], held.feesPending))

\* Coins may reach the realm outside its entry points.
PlainTransfer == \E amount \in Given : Commit(Receive(Store, amount))

-----------------------------------------------------------------------------
(* Pruning. *)

RetentionPassed == feed.status = "deprecated" /\ now >= feed.deprecatedAt + Param.retentionAfterDeprecate

\* A round that must stay, for now.
Kept(st, id) ==
  LET keep == IF RetentionPassed THEN 0 ELSE Param.minRoundsKept IN
  \/ st.feed.lastFinalized - id < keep
  \/ /\ id \in DOMAIN st.rounds
     /\ LET rd == st.rounds[id] IN
        \/ rd.finalisedAt = 0
        \/ rd.finalisedAt + Param.roundRetention > now
        \/ rd.finalisedAt + st.feed.disputeWindow > now
        \/ Unresolved(st, rd.disputeID)

\* Mutant: the prune cursor is not moved.
DropRoundsOnly(st, next) ==
  [st EXCEPT !.rounds = [id \in DOMAIN st.rounds \ (st.feed.oldestRound .. (next - 1)) |-> st.rounds[id]]]

DropRounds(st, next) ==
  [st EXCEPT !.feed.oldestRound = next,
             !.rounds = [id \in DOMAIN st.rounds \ (st.feed.oldestRound .. (next - 1)) |-> st.rounds[id]]]

\* The prune walk deletes the oldest rounds up to the first one kept, never past the cursor of
\* promotion.  Every round between the two cursors exists, so maxRounds bounds the steps too.
PruneEnd(f) == Smaller(f.lastFinalized + 1, f.finalCursor)

FirstOf(kept, oldest, end) == IF oldest >= end THEN oldest ELSE IF kept = {} THEN end ELSE Min(kept)

PruneStop(st, end) ==
  FirstOf({ id \in st.feed.oldestRound .. (end - 1) : Kept(st, id) }, st.feed.oldestRound, end)

Pruned(st, maxRounds) == DropRounds(st, Smaller(PruneStop(st, PruneEnd(st.feed)), st.feed.oldestRound + maxRounds))

PruneRounds(maxRounds) ==
  /\ feed.haveLast /\ feed.status # "pruned"
  /\ Commit(Pruned(FeedPromoteFinal(Store), maxRounds))

\* Mutant: forfeit rewards stay booked as rewards.
SettleProvidersOnly(st, ready) ==
  LET paid == SumFunction([p \in ready |-> st.providers[p].unbondAmount]) IN
  Send([st EXCEPT !.providers = [p \in Providers |-> NoProvider], !.held.unbonding = @ - paid], paid)

\* Every provider record goes: its rewards are forfeit to the fees, a ready unbond is paid.
SettleProviders(st, ready) ==
  LET rewards == SumFunction([p \in Providers |-> st.providers[p].rewards])
      paid == SumFunction([p \in ready |-> st.providers[p].unbondAmount])
  IN Send([st EXCEPT !.providers = [p \in Providers |-> NoProvider],
                     !.held.rewards = @ - rewards, !.held.feesPending = @ + rewards,
                     !.held.unbonding = @ - paid],
          paid)

\* A retired feed's last records, once no provider has coins that are not ready; what is
\* left in the pool goes to the fees.
PruneFeed ==
  /\ RetentionPassed
  /\ (feed.haveLast /\ feed.oldestRound <= feed.lastFinalized) =>
       (feed.oldestRound \notin DOMAIN rounds /\ feed.oldestRound >= feed.lastFinalized)
  /\ LET ready == { p \in Providers : providers[p].status = "unbonding" /\ now >= providers[p].unbondReadyAt }
         swept == FeedPoolToFees(SettleProviders(Store, ready))
     IN /\ \A p \in Providers : providers[p].stake = 0 /\ (p \in ready \/ providers[p].unbondAmount = 0)
        /\ Commit([Require(swept, {swept.feed.pool, swept.feed.penaltyCarry, swept.feed.deposit, swept.feed.prepaid} = {0})
                     EXCEPT !.feed.status = "pruned", !.slotlog = {}])

-----------------------------------------------------------------------------
(* What consumers read. *)

Unserved == [ok |-> FALSE, value |-> 0, round |-> 0, tier |-> "none"]

\* The tier the latest value is served under, lf being the last final round; unfunded is a
\* suffix in the code.
ServedTier(lf) ==
  LET settled == /\ feed.lastTier \in {"consensus", "provisional"}
                 /\ now >= feed.lastFinalAt + feed.disputeWindow
                 /\ lf.ok /\ lf.round = feed.lastRound
  IN IF ~feed.haveValue THEN "none"
     ELSE IF Recurs /\ Stale(OpenAt(Sched(feed), feed.lastRound), now, 2 * Spec0.interval) THEN "stale"
     ELSE IF settled THEN "final" ELSE feed.lastTier

Answer(lf, tier) ==
  IF ~feed.haveValue THEN Unserved
  ELSE IF feed.lastTier \in {"disputed", "void"}
  THEN IF ~lf.ok THEN [Unserved EXCEPT !.tier = tier]
       ELSE [ok |-> TRUE, value |-> lf.value, round |-> lf.round,
             tier |-> IF feed.lastTier = "void" /\ tier # "stale" THEN "final" ELSE tier]
  ELSE [ok |-> TRUE, value |-> feed.lastValue, round |-> feed.lastRound, tier |-> tier]

FinalAnswer(lf) ==
  IF lf.ok THEN [ok |-> TRUE, value |-> lf.value, round |-> lf.round, tier |-> "final"] ELSE Unserved

\* Read: the latest aggregate with its tier; while it is disputed, and after it was voided,
\* the last final round in its place.
Read == Answer(LatestFinal(Store, now), ServedTier(LatestFinal(Store, now)))

ReadFinal == FinalAnswer(LatestFinal(Store, now))

-----------------------------------------------------------------------------

FeedOps ==
  \/ ProposeFeed \/ ActivateFeed
  \/ \E spam \in BOOLEAN : DeprecateFeed(spam)
  \/ \E u \in Updates : UpdateFeed(u)
  \/ \E maxRounds \in PruneBatches : PruneRounds(maxRounds)
  \/ PruneFeed

FundingOps ==
  \/ Sponsor \/ SubscribeRealm \/ SubscribeFree \/ FundBounty \/ ForwardFees \/ PlainTransfer
  \/ \E acct \in Accounts : SubscribeFromCredit(acct) \/ DepositFor(acct) \/ WithdrawCredit(acct)

=============================================================================
