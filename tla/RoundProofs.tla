----------------------------- MODULE RoundProofs -----------------------------
(***************************************************************************)
(* Rounds and disputes stay on record, for every set of providers and      *)
(* slots and every value of the parameters.                                *)
(*                                                                         *)
(* Few operators touch the record of the rounds: of the others the lemmas  *)
(* ...Leaves say that they leave it as it is, and that they write nothing  *)
(* into the slot log but entries of providers.                             *)
(***************************************************************************)
EXTENDS CoreProofs, SumProofs

RoundFields == DOMAIN FreshRound

Framed(st) == DOMAIN st = Tables /\ DOMAIN st.feed = FeedFields

\* The feeds f and g have the same final value and the same cursor of promotion, serve the same
\* value, and dispute as long.
SameServed(f, g) ==
  /\ f.haveFinal = g.haveFinal /\ f.finalValue = g.finalValue /\ f.finalRound = g.finalRound
  /\ f.finalCursor = g.finalCursor /\ f.disputeWindow = g.disputeWindow
  /\ f.haveValue = g.haveValue /\ f.lastValue = g.lastValue /\ f.lastTier = g.lastTier
  /\ f.lastRound = g.lastRound

\* t has the rounds and the disputes of st and the feed's cursors, and what it has more in its
\* slot log are entries.
SameRounds(t, st) ==
  /\ Framed(t)
  /\ t.rounds = st.rounds /\ t.disputes = st.disputes
  /\ t.feed.haveLast = st.feed.haveLast /\ t.feed.lastFinalized = st.feed.lastFinalized
  /\ t.feed.oldestRound = st.feed.oldestRound /\ t.feed.reopened = st.feed.reopened
  /\ t.feed.openDisputes = st.feed.openDisputes
  /\ st.feed.lastFinalized \in Nat /\ st.feed.finalCursor \in Nat => t.feed.finalCursor \in Nat
  /\ st.feed.startAt \in Nat => t.feed.startAt \in Nat
  /\ t.feed.status = "pruned" => st.feed.status = "pruned"
  /\ \A e \in t.slotlog : e \in st.slotlog \/ Entry(e)

\* And t serves what st serves.
SameRecord(t, st) == SameRounds(t, st) /\ SameServed(t.feed, st.feed)

LEMMA RecordSame ==
  ASSUME NEW st, Framed(st)
  PROVE  SameRecord(st, st)
BY DEF Framed, SameRecord, SameRounds, SameServed

LEMMA RecordChained ==
  ASSUME NEW st, NEW t, NEW u, SameRecord(t, st), SameRecord(u, t)
  PROVE  SameRecord(u, st)
BY DEF SameRecord, SameRounds, SameServed

LEMMA FrameKept ==
  ASSUME NEW st, NEW t, SameRecord(t, st)
  PROVE  Framed(t)
BY DEF SameRecord, SameRounds

LEMMA RoundsOfRecord ==
  ASSUME NEW st, NEW t, SameRecord(t, st)
  PROVE  SameRounds(t, st)
BY DEF SameRecord

-----------------------------------------------------------------------------
(* Coins. *)

LEMMA InflowLeaves ==
  ASSUME NEW st, NEW amount, Framed(st)
  PROVE  SameRecord(Inflow(st, amount), st)
BY DEF Inflow, Require, SameRecord, SameRounds, SameServed, Framed, Tables, FeedFields, NoFeed

LEMMA ReceiveLeaves ==
  ASSUME NEW st, NEW sent, Framed(st)
  PROVE  SameRecord(Receive(st, sent), st)
BY DEF Receive, SameRecord, SameRounds, SameServed, Framed, Tables, FeedFields, NoFeed

LEMMA SendLeaves ==
  ASSUME NEW st, NEW amount, Framed(st)
  PROVE  SameRecord(Send(st, amount), st)
BY DEF Send, Require, SameRecord, SameRounds, SameServed, Framed, Tables, FeedFields, NoFeed

LEMMA CreditDepositLeaves ==
  ASSUME NEW st, NEW acct, NEW amount, Framed(st)
  PROVE  SameRecord(CreditDeposit(st, acct, amount), st)
BY DEF CreditDeposit, Inflow, Require, SameRecord, SameRounds, SameServed, Framed, Tables, FeedFields, NoFeed

LEMMA CreditSpendLeaves ==
  ASSUME NEW st, NEW acct, NEW amount, Framed(st)
  PROVE  SameRecord(CreditSpend(st, acct, amount), st)
BY DEF CreditSpend, Require, SameRecord, SameRounds, SameServed, Framed, Tables, FeedFields, NoFeed

LEMMA CreditWithdrawLeaves ==
  ASSUME NEW st, NEW acct, NEW amount, Framed(st)
  PROVE  SameRecord(CreditWithdraw(st, acct, amount), st)
BY SendLeaves, CreditSpendLeaves, RecordChained, FrameKept DEF CreditWithdraw

LEMMA CreditExcessLeaves ==
  ASSUME NEW st, NEW acct, NEW sent, NEW asked, Framed(st)
  PROVE  SameRecord(CreditExcess(st, acct, sent, asked), st)
BY CreditDepositLeaves, RecordSame DEF CreditExcess

LEMMA PayProposerLeaves ==
  ASSUME NEW st, NEW amount, Framed(st)
  PROVE  SameRecord(PayProposer(st, amount), st)
BY SendLeaves DEF PayProposer, SameRecord, SameRounds, SameServed, Framed, Tables, FeedFields, NoFeed

LEMMA SplitSubscriptionLeaves ==
  ASSUME NEW st, NEW amount, Framed(st)
  PROVE  SameRecord(SplitSubscription(st, amount), st)
BY DEF SplitSubscription, SameRecord, SameRounds, SameServed, Framed, Tables, FeedFields, NoFeed

LEMMA SponsorPayLeaves ==
  ASSUME NEW st, NEW amount, Framed(st)
  PROVE  SameRecord(SponsorPay(st, amount), st)
BY InflowLeaves, SplitSubscriptionLeaves, RecordChained, FrameKept DEF SponsorPay

LEMMA BountyInLeaves ==
  ASSUME NEW st, NEW amount, Framed(st)
  PROVE  SameRecord(BountyIn(st, amount), st)
BY DEF BountyIn, Inflow, Require, SameRecord, SameRounds, SameServed, Framed, Tables, FeedFields, NoFeed

LEMMA BondReleaseLeaves ==
  ASSUME NEW st, NEW amount, Framed(st)
  PROVE  SameRecord(BondRelease(st, amount), st)
BY DEF BondRelease, Send, Require, SameRecord, SameRounds, SameServed, Framed, Tables, FeedFields, NoFeed

LEMMA FundVotersLeaves ==
  ASSUME NEW st, NEW amount, Framed(st)
  PROVE  SameRecord(FundVoters(st, amount), st)
BY BondReleaseLeaves DEF FundVoters

LEMMA BondToPoolLeaves ==
  ASSUME NEW st, NEW amount, Framed(st)
  PROVE  SameRecord(BondToPool(st, amount), st)
BY DEF BondToPool, Require, SameRecord, SameRounds, SameServed, Framed, Tables, FeedFields, NoFeed

LEMMA BondToFeesLeaves ==
  ASSUME NEW st, NEW amount, Framed(st)
  PROVE  SameRecord(BondToFees(st, amount), st)
BY DEF BondToFees, Require, SameRecord, SameRounds, SameServed, Framed, Tables, FeedFields, NoFeed

\* A store whose feed stands where it stood, with its rounds and disputes.
LEMMA StandingLeaves ==
  ASSUME NEW st, NEW t, DOMAIN t = Tables, SameStanding(t.feed, st.feed),
         t.rounds = st.rounds, t.disputes = st.disputes, t.slotlog = st.slotlog
  PROVE  SameRecord(t, st)
BY DEF SameRecord, SameRounds, SameServed, SameStanding, Framed

LEMMA FeedPoolToFeesLeaves ==
  ASSUME NEW st, Framed(st)
  PROVE  SameRecord(FeedPoolToFees(st), st)
<1> DEFINE t == FeedPoolToFees(st)
<1>1. /\ DOMAIN t = Tables /\ t.feed = [st.feed EXCEPT !.pool = 0, !.penaltyCarry = 0]
      /\ t.rounds = st.rounds /\ t.disputes = st.disputes /\ t.slotlog = st.slotlog
  BY DEF FeedPoolToFees, Framed, Tables
<1>2. SameStanding(t.feed, st.feed)
  BY <1>1, PoolMoved DEF Framed
<1> QED
  BY ONLY <1>1, <1>2, StandingLeaves

LEMMA FeedPoolRefundLeaves ==
  ASSUME NEW st, Framed(st)
  PROVE  SameRecord(FeedPoolRefund(st), st)
<1> DEFINE amount == st.feed.pool + st.feed.penaltyCarry
           t == [st EXCEPT !.feed.pool = 0, !.feed.penaltyCarry = 0, !.held.pools = @ - amount]
<1>1. SameRecord(t, st)
  <2>1. /\ DOMAIN t = Tables /\ t.feed = [st.feed EXCEPT !.pool = 0, !.penaltyCarry = 0]
        /\ t.rounds = st.rounds /\ t.disputes = st.disputes /\ t.slotlog = st.slotlog
    BY DEF Framed, Tables
  <2>2. SameStanding(t.feed, st.feed)
    BY <2>1, PoolMoved DEF Framed
  <2> HIDE DEF t
  <2> QED
    BY ONLY <2>1, <2>2, StandingLeaves
<1>2. SameRecord(PayProposer(t, amount), t)
  BY <1>1, FrameKept, PayProposerLeaves
<1>3. FeedPoolRefund(st) = PayProposer(t, amount)
  BY DEF FeedPoolRefund
<1> QED
  BY <1>1, <1>2, <1>3, RecordChained

LEMMA DepositRefundLeaves ==
  ASSUME NEW st, Framed(st)
  PROVE  SameRecord(DepositRefund(st), st)
<1> DEFINE amount == st.feed.deposit + st.feed.prepaid
           t == [st EXCEPT !.feed.deposit = 0, !.feed.prepaid = 0, !.held.deposits = @ - amount]
<1>1. SameRecord(t, st)
  <2>1. /\ DOMAIN t = Tables /\ t.feed = [st.feed EXCEPT !.deposit = 0, !.prepaid = 0]
        /\ t.rounds = st.rounds /\ t.disputes = st.disputes /\ t.slotlog = st.slotlog
    BY DEF Framed, Tables
  <2>2. SameStanding(t.feed, st.feed)
    BY <2>1, DepositMoved DEF Framed
  <2> HIDE DEF t
  <2> QED
    BY ONLY <2>1, <2>2, StandingLeaves
<1>2. SameRecord(PayProposer(t, amount), t)
  BY <1>1, FrameKept, PayProposerLeaves
<1>3. DepositRefund(st) = IF amount = 0 THEN st ELSE PayProposer(t, amount)
  BY DEF DepositRefund
<1> HIDE DEF t, amount
<1> QED
  BY <1>1, <1>2, <1>3, RecordChained, RecordSame

LEMMA DepositToFeesLeaves ==
  ASSUME NEW st, Framed(st)
  PROVE  SameRecord(DepositToFees(st), st)
<1> DEFINE dep == st.feed.deposit
           pre == st.feed.prepaid
           t == [st EXCEPT !.feed.deposit = 0, !.feed.prepaid = 0,
                           !.held.deposits = @ - dep - pre, !.held.feesPending = @ + dep]
<1>1. SameRecord(t, st)
  <2>1. /\ DOMAIN t = Tables /\ t.feed = [st.feed EXCEPT !.deposit = 0, !.prepaid = 0]
        /\ t.rounds = st.rounds /\ t.disputes = st.disputes /\ t.slotlog = st.slotlog
    BY DEF Framed, Tables
  <2>2. SameStanding(t.feed, st.feed)
    BY <2>1, DepositMoved DEF Framed
  <2> HIDE DEF t
  <2> QED
    BY ONLY <2>1, <2>2, StandingLeaves
<1>2. SameRecord(PayProposer(t, pre), t)
  BY <1>1, FrameKept, PayProposerLeaves
<1>3. DepositToFees(st) = PayProposer(t, pre)
  BY DEF DepositToFees
<1> QED
  BY <1>1, <1>2, <1>3, RecordChained

LEMMA CreditSpendOnFeedLeaves ==
  ASSUME NEW st, NEW acct, NEW deposit, NEW funding, Framed(st)
  PROVE  SameRecord(CreditSpendOnFeed(st, acct, deposit, funding), st)
<1> DEFINE t == CreditSpendOnFeed(st, acct, deposit, funding)
<1>1. /\ DOMAIN t = Tables
      /\ t.rounds = st.rounds /\ t.disputes = st.disputes
  BY DEF CreditSpendOnFeed, CreditSpend, Require, Framed, Tables
<1>2. t.feed = [st.feed EXCEPT !.deposit = @ + deposit, !.prepaid = @ + funding] /\ DOMAIN st.feed = FeedFields
  BY DEF CreditSpendOnFeed, CreditSpend, Require, Framed, Tables
<1>3. /\ t.slotlog = st.slotlog
  BY DEF CreditSpendOnFeed, CreditSpend, Require, Framed, Tables
<1> HIDE DEF t
<1>4. /\ DOMAIN t.feed = FeedFields
      /\ t.feed.haveLast = st.feed.haveLast /\ t.feed.lastFinalized = st.feed.lastFinalized
      /\ t.feed.oldestRound = st.feed.oldestRound /\ t.feed.reopened = st.feed.reopened
      /\ t.feed.openDisputes = st.feed.openDisputes
      /\ t.feed.startAt = st.feed.startAt
      /\ t.feed.status = st.feed.status
      /\ SameServed(t.feed, st.feed)
  BY <1>2 DEF FeedFields, NoFeed, SameServed
<1>5. SameRecord(t, st)
  BY <1>1, <1>2, <1>4, <1>3 DEF SameRecord, SameRounds, SameServed, Framed
<1> QED
  BY <1>5 DEF t

LEMMA ProviderAddStakeLeaves ==
  ASSUME NEW st, NEW p \in Providers, NEW amount, Framed(st)
  PROVE  SameRecord(ProviderAddStake(st, p, amount), st)
BY DEF ProviderAddStake, Inflow, Require, SameRecord, SameRounds, SameServed, Framed, Tables, FeedFields, NoFeed, ProviderFields, NoProvider

LEMMA ProviderPayUnbondedLeaves ==
  ASSUME NEW st, NEW p \in Providers, Framed(st)
  PROVE  SameRecord(ProviderPayUnbonded(st, p), st)
BY DEF ProviderPayUnbonded, Send, Require, SameRecord, SameRounds, SameServed, Framed, Tables, FeedFields, NoFeed, ProviderFields, NoProvider

LEMMA RewardPayLeaves ==
  ASSUME NEW st, NEW p \in Providers, Framed(st)
  PROVE  SameRecord(RewardPay(st, p), st)
BY DEF RewardPay, Send, Require, SameRecord, SameRounds, SameServed, Framed, Tables, FeedFields, NoFeed, ProviderFields, NoProvider

LEMMA FeedSetValueLeaves ==
  ASSUME NEW st, NEW id, NEW value, NEW tier, Framed(st)
  PROVE  SameRounds(FeedSetValue(st, id, value, tier), st)
<1> DEFINE t == FeedSetValue(st, id, value, tier)
           f == [st.feed EXCEPT !.haveValue = TRUE, !.lastValue = value, !.lastTier = tier,
                                !.lastRound = id, !.lastFinalAt = now]
<1>1. /\ DOMAIN t = Tables /\ t.feed = f
      /\ t.rounds = st.rounds /\ t.disputes = st.disputes /\ t.slotlog = st.slotlog
  BY DEF FeedSetValue, Framed, Tables
<1>2. /\ DOMAIN f = FeedFields
      /\ f.haveLast = st.feed.haveLast /\ f.lastFinalized = st.feed.lastFinalized
      /\ f.oldestRound = st.feed.oldestRound /\ f.reopened = st.feed.reopened
      /\ f.openDisputes = st.feed.openDisputes /\ f.finalCursor = st.feed.finalCursor
      /\ f.startAt = st.feed.startAt /\ f.status = st.feed.status
  BY DEF Framed, FeedFields, NoFeed
<1> HIDE DEF t, f
<1>3. SameRounds(t, st)
  BY <1>1, <1>2 DEF SameRounds, Framed
<1> QED
  BY <1>3 DEF t

LEMMA RoundPayoutLeaves ==
  ASSUME NEW st, NEW eligible, Framed(st)
  PROVE  SameRecord(RoundPayout(st, eligible), st)
<1> DEFINE n == Cardinality(eligible)
           sh == Shares(st.feed, n)
           paid == [p \in Providers |-> IF p \in eligible THEN [st.providers[p] EXCEPT !.rewards = @ + sh.each]
                                                          ELSE st.providers[p]]
           t == [st EXCEPT !.feed.pool = @ - sh.drip, !.feed.penaltyCarry = sh.dust, !.providers = paid,
                           !.held.pools = @ - (sh.each * n + sh.tip), !.held.rewards = @ + sh.each * n]
<1>1. RoundPayout(st, eligible) = Send(t, sh.tip)
  BY DEF RoundPayout, PayShares
<1> HIDE DEF n, sh, paid
<1>2. /\ DOMAIN t = Tables
      /\ t.rounds = st.rounds /\ t.disputes = st.disputes /\ t.slotlog = st.slotlog
  BY DEF Framed, Tables
<1>3. /\ DOMAIN t.feed = FeedFields
      /\ t.feed.haveLast = st.feed.haveLast /\ t.feed.lastFinalized = st.feed.lastFinalized
      /\ t.feed.oldestRound = st.feed.oldestRound /\ t.feed.reopened = st.feed.reopened
      /\ t.feed.openDisputes = st.feed.openDisputes
      /\ t.feed.finalCursor = st.feed.finalCursor /\ t.feed.startAt = st.feed.startAt
      /\ t.feed.status = st.feed.status
      /\ SameServed(t.feed, st.feed)
  <2> DEFINE a == st.feed.pool - sh.drip
  <2>1. t.feed = [st.feed EXCEPT !.pool = a, !.penaltyCarry = sh.dust]
    BY DEF Framed, Tables
  <2> HIDE DEF t, a
  <2>2. SameStanding(t.feed, st.feed)
    BY <2>1, PoolMoved DEF Framed
  <2> QED
    BY <2>2 DEF SameStanding, SameServed
<1> HIDE DEF t
<1>4. SameRecord(t, st)
  BY <1>2, <1>3 DEF SameRecord, SameRounds, SameServed, Framed
<1>5. SameRecord(Send(t, sh.tip), t)
  BY <1>4, FrameKept, SendLeaves
<1> QED
  BY <1>1, <1>4, <1>5, RecordChained

LEMMA EmptyClosedLeaves ==
  ASSUME NEW st, Framed(st)
  PROVE  SameRecord(EmptyClosed(st), st)
BY DEF EmptyClosed, SameRecord, SameRounds, SameServed, Framed, Tables, FeedFields, NoFeed

LEMMA ConsumeBondLeaves ==
  ASSUME NEW st, NEW bond, NEW bps, Framed(st)
  PROVE  SameRecord(ConsumeBond(st, bond, bps), st)
BY FundVotersLeaves, BondToFeesLeaves, BondReleaseLeaves, RecordChained, FrameKept DEF ConsumeBond

LEMMA SettleAppealBondLeaves ==
  ASSUME NEW st, NEW d, NEW outcome, Framed(st)
  PROVE  SameRecord(SettleAppealBond(st, d, outcome), st)
BY BondReleaseLeaves, ConsumeBondLeaves, RecordSame DEF SettleAppealBond

LEMMA RequireLeaves ==
  ASSUME NEW st, NEW cond, Framed(st)
  PROVE  SameRecord(Require(st, cond), st)
BY DEF Require, SameRecord, SameRounds, SameServed, Framed, Tables, FeedFields, NoFeed

LEMMA RepricedLeaves ==
  ASSUME NEW st, NEW a, NEW b, NEW c, NEW d, NEW e, NEW f, NEW g, Framed(st)
  PROVE  SameRounds([st EXCEPT
            !.feed.subscriberPrice = a, !.feed.subscriptionPrice = b, !.feed.providerMinStake = c,
            !.feed.toleranceBps = d, !.feed.quarantineBps = e, !.feed.disputeWindow = f,
            !.feed.drip = g], st)
<1> DEFINE t == [st EXCEPT
            !.feed.subscriberPrice = a, !.feed.subscriptionPrice = b, !.feed.providerMinStake = c,
            !.feed.toleranceBps = d, !.feed.quarantineBps = e, !.feed.disputeWindow = f,
            !.feed.drip = g]
           u == [st.feed EXCEPT
            !.subscriberPrice = a, !.subscriptionPrice = b, !.providerMinStake = c,
            !.toleranceBps = d, !.quarantineBps = e, !.disputeWindow = f, !.drip = g]
<1>1. /\ DOMAIN t = Tables
      /\ t.rounds = st.rounds /\ t.disputes = st.disputes /\ t.feed = u
  BY DEF Framed, Tables
<1>2. /\ DOMAIN u = FeedFields
      /\ u.haveLast = st.feed.haveLast /\ u.lastFinalized = st.feed.lastFinalized
      /\ u.oldestRound = st.feed.oldestRound /\ u.reopened = st.feed.reopened
      /\ u.openDisputes = st.feed.openDisputes
      /\ u.finalCursor = st.feed.finalCursor
      /\ u.startAt = st.feed.startAt
  BY DEF Framed, FeedFields, NoFeed
<1>3. /\ u.status = st.feed.status
  BY DEF Framed, FeedFields, NoFeed
<1>4. /\ t.slotlog = st.slotlog
  BY DEF Framed, Tables
<1> HIDE DEF t, u
<1>5. SameRounds(t, st)
  BY <1>1, <1>2, <1>3, <1>4 DEF SameRounds, Framed
<1> QED
  BY <1>5 DEF t

-----------------------------------------------------------------------------
(* Records of providers, seats and the slot log. *)

LEMMA FeedSetStatusLeaves ==
  ASSUME NEW st, NEW status, Framed(st), status # "pruned"
  PROVE  SameRecord(FeedSetStatus(st, status), st)
<1> DEFINE t == FeedSetStatus(st, status)
<1>1. /\ DOMAIN t = Tables
      /\ t.rounds = st.rounds /\ t.disputes = st.disputes
  BY DEF FeedSetStatus, Framed, Tables
<1>2. /\ DOMAIN t.feed = FeedFields
      /\ t.feed.haveLast = st.feed.haveLast /\ t.feed.lastFinalized = st.feed.lastFinalized
      /\ t.feed.oldestRound = st.feed.oldestRound /\ t.feed.reopened = st.feed.reopened
      /\ t.feed.openDisputes = st.feed.openDisputes
      /\ t.feed.finalCursor = st.feed.finalCursor
      /\ t.feed.startAt = st.feed.startAt
      /\ SameServed(t.feed, st.feed)
  BY DEF FeedSetStatus, Framed, Tables, FeedFields, NoFeed, SameServed
<1>3. t.feed.status = "pruned" => st.feed.status = "pruned"
  BY DEF FeedSetStatus, Framed, Tables, FeedFields, NoFeed
<1>4. /\ t.slotlog = st.slotlog
  BY DEF FeedSetStatus, Framed, Tables
<1> HIDE DEF t
<1>5. SameRecord(t, st)
  BY <1>1, <1>2, <1>3, <1>4 DEF SameRecord, SameRounds, SameServed, Framed
<1> QED
  BY <1>5 DEF t

LEMMA ProviderDeleteLeaves ==
  ASSUME NEW st, NEW p, Framed(st)
  PROVE  SameRecord(ProviderDelete(st, p), st)
<1> DEFINE t == ProviderDelete(st, p)
<1>1. /\ DOMAIN t = Tables
      /\ t.rounds = st.rounds /\ t.disputes = st.disputes
  BY DEF ProviderDelete, Require, Framed, Tables
<1>2. /\ DOMAIN t.feed = FeedFields
      /\ t.feed.haveLast = st.feed.haveLast /\ t.feed.lastFinalized = st.feed.lastFinalized
      /\ t.feed.oldestRound = st.feed.oldestRound /\ t.feed.reopened = st.feed.reopened
      /\ t.feed.openDisputes = st.feed.openDisputes
      /\ t.feed.finalCursor = st.feed.finalCursor
      /\ t.feed.startAt = st.feed.startAt
      /\ SameServed(t.feed, st.feed)
  BY DEF ProviderDelete, Require, Framed, Tables, FeedFields, NoFeed, SameServed
<1>3. /\ t.feed.status = st.feed.status
  BY DEF ProviderDelete, Require, Framed, Tables, FeedFields, NoFeed
<1>4. /\ t.slotlog = st.slotlog
  BY DEF ProviderDelete, Require, Framed, Tables
<1> HIDE DEF t
<1>5. SameRecord(t, st)
  BY <1>1, <1>2, <1>3, <1>4 DEF SameRecord, SameRounds, SameServed, Framed
<1> QED
  BY <1>5 DEF t

LEMMA ProvidersSetLeaves ==
  ASSUME NEW st, NEW ps, Framed(st)
  PROVE  SameRecord([st EXCEPT !.providers = ps], st)
<1> DEFINE t == [st EXCEPT !.providers = ps]
<1>1. /\ DOMAIN t = Tables
      /\ t.rounds = st.rounds /\ t.disputes = st.disputes
  BY DEF Framed, Tables
<1>2. /\ DOMAIN t.feed = FeedFields
      /\ t.feed.haveLast = st.feed.haveLast /\ t.feed.lastFinalized = st.feed.lastFinalized
      /\ t.feed.oldestRound = st.feed.oldestRound /\ t.feed.reopened = st.feed.reopened
      /\ t.feed.openDisputes = st.feed.openDisputes
      /\ t.feed.finalCursor = st.feed.finalCursor
      /\ t.feed.startAt = st.feed.startAt
      /\ SameServed(t.feed, st.feed)
  BY DEF Framed, Tables, FeedFields, NoFeed, SameServed
<1>3. /\ t.feed.status = st.feed.status
  BY DEF Framed, Tables, FeedFields, NoFeed
<1>4. /\ t.slotlog = st.slotlog
  BY DEF Framed, Tables
<1> HIDE DEF t
<1>5. SameRecord(t, st)
  BY <1>1, <1>2, <1>3, <1>4 DEF SameRecord, SameRounds, SameServed, Framed
<1> QED
  BY <1>5 DEF t

LEMMA NewProviderLeaves ==
  ASSUME NEW st, NEW p, NEW stake, NEW s, NEW from, Framed(st)
  PROVE  SameRecord(NewProvider(st, p, stake, s, from), st)
<1> DEFINE t == NewProvider(st, p, stake, s, from)
<1>1. /\ DOMAIN t = Tables
      /\ t.rounds = st.rounds /\ t.disputes = st.disputes
  BY DEF NewProvider, Inflow, Require, Framed, Tables
<1>2. /\ DOMAIN t.feed = FeedFields
      /\ t.feed.haveLast = st.feed.haveLast /\ t.feed.lastFinalized = st.feed.lastFinalized
      /\ t.feed.oldestRound = st.feed.oldestRound /\ t.feed.reopened = st.feed.reopened
      /\ t.feed.openDisputes = st.feed.openDisputes
      /\ t.feed.finalCursor = st.feed.finalCursor
      /\ t.feed.startAt = st.feed.startAt
      /\ SameServed(t.feed, st.feed)
  BY DEF NewProvider, Inflow, Require, Framed, Tables, FeedFields, NoFeed, SameServed
<1>3. /\ t.feed.status = st.feed.status
  BY DEF NewProvider, Inflow, Require, Framed, Tables, FeedFields, NoFeed
<1>4. /\ t.slotlog = st.slotlog
  BY DEF NewProvider, Inflow, Require, Framed, Tables
<1> HIDE DEF t
<1>5. SameRecord(t, st)
  BY <1>1, <1>2, <1>3, <1>4 DEF SameRecord, SameRounds, SameServed, Framed
<1> QED
  BY <1>5 DEF t

LEMMA ProviderStartUnbondLeaves ==
  ASSUME NEW st, NEW who, NEW readyAt, Framed(st)
  PROVE  SameRecord(ProviderStartUnbond(st, who, readyAt), st)
<1> DEFINE moved == SumFunction([p \in who |-> st.providers[p].stake])
           ps == [p \in Providers |-> IF p \in who THEN Unbonding(st.providers[p], readyAt) ELSE st.providers[p]]
           t == [st EXCEPT !.providers = ps, !.held.stakes = @ - moved, !.held.unbonding = @ + moved]
<1>1. ProviderStartUnbond(st, who, readyAt) = t
  BY DEF ProviderStartUnbond
<1> HIDE DEF moved, ps
<1>2. DOMAIN t = Tables /\ t.rounds = st.rounds /\ t.disputes = st.disputes /\ t.slotlog = st.slotlog /\ t.feed = st.feed
  BY DEF Framed, Tables
<1> HIDE DEF t
<1> QED
  BY <1>1, <1>2 DEF SameRecord, SameRounds, SameServed, Framed

LEMMA LogSetEntries ==
  ASSUME NEW log, NEW entries, \A e \in entries : Entry(e)
  PROVE  \A e \in LogSet(log, entries) : e \in log \/ Entry(e)
BY DEF LogSet

LEMMA LogEntryIsEntry ==
  ASSUME NEW s, NEW from \in Nat, NEW holder \in Providers \cup {NoOne}
  PROVE  Entry(LogEntry(s, from, holder))
BY DEF LogEntry, Entry

LEMMA FeedAssignSlotLeaves ==
  ASSUME NEW st, NEW s, NEW p \in Providers, NEW from \in Nat, Framed(st)
  PROVE  SameRecord(FeedAssignSlot(st, s, p, from), st)
<1> DEFINE t == FeedAssignSlot(st, s, p, from)
<1>1. /\ DOMAIN t = Tables
      /\ t.rounds = st.rounds /\ t.disputes = st.disputes
      /\ t.slotlog = LogSet(st.slotlog, {LogEntry(s, from, p)})
  BY DEF FeedAssignSlot, Require, Framed, Tables
<1>2. /\ DOMAIN t.feed = FeedFields
      /\ t.feed.haveLast = st.feed.haveLast /\ t.feed.lastFinalized = st.feed.lastFinalized
      /\ t.feed.oldestRound = st.feed.oldestRound /\ t.feed.reopened = st.feed.reopened
      /\ t.feed.openDisputes = st.feed.openDisputes
      /\ t.feed.finalCursor = st.feed.finalCursor /\ t.feed.startAt = st.feed.startAt
      /\ t.feed.status = st.feed.status
      /\ SameServed(t.feed, st.feed)
  BY DEF FeedAssignSlot, Require, Framed, Tables, FeedFields, NoFeed, SameServed
<1> HIDE DEF t
<1>3. \A e \in t.slotlog : e \in st.slotlog \/ Entry(e)
  <2>1. \A e \in {LogEntry(s, from, p)} : Entry(e)
    BY LogEntryIsEntry
  <2> QED
    BY <1>1, <2>1, LogSetEntries
<1>4. SameRecord(t, st)
  BY <1>1, <1>2, <1>3 DEF SameRecord, SameRounds, SameServed, Framed
<1> QED
  BY <1>4 DEF t

LEMMA FeedClearSlotsLeaves ==
  ASSUME NEW st, NEW cleared, NEW from \in Nat, Framed(st)
  PROVE  SameRecord(FeedClearSlots(st, cleared, from), st)
<1> DEFINE t == FeedClearSlots(st, cleared, from)
           written == { LogEntry(s, from, NoOne) : s \in cleared }
<1>1. /\ DOMAIN t = Tables
      /\ t.rounds = st.rounds /\ t.disputes = st.disputes
      /\ t.slotlog = LogSet(st.slotlog, written)
  BY DEF FeedClearSlots, Require, Framed, Tables
<1>2. /\ DOMAIN t.feed = FeedFields
      /\ t.feed.haveLast = st.feed.haveLast /\ t.feed.lastFinalized = st.feed.lastFinalized
      /\ t.feed.oldestRound = st.feed.oldestRound /\ t.feed.reopened = st.feed.reopened
      /\ t.feed.openDisputes = st.feed.openDisputes
      /\ t.feed.finalCursor = st.feed.finalCursor /\ t.feed.startAt = st.feed.startAt
      /\ t.feed.status = st.feed.status
      /\ SameServed(t.feed, st.feed)
  BY DEF FeedClearSlots, Require, Framed, Tables, FeedFields, NoFeed, SameServed
<1> HIDE DEF t
<1>3. \A e \in t.slotlog : e \in st.slotlog \/ Entry(e)
  <2>1. \A e \in written : Entry(e)
    BY LogEntryIsEntry
  <2> HIDE DEF written
  <2> QED
    BY <1>1, <2>1, LogSetEntries
<1>4. SameRecord(t, st)
  BY <1>1, <1>2, <1>3 DEF SameRecord, SameRounds, SameServed, Framed
<1> QED
  BY <1>4 DEF t

LEMMA LeaveLeaves ==
  ASSUME NEW st, NEW who, Framed(st), st.feed.startAt \in Nat, now \in Nat
  PROVE  SameRecord(Leave(st, who), st)
<1> DEFINE seated == { st.providers[p].slot : p \in { q \in who : st.providers[q].status = "active" } }
           from == ObligedFrom(st.feed)
           cleared == FeedClearSlots(st, seated, from)
<1>1. Leave(st, who) = ProviderStartUnbond(cleared, who, now + Param.unbondPeriod)
  BY DEF Leave
<1>2. from \in Nat
  BY ObligedFromNat
<1> HIDE DEF seated, from
<1>3. SameRecord(cleared, st)
  BY <1>2, FeedClearSlotsLeaves
<1> HIDE DEF cleared
<1> QED
  BY <1>1, <1>3, FrameKept, ProviderStartUnbondLeaves, RecordChained

LEMMA RetireLeaves ==
  ASSUME NEW st, Framed(st), st.feed.startAt \in Nat, now \in Nat
  PROVE  SameRecord(Retire(st), st)
<1> DEFINE who == { p \in Providers : st.providers[p].status \in {"active", "jailed"} }
<1>1. SameRecord(Leave(st, who), st)
  BY LeaveLeaves
<1> HIDE DEF who
<1>2. SameRecord(FeedSetStatus(Leave(st, who), "deprecated"), Leave(st, who))
  BY <1>1, FrameKept, FeedSetStatusLeaves
<1> QED
  BY <1>1, <1>2, RecordChained DEF Retire, who

LEMMA AfterEmptyLeaves ==
  ASSUME NEW st, Framed(st), st.feed.startAt \in Nat, now \in Nat
  PROVE  SameRecord(AfterEmpty(st), st)
<1>1. SameRecord(FeedPoolToFees(st), st) /\ FeedPoolToFees(st).feed.startAt \in Nat
  BY FeedPoolToFeesLeaves DEF SameRecord, SameRounds, SameServed
<1>2. SameRecord(Retire(FeedPoolToFees(st)), FeedPoolToFees(st))
  BY <1>1, FrameKept, RetireLeaves
<1> QED
  BY <1>1, <1>2, RecordChained, RecordSame DEF AfterEmpty

LEMMA FundingStatusLeaves ==
  ASSUME NEW st, Framed(st)
  PROVE  SameRecord(FundingStatus(st), st)
BY FeedSetStatusLeaves, RecordSame DEF FundingStatus

LEMMA ResubscribedLeaves ==
  ASSUME NEW st, Framed(st)
  PROVE  SameRecord(Resubscribed(st), st)
BY FeedSetStatusLeaves, RecordSame DEF Resubscribed

LEMMA WalkEndNat ==
  ASSUME NEW st, NEW t, st.feed.finalCursor \in Nat, st.feed.lastFinalized \in Nat
  PROVE  WalkEnd(st, t) \in Nat
<1> DEFINE f == st.feed
           held_at == { id \in f.finalCursor .. f.lastFinalized : HoldsPromotion(st, id, t) }
<1>1. CASE ~f.haveLast \/ f.finalCursor > f.lastFinalized \/ held_at = {}
  <2> HIDE DEF held_at
  <2> QED
    BY <1>1 DEF WalkEnd, held_at
<1>2. CASE ~(~f.haveLast \/ f.finalCursor > f.lastFinalized \/ held_at = {})
  <2>1. held_at \in SUBSET Nat
    OBVIOUS
  <2>2. WalkEnd(st, t) = Min(held_at)
    <3> HIDE DEF held_at
    <3> QED
      BY <1>2 DEF WalkEnd, held_at
  <2> HIDE DEF held_at
  <2>3. Min(held_at) \in held_at
    BY <1>2, <2>1, LeastIn
  <2> QED
    BY <2>1, <2>2, <2>3
<1> QED
  BY <1>1, <1>2

LEMMA SetFinalLeaves ==
  ASSUME NEW st, NEW lf, NEW cursor, Framed(st), 
         st.feed.finalCursor \in Nat /\ st.feed.lastFinalized \in Nat => cursor \in Nat
  PROVE  SameRounds(SetFinal(st, lf, cursor), st)
<1> DEFINE t == SetFinal(st, lf, cursor)
<1>1. /\ DOMAIN t = Tables
      /\ t.rounds = st.rounds /\ t.disputes = st.disputes
  BY DEF SetFinal, Framed, Tables
<1>2. /\ DOMAIN t.feed = FeedFields
      /\ t.feed.haveLast = st.feed.haveLast /\ t.feed.lastFinalized = st.feed.lastFinalized
      /\ t.feed.oldestRound = st.feed.oldestRound /\ t.feed.reopened = st.feed.reopened
      /\ t.feed.openDisputes = st.feed.openDisputes
      /\ t.feed.finalCursor = cursor
      /\ t.feed.startAt = st.feed.startAt
      /\ t.feed.status = st.feed.status
  <2>1. /\ t.feed = [st.feed EXCEPT !.haveFinal = lf.ok, !.finalValue = lf.value, !.finalRound = lf.round,
                                    !.finalAt = lf.at, !.finalCursor = cursor]
        /\ DOMAIN st.feed = FeedFields
    BY DEF SetFinal, Framed, Tables
  <2> HIDE DEF t
  <2> QED
    BY ONLY <2>1 DEF FeedFields, NoFeed
<1>3. /\ t.slotlog = st.slotlog
  BY DEF SetFinal, Framed, Tables
<1> HIDE DEF t
<1>4. SameRounds(t, st)
  BY <1>1, <1>2, <1>3 DEF SameRounds, Framed
<1> QED
  BY <1>4 DEF t

LEMMA FeedPromoteFinalLeaves ==
  ASSUME NEW st, Framed(st)
  PROVE  SameRounds(FeedPromoteFinal(st), st)
<1>1. st.feed.finalCursor \in Nat /\ st.feed.lastFinalized \in Nat => WalkEnd(st, now) \in Nat
  BY WalkEndNat
<1> QED
  BY <1>1, SetFinalLeaves DEF FeedPromoteFinal

LEMMA PromotedLeaves ==
  ASSUME NEW st, NEW agg, Framed(st)
  PROVE  SameRounds(Promoted(st, agg), st)
BY FeedPromoteFinalLeaves, RecordSame, RoundsOfRecord DEF Promoted

LEMMA EnforceLeaves ==
  ASSUME NEW st, NEW id \in Nat, NEW seat, NEW verdict, Framed(st)
  PROVE  SameRecord(Enforce(st, id, seat, verdict), st)
<1> DEFINE
      owing == DOMAIN seat
      cleared == { seat[p] : p \in { q \in owing : verdict[q].jailed } }
      fromStake == SumFunction([p \in owing |-> verdict[p].fromStake])
      fromUnbond == SumFunction([p \in owing |-> verdict[p].fromUnbond])
      moved == SumFunction([p \in owing |-> verdict[p].moved])
      alert == SumFunction([p \in owing |-> MulBps(verdict[p].fromStake + verdict[p].fromUnbond, Param.alerterShareBps)])
      ps == [p \in Providers |-> IF p \in owing THEN verdict[p].rec ELSE st.providers[p]]
      judged == [st EXCEPT
        !.providers = ps,
        !.feed.penaltyCarry = @ + (fromStake + fromUnbond - alert),
        !.held.pools = @ + (fromStake + fromUnbond - alert),
        !.held.stakes = @ - fromStake - moved,
        !.held.unbonding = @ - fromUnbond + moved]
      t == FeedClearSlots(judged, cleared, id + 1)
<1>1. Enforce(st, id, seat, verdict) = Send(t, alert)
  BY DEF Enforce
<1> HIDE DEF cleared, fromStake, fromUnbond, moved, alert, ps
<1>2. /\ DOMAIN judged = Tables
      /\ judged.rounds = st.rounds /\ judged.disputes = st.disputes /\ judged.slotlog = st.slotlog
  BY DEF Framed, Tables
<1>3. /\ DOMAIN judged.feed = FeedFields
      /\ judged.feed.haveLast = st.feed.haveLast /\ judged.feed.lastFinalized = st.feed.lastFinalized
      /\ judged.feed.oldestRound = st.feed.oldestRound /\ judged.feed.reopened = st.feed.reopened
      /\ judged.feed.openDisputes = st.feed.openDisputes
      /\ judged.feed.finalCursor = st.feed.finalCursor /\ judged.feed.startAt = st.feed.startAt
      /\ judged.feed.status = st.feed.status
      /\ SameServed(judged.feed, st.feed)
  BY DEF Framed, Tables, FeedFields, NoFeed, SameServed
<1> HIDE DEF judged
<1>4. SameRecord(judged, st)
  BY <1>2, <1>3 DEF SameRecord, SameRounds, SameServed, Framed
<1>5. id + 1 \in Nat
  OBVIOUS
<1>6. SameRecord(t, judged)
  BY <1>4, <1>5, FrameKept, FeedClearSlotsLeaves
<1> HIDE DEF t
<1>7. SameRecord(t, st)
  BY <1>4, <1>6, RecordChained
<1>8. SameRecord(Send(t, alert), t)
  BY <1>7, FrameKept, SendLeaves
<1> QED
  BY <1>1, <1>7, <1>8, RecordChained

LEMMA LivenessLeaves ==
  ASSUME NEW st, NEW id \in Nat, NEW agg, NEW funded, Framed(st)
  PROVE  SameRecord(Liveness(st, id, agg, funded), st)
BY EnforceLeaves DEF Liveness, Judged

LEMMA CarryOutLeaves ==
  ASSUME NEW st, NEW slash, Framed(st), st.feed.startAt \in Nat, now \in Nat
  PROVE  SameRecord(CarryOut(st, slash), st)
<1> DEFINE
      out == { p \in DOMAIN slash : slash[p].ejected }
      seated == { p \in out : st.providers[p].status = "active" }
      cleared == { s \in Slots : st.slots[s] \in seated /\ st.providers[st.slots[s]].slot = s }
      fromStake == SumFunction([p \in DOMAIN slash |-> slash[p].fromStake])
      fromUnbond == SumFunction([p \in DOMAIN slash |-> slash[p].fromUnbond])
      moved == SumFunction([p \in out |-> st.providers[p].stake - slash[p].fromStake])
      ps == [p \in Providers |-> IF p \in DOMAIN slash THEN slash[p].rec ELSE st.providers[p]]
      cut == [st EXCEPT !.providers = ps,
                        !.held.stakes = @ - fromStake - moved,
                        !.held.unbonding = @ - fromUnbond + moved,
                        !.held.bonds = @ + fromStake + fromUnbond]
<1>1. CarryOut(st, slash) = FeedClearSlots(cut, cleared, ObligedFrom(st.feed))
  BY DEF CarryOut
<1> HIDE DEF cleared, fromStake, fromUnbond, moved, ps
<1>2. /\ DOMAIN cut = Tables /\ cut.feed = st.feed
      /\ cut.rounds = st.rounds /\ cut.disputes = st.disputes /\ cut.slotlog = st.slotlog
  BY DEF Framed, Tables
<1> HIDE DEF cut
<1>3. SameRecord(cut, st)
  BY <1>2 DEF SameRecord, SameRounds, SameServed, Framed
<1>4. ObligedFrom(st.feed) \in Nat
  BY ObligedFromNat
<1>5. SameRecord(FeedClearSlots(cut, cleared, ObligedFrom(st.feed)), cut)
  BY <1>3, <1>4, FrameKept, FeedClearSlotsLeaves
<1> QED
  BY <1>1, <1>3, <1>5, RecordChained

LEMMA RouteTakenLeaves ==
  ASSUME NEW st, NEW taken, Framed(st)
  PROVE  SameRecord(RouteTaken(st, taken), st)
BY BondReleaseLeaves, FundVotersLeaves, BondToFeesLeaves, RecordChained, FrameKept DEF RouteTaken

LEMMA FeedActivateLeaves ==
  ASSUME NEW st, NEW startAt \in Nat, NEW drip, Framed(st)
  PROVE  SameRecord(FeedActivate(st, startAt, drip), st)
<1> DEFINE pre == st.feed.prepaid
           act == [st EXCEPT !.feed.status = "active", !.feed.startAt = startAt, !.feed.drip = drip,
                             !.feed.prepaid = 0, !.held.deposits = @ - pre]
           split == SplitSubscription(act, pre)
           pooled == [act EXCEPT !.feed.pool = @ + pre, !.held.pools = @ + pre]
<1>1. FeedActivate(st, startAt, drip) \in {act, split, pooled}
  BY DEF FeedActivate
<1> HIDE DEF pre
<1>2. /\ DOMAIN act = Tables
      /\ act.rounds = st.rounds /\ act.disputes = st.disputes /\ act.slotlog = st.slotlog
      /\ act.feed = [st.feed EXCEPT !.status = "active", !.startAt = startAt, !.drip = drip, !.prepaid = 0]
  BY DEF Framed, Tables
<1> HIDE DEF act
<1>3. /\ DOMAIN act.feed = FeedFields
      /\ act.feed.haveLast = st.feed.haveLast /\ act.feed.lastFinalized = st.feed.lastFinalized
      /\ act.feed.oldestRound = st.feed.oldestRound /\ act.feed.reopened = st.feed.reopened
      /\ act.feed.openDisputes = st.feed.openDisputes
      /\ act.feed.finalCursor = st.feed.finalCursor /\ act.feed.startAt = startAt
      /\ act.feed.status = "active"
      /\ SameServed(act.feed, st.feed)
  BY <1>2 DEF Framed, FeedFields, NoFeed, SameServed
<1>4. SameRecord(act, st)
  BY <1>2, <1>3 DEF SameRecord, SameRounds, SameServed, Framed
<1>5. SameRecord(split, act)
  BY <1>4, FrameKept, SplitSubscriptionLeaves
<1>6. /\ DOMAIN pooled = Tables
      /\ pooled.rounds = act.rounds /\ pooled.disputes = act.disputes /\ pooled.slotlog = act.slotlog
  BY <1>2 DEF Tables
<1>7. /\ DOMAIN pooled.feed = FeedFields
      /\ pooled.feed.haveLast = act.feed.haveLast /\ pooled.feed.lastFinalized = act.feed.lastFinalized
      /\ pooled.feed.oldestRound = act.feed.oldestRound /\ pooled.feed.reopened = act.feed.reopened
      /\ pooled.feed.openDisputes = act.feed.openDisputes
      /\ pooled.feed.finalCursor = act.feed.finalCursor /\ pooled.feed.startAt = act.feed.startAt
      /\ pooled.feed.status = act.feed.status
      /\ SameServed(pooled.feed, act.feed)
  BY <1>2, <1>3 DEF Tables, FeedFields, NoFeed, SameServed
<1> HIDE DEF pooled
<1>8. SameRecord(pooled, act)
  BY <1>6, <1>7 DEF SameRecord, SameRounds, SameServed, Framed
<1> QED
  BY <1>1, <1>4, <1>5, <1>8, RecordChained

LEMMA ActivateLeaves ==
  ASSUME NEW st, Framed(st), now \in Nat
  PROVE  SameRecord(Activate(st), st)
<1> DEFINE
      startAt == IF Recurs THEN (now - (now % Spec0.interval)) + Spec0.interval ELSE Spec0.resolveAt
      drip == IF Recurs THEN DripFor(st.feed.subscriptionPrice) ELSE 0
      early == Recurs \/ Spec0.resolveAt > now
      timely == Require(st, early)
      act == FeedActivate(timely, startAt, drip)
<1>1. Activate(st) = DepositRefund(act)
  BY DEF Activate
<1>2. startAt \in Nat
  <2>1. Spec0.resolveAt \in Nat /\ Spec0.interval \in Nat /\ Spec0.interval >= 1
    BY TimesAssumption, ConstantsAssumption
  <2> DEFINE n == Spec0.interval
  <2>2. n \in Nat /\ n >= 1
    BY <2>1
  <2> HIDE DEF n
  <2>3. (now - (now % n)) + n \in Nat
    BY <2>2
  <2> QED
    BY <2>1, <2>3 DEF n
<1> HIDE DEF startAt, drip, early
<1>3. SameRecord(timely, st)
  BY RequireLeaves
<1> HIDE DEF timely
<1>4. SameRecord(act, timely)
  BY <1>2, <1>3, FrameKept, FeedActivateLeaves
<1> HIDE DEF act
<1>5. SameRecord(act, st)
  BY <1>3, <1>4, RecordChained
<1> QED
  BY <1>1, <1>5, FrameKept, DepositRefundLeaves, RecordChained

LEMMA SettleProvidersLeaves ==
  ASSUME NEW st, NEW ready, Framed(st)
  PROVE  SameRecord(SettleProviders(st, ready), st)
<1> DEFINE
      rewards == SumFunction([p \in Providers |-> st.providers[p].rewards])
      paid == SumFunction([p \in ready |-> st.providers[p].unbondAmount])
      t == [st EXCEPT !.providers = [p \in Providers |-> NoProvider],
                      !.held.rewards = @ - rewards, !.held.feesPending = @ + rewards,
                      !.held.unbonding = @ - paid]
<1>1. SettleProviders(st, ready) = Send(t, paid)
  BY DEF SettleProviders
<1> HIDE DEF rewards, paid
<1>2. /\ DOMAIN t = Tables /\ t.feed = st.feed
      /\ t.rounds = st.rounds /\ t.disputes = st.disputes /\ t.slotlog = st.slotlog
  BY DEF Framed, Tables
<1> HIDE DEF t
<1>3. SameRecord(t, st)
  BY <1>2 DEF SameRecord, SameRounds, SameServed, Framed
<1> QED
  BY <1>1, <1>3, FrameKept, SendLeaves, RecordChained

-----------------------------------------------------------------------------
(* What is on record. *)

DisputeFields ==
  {"status", "round", "bond", "proposedValue", "tierAsked", "ballotRound", "ballotEnds", "outcome",
   "firstOutcome", "tierDecided", "decidedAt", "appealBond", "priorTier"}

\* The disputes that still run.
Running(st) == { d \in DOMAIN st.disputes : st.disputes[d].status # "resolved" }

\* The oldest round kept is not beyond the next one, and only a one-off feed is reopened.
Cursors(f) ==
  /\ f.haveLast \in BOOLEAN /\ f.reopened \in BOOLEAN
  /\ f.lastFinalized \in Nat /\ f.oldestRound \in Nat /\ f.finalCursor \in Nat /\ f.startAt \in Nat
  /\ f.oldestRound <= NextRound(f.haveLast, f.lastFinalized)
  /\ f.reopened => ~Recurs

\* The cursor splits the rounds: those up to it are settled and still there from the oldest one
\* kept on, and those past it are open.
RoundsSound(st) ==
  /\ DOMAIN st.rounds \subseteq Nat
  /\ ~Recurs => DOMAIN st.rounds \subseteq {0}
  /\ \A id \in DOMAIN st.rounds :
       /\ DOMAIN st.rounds[id] = RoundFields
       /\ id >= st.feed.oldestRound
       /\ st.rounds[id].status = "open" <=> ~(st.feed.haveLast /\ id <= st.feed.lastFinalized)
       /\ st.rounds[id].tier = "disputed" =>
            st.rounds[id].disputeID \in Running(st) /\ st.disputes[st.rounds[id].disputeID].round = id
  /\ (st.feed.haveLast /\ ~st.feed.reopened) =>
       st.feed.oldestRound .. st.feed.lastFinalized \subseteq DOMAIN st.rounds

\* A running dispute and its round point at each other, and the feed counts the running ones.
DisputesSound(st) ==
  /\ IsSequence(st.disputes)
  /\ \A d \in DOMAIN st.disputes : DOMAIN st.disputes[d] = DisputeFields
  /\ \A d \in Running(st) :
       /\ st.disputes[d].round \in DOMAIN st.rounds
       /\ st.rounds[st.disputes[d].round].disputeID = d
       /\ st.rounds[st.disputes[d].round].status = "aggregated"
       /\ st.rounds[st.disputes[d].round].tier = "disputed"
       /\ st.disputes[d].priorTier # "disputed"
  /\ st.feed.openDisputes = Cardinality(Running(st))

\* Nothing runs when the feed is gone, and its slot log holds entries.
LogSound(st) ==
  /\ \A e \in st.slotlog : Entry(e)
  /\ st.feed.status = "pruned" => Running(st) = {}

OnRecord(st) ==
  Framed(st) /\ Cursors(st.feed) /\ RoundsSound(st) /\ DisputesSound(st) /\ LogSound(st)

\* Disputes stay sound as long as the rounds of the running ones are not touched.
LEMMA DisputesKept ==
  ASSUME NEW st, NEW t, DisputesSound(st),
         t.disputes = st.disputes, t.feed.openDisputes = st.feed.openDisputes,
         \A d \in Running(st) :
           /\ st.disputes[d].round \in DOMAIN t.rounds
           /\ t.rounds[st.disputes[d].round] = st.rounds[st.disputes[d].round]
  PROVE  DisputesSound(t)
<1>1. Running(t) = Running(st)
  BY DEF Running
<1>2. /\ IsSequence(t.disputes)
      /\ \A d \in DOMAIN t.disputes : DOMAIN t.disputes[d] = DisputeFields
      /\ t.feed.openDisputes = Cardinality(Running(t))
  BY <1>1 DEF DisputesSound
<1>3. ASSUME NEW d \in Running(t)
      PROVE  /\ t.disputes[d].round \in DOMAIN t.rounds
             /\ t.rounds[t.disputes[d].round].disputeID = d
             /\ t.rounds[t.disputes[d].round].status = "aggregated"
             /\ t.rounds[t.disputes[d].round].tier = "disputed"
             /\ t.disputes[d].priorTier # "disputed"
  <2> DEFINE k == st.disputes[d].round
  <2>1. t.disputes[d] = st.disputes[d] /\ k \in DOMAIN t.rounds /\ t.rounds[k] = st.rounds[k]
    BY <1>1, <1>3
  <2>2. /\ st.rounds[k].disputeID = d /\ st.rounds[k].status = "aggregated" /\ st.rounds[k].tier = "disputed"
        /\ st.disputes[d].priorTier # "disputed"
    BY ONLY DisputesSound(st), <1>1, <1>3 DEF DisputesSound
  <2> QED
    BY ONLY <2>1, <2>2
<1> QED
  BY ONLY <1>2, <1>3 DEF DisputesSound

LEMMA RoundsKept ==
  ASSUME NEW st, NEW t, SameRounds(t, st), OnRecord(st)
  PROVE  OnRecord(t)
<1>1. Framed(t) /\ Cursors(t.feed)
  BY DEF SameRounds, OnRecord, Cursors
<1>2. Running(t) = Running(st)
  BY DEF SameRounds, Running
<1>3. RoundsSound(t)
  BY <1>2 DEF SameRounds, OnRecord, RoundsSound
<1>4. DisputesSound(t)
  <2>1. DisputesSound(st) /\ t.disputes = st.disputes /\ t.rounds = st.rounds /\ t.feed.openDisputes = st.feed.openDisputes
    BY DEF SameRounds, OnRecord
  <2>2. \A d \in Running(st) : st.disputes[d].round \in DOMAIN t.rounds
    BY ONLY <2>1 DEF DisputesSound
  <2> QED
    BY ONLY <2>1, <2>2, DisputesKept
<1>5. LogSound(t)
  BY <1>2 DEF SameRounds, OnRecord, LogSound
<1> QED
  BY <1>1, <1>3, <1>4, <1>5 DEF OnRecord

LEMMA RecordKept ==
  ASSUME NEW st, NEW t, SameRecord(t, st), OnRecord(st)
  PROVE  OnRecord(t)
BY RoundsKept, RoundsOfRecord

LEMMA OnRecordFramed ==
  ASSUME NEW st, OnRecord(st)
  PROVE  Framed(st) /\ st.feed.startAt \in Nat
BY DEF OnRecord, Cursors

LEMMA RunningFinite ==
  ASSUME NEW st, OnRecord(st)
  PROVE  IsFiniteSet(Running(st)) /\ Cardinality(Running(st)) \in Nat
<1>1. Running(st) \subseteq DOMAIN st.disputes /\ IsFiniteSet(DOMAIN st.disputes)
  BY SequenceDomain DEF OnRecord, DisputesSound, Running
<1> QED
  BY <1>1, FS_Subset, FS_CardinalityType

-----------------------------------------------------------------------------
(* Rounds. *)

\* The next rounds are not settled yet.
LEMMA NextIsPastOldest ==
  ASSUME NEW f, NEW id \in Nat, Cursors(f), id >= NextRound(f.haveLast, f.lastFinalized)
  PROVE  id >= f.oldestRound /\ ~(f.haveLast /\ id <= f.lastFinalized)
BY DEF Cursors, NextRound

\* The round of a running dispute is settled: the cursor is past it.
LEMMA SettledWhereDisputed ==
  ASSUME NEW st, OnRecord(st), NEW d \in Running(st)
  PROVE  st.feed.haveLast /\ st.disputes[d].round <= st.feed.lastFinalized
<1> DEFINE k == st.disputes[d].round
<1>1. DisputesSound(st) /\ RoundsSound(st)
  BY DEF OnRecord
<1>2. k \in DOMAIN st.rounds /\ st.rounds[k].status = "aggregated"
  BY ONLY <1>1 DEF DisputesSound
<1> HIDE DEF k
<1>3. st.rounds[k].status = "open" <=> ~(st.feed.haveLast /\ k <= st.feed.lastFinalized)
  BY ONLY <1>1, <1>2 DEF RoundsSound
<1>4. st.feed.haveLast /\ k <= st.feed.lastFinalized
  BY ONLY <1>2, <1>3
<1> QED
  BY ONLY <1>4 DEF k

\* An open round is written, with other submissions or for the first time.
LEMMA OpenRoundPut ==
  ASSUME NEW st, NEW id \in Nat, NEW rd, OnRecord(st), ~Recurs => id = 0,
         id >= NextRound(st.feed.haveLast, st.feed.lastFinalized),
         DOMAIN rd = RoundFields, rd.status = "open",
         rd.tier = GetRound(st, id).tier, rd.disputeID = GetRound(st, id).disputeID
  PROVE  OnRecord(PutRound(st, id, rd))
<1> DEFINE t == PutRound(st, id, rd)
<1>1. /\ Framed(t) /\ t.feed = st.feed /\ t.disputes = st.disputes /\ t.slotlog = st.slotlog
      /\ t.rounds = [k \in DOMAIN st.rounds \cup {id} |-> IF k = id THEN rd ELSE st.rounds[k]]
  BY DEF PutRound, OnRecord, Framed, Tables
<1> HIDE DEF t
<1>2. Running(t) = Running(st)
  BY <1>1 DEF Running
<1>3. id >= st.feed.oldestRound /\ ~(st.feed.haveLast /\ id <= st.feed.lastFinalized)
  BY NextIsPastOldest DEF OnRecord
<1>4. rd.tier = "disputed" => rd.disputeID \in Running(st) /\ st.disputes[rd.disputeID].round = id
  <2>1. CASE id \in DOMAIN st.rounds
    BY <2>1 DEF GetRound, OnRecord, RoundsSound
  <2>2. CASE id \notin DOMAIN st.rounds
    BY <2>2 DEF GetRound, FreshRound
  <2> QED
    BY <2>1, <2>2
<1>5. \A d \in Running(st) : st.disputes[d].round # id
  BY <1>3, SettledWhereDisputed
<1>6. RoundsSound(t)
  <2>1. RoundsSound(st)
    BY DEF OnRecord
  <2>2. ASSUME NEW k \in DOMAIN t.rounds
        PROVE  /\ DOMAIN t.rounds[k] = RoundFields
               /\ k >= t.feed.oldestRound
               /\ t.rounds[k].status = "open" <=> ~(t.feed.haveLast /\ k <= t.feed.lastFinalized)
               /\ t.rounds[k].tier = "disputed" =>
                    t.rounds[k].disputeID \in Running(t) /\ t.disputes[t.rounds[k].disputeID].round = k
    <3>1. CASE k = id
      BY <1>1, <1>2, <1>3, <1>4, <3>1
    <3>2. CASE k # id
      <4>1. k \in DOMAIN st.rounds /\ t.rounds[k] = st.rounds[k]
        BY ONLY <1>1, <2>2, <3>2
      <4> QED
        BY ONLY <1>1, <1>2, <2>1, <4>1 DEF RoundsSound
    <3> QED
      BY ONLY <3>1, <3>2
  <2>3. DOMAIN t.rounds = DOMAIN st.rounds \cup {id}
    BY <1>1
  <2> QED
    BY <1>1, <2>1, <2>2, <2>3 DEF RoundsSound
<1>7. DisputesSound(t)
  <2>1. DisputesSound(st)
    BY DEF OnRecord
  <2>2. \A d \in Running(st) :
          /\ st.disputes[d].round \in DOMAIN t.rounds
          /\ t.rounds[st.disputes[d].round] = st.rounds[st.disputes[d].round]
    <3>1. \A d \in Running(st) : st.disputes[d].round \in DOMAIN st.rounds
      BY ONLY <2>1 DEF DisputesSound
    <3> QED
      BY ONLY <1>1, <1>5, <3>1
  <2> QED
    BY ONLY <1>1, <2>1, <2>2, DisputesKept
<1>8. OnRecord(t)
  BY <1>1, <1>2, <1>6, <1>7 DEF OnRecord, LogSound
<1> QED
  BY <1>8 DEF t

\* The next round is settled and the cursor moves on to it.
LEMMA NextRoundSettled ==
  ASSUME NEW st, NEW id \in Nat, NEW status, NEW tier, NEW value, OnRecord(st), ~Recurs => id = 0,
         id = NextRound(st.feed.haveLast, st.feed.lastFinalized),
         status # "open", tier # "disputed"
  PROVE  OnRecord(FeedSetCursor(RoundFinalise(st, id, status, tier, value), id))
<1> DEFINE rd == [GetRound(st, id) EXCEPT !.status = status, !.tier = tier, !.value = value, !.finalisedAt = now]
           u == PutRound(st, id, rd)
           t == FeedSetCursor(u, id)
<1>1. FeedSetCursor(RoundFinalise(st, id, status, tier, value), id) = t
  BY DEF RoundFinalise
<1>2. DOMAIN rd = RoundFields /\ rd.status = status /\ rd.tier = tier
  <2>1. DOMAIN GetRound(st, id) = RoundFields
    BY DEF GetRound, OnRecord, RoundsSound, RoundFields
  <2> QED
    BY <2>1 DEF RoundFields, FreshRound
<1> HIDE DEF rd
<1>3. /\ DOMAIN u = Tables /\ u.feed = st.feed /\ u.disputes = st.disputes /\ u.slotlog = st.slotlog
      /\ u.rounds = [k \in DOMAIN st.rounds \cup {id} |-> IF k = id THEN rd ELSE st.rounds[k]]
  BY DEF PutRound, OnRecord, Framed, Tables
<1> HIDE DEF u
<1>4. /\ DOMAIN t = Tables /\ t.rounds = u.rounds /\ t.disputes = u.disputes /\ t.slotlog = u.slotlog
      /\ t.feed = [u.feed EXCEPT !.haveLast = TRUE, !.lastFinalized = id]
  BY <1>3 DEF FeedSetCursor, Tables
<1> HIDE DEF t
<1>5. /\ DOMAIN t.feed = FeedFields
      /\ t.feed.haveLast = TRUE /\ t.feed.lastFinalized = id
      /\ t.feed.reopened = st.feed.reopened /\ t.feed.oldestRound = st.feed.oldestRound
      /\ t.feed.finalCursor = st.feed.finalCursor /\ t.feed.startAt = st.feed.startAt
      /\ t.feed.openDisputes = st.feed.openDisputes /\ t.feed.status = st.feed.status
  BY <1>3, <1>4 DEF OnRecord, Framed, FeedFields, NoFeed
<1>6. /\ t.disputes = st.disputes /\ t.slotlog = st.slotlog
      /\ DOMAIN t.rounds = DOMAIN st.rounds \cup {id} /\ t.rounds[id] = rd
      /\ \A k \in DOMAIN st.rounds \ {id} : t.rounds[k] = st.rounds[k]
  BY <1>3, <1>4
<1>7. Running(t) = Running(st)
  BY <1>6 DEF Running
<1>8. id >= st.feed.oldestRound /\ ~(st.feed.haveLast /\ id <= st.feed.lastFinalized)
  BY NextIsPastOldest DEF OnRecord
<1>9. \A d \in Running(st) : st.disputes[d].round # id
  BY <1>8, SettledWhereDisputed
<1>10. Framed(t) /\ Cursors(t.feed)
  BY <1>4, <1>5, <1>8 DEF Framed, OnRecord, Cursors, NextRound
<1>11. RoundsSound(t)
  <2>1. \A k \in DOMAIN st.rounds : k <= id /\ k # id <=> st.feed.haveLast /\ k <= st.feed.lastFinalized
    BY DEF NextRound, OnRecord, Cursors, RoundsSound
  <2>2. \A k \in DOMAIN t.rounds :
          /\ DOMAIN t.rounds[k] = RoundFields
          /\ k >= t.feed.oldestRound
          /\ t.rounds[k].status = "open" <=> ~(t.feed.haveLast /\ k <= t.feed.lastFinalized)
          /\ t.rounds[k].tier = "disputed" =>
               t.rounds[k].disputeID \in Running(t) /\ t.disputes[t.rounds[k].disputeID].round = k
    <3> SUFFICES ASSUME NEW k \in DOMAIN t.rounds
                 PROVE  /\ DOMAIN t.rounds[k] = RoundFields
                        /\ k >= t.feed.oldestRound
                        /\ t.rounds[k].status = "open" <=> ~(t.feed.haveLast /\ k <= t.feed.lastFinalized)
                        /\ t.rounds[k].tier = "disputed" =>
                             t.rounds[k].disputeID \in Running(t) /\ t.disputes[t.rounds[k].disputeID].round = k
      OBVIOUS
    <3>1. CASE k = id
      <4>1. DOMAIN t.rounds[k] = RoundFields /\ t.rounds[k].status # "open" /\ t.rounds[k].tier # "disputed"
        BY <1>2, <1>6, <3>1
      <4>2. k >= t.feed.oldestRound /\ k <= t.feed.lastFinalized /\ t.feed.haveLast
        BY ONLY id \in Nat, <1>5, <1>8, <3>1
      <4> QED
        BY ONLY <4>1, <4>2
    <3>2. CASE k # id
      BY <1>5, <1>6, <1>7, <2>1, <3>2 DEF OnRecord, RoundsSound
    <3> QED
      BY <3>1, <3>2
  <2>3. (t.feed.haveLast /\ ~t.feed.reopened) => t.feed.oldestRound .. t.feed.lastFinalized \subseteq DOMAIN t.rounds
    BY <1>5, <1>6 DEF NextRound, OnRecord, Cursors, RoundsSound
  <2>4. DOMAIN t.rounds \subseteq Nat /\ (~Recurs => DOMAIN t.rounds \subseteq {0})
    BY <1>6 DEF OnRecord, RoundsSound
  <2> QED
    BY <2>2, <2>3, <2>4 DEF RoundsSound
<1>12. DisputesSound(t)
  <2>1. DisputesSound(st)
    BY DEF OnRecord
  <2>2. \A d \in Running(st) :
          /\ st.disputes[d].round \in DOMAIN t.rounds
          /\ t.rounds[st.disputes[d].round] = st.rounds[st.disputes[d].round]
    <3>1. \A d \in Running(st) : st.disputes[d].round \in DOMAIN st.rounds
      BY ONLY <2>1 DEF DisputesSound
    <3> QED
      BY ONLY <1>6, <1>9, <3>1
  <2> QED
    BY ONLY <1>5, <1>6, <2>1, <2>2, DisputesKept
<1>13. OnRecord(t)
  BY <1>5, <1>6, <1>7, <1>10, <1>11, <1>12 DEF OnRecord, LogSound
<1> QED
  BY <1>1, <1>13

\* id is the number of the next round.
IsNextOf(st, id) ==
  id \in Nat /\ id = NextRound(st.feed.haveLast, st.feed.lastFinalized) /\ (~Recurs => id = 0)

LEMMA NextRoundKept ==
  ASSUME NEW st, NEW t, NEW id, SameRounds(t, st), IsNextOf(st, id)
  PROVE  IsNextOf(t, id)
BY DEF SameRounds, IsNextOf

LEMMA NextKept ==
  ASSUME NEW st, NEW t, NEW id, SameRecord(t, st), IsNextOf(st, id)
  PROVE  IsNextOf(t, id)
BY NextRoundKept, RoundsOfRecord

LEMMA StreakLeaves ==
  ASSUME NEW st, NEW n, Framed(st)
  PROVE  SameRecord([st EXCEPT !.feed.emptyStreak = n], st)
BY DEF SameRecord, SameRounds, SameServed, Framed, Tables, FeedFields, NoFeed

LEMMA ClosedKeepsRecord ==
  ASSUME NEW st, NEW id, NEW agg, NEW tier, OnRecord(st), IsNextOf(st, id), tier # "disputed"
  PROVE  OnRecord(Closed(st, id, agg, tier))
<1> DEFINE empty == FeedSetCursor(RoundFinalise(st, id, "empty", tier, agg.value), id)
           full == FeedSetCursor(RoundFinalise(st, id, "aggregated", tier, agg.value), id)
           served == FeedSetValue(full, id, agg.value, tier)
<1>1. OnRecord(empty) /\ OnRecord(full)
  BY NextRoundSettled DEF IsNextOf
<1> HIDE DEF empty, full
<1>2. OnRecord(EmptyClosed(empty))
  BY <1>1, EmptyClosedLeaves, RecordKept, OnRecordFramed
<1>3. OnRecord(served)
  BY <1>1, FeedSetValueLeaves, RoundsKept, OnRecordFramed
<1> HIDE DEF served
<1>4. OnRecord([served EXCEPT !.feed.emptyStreak = 0])
  BY <1>3, StreakLeaves, RecordKept, OnRecordFramed
<1> QED
  BY <1>2, <1>4 DEF Closed, empty, served, full

LEMMA SettledKeepsRecord ==
  ASSUME NEW st, NEW id, NEW agg, NEW tier, OnRecord(st), IsNextOf(st, id), tier # "disputed", now \in Nat
  PROVE  OnRecord(Settled(st, id, agg, tier))
<1> DEFINE paid == IF tier = "empty" THEN {} ELSE { ObligedHolder(st, s, id) : s \in agg.eligible }
           judged == Liveness(st, id, agg, st.feed.status = "active")
           payout == RoundPayout(judged, paid)
           closed == Closed(payout, id, agg, tier)
           status == FundingStatus(closed)
<1>1. Settled(st, id, agg, tier) = AfterEmpty(status)
  BY DEF Settled
<1>2. SameRecord(judged, st)
  BY LivenessLeaves, OnRecordFramed DEF IsNextOf
<1> HIDE DEF judged
<1>3. SameRecord(payout, judged)
  BY <1>2, RoundPayoutLeaves, FrameKept
<1> HIDE DEF payout, paid
<1>4. OnRecord(payout) /\ IsNextOf(payout, id)
  BY <1>2, <1>3, RecordChained, RecordKept, NextKept
<1>5. OnRecord(closed)
  BY <1>4, ClosedKeepsRecord
<1> HIDE DEF closed
<1>6. OnRecord(status)
  BY <1>5, FundingStatusLeaves, RecordKept, OnRecordFramed
<1> HIDE DEF status
<1> QED
  BY <1>1, <1>6, AfterEmptyLeaves, RecordKept, OnRecordFramed

LEMMA TierNotDisputed ==
  ASSUME NEW st, NEW agg, NEW obliged
  PROVE  TierOf(st, agg, obliged) # "disputed"
BY DEF TierOf, DecideTier

LEMMA FinaliseKeepsRecord ==
  ASSUME NEW st, NEW id, OnRecord(st), IsNextOf(st, id), now \in Nat
  PROVE  OnRecord(Finalise(st, id))
<1> DEFINE asked == GetRound(st, id).status = "open"
           checked == Require(st, asked)
           put == PutRound(checked, id, GetRound(st, id))
           agg == AggregateOf(put, id)
           promoted == Promoted(put, agg)
           tier == TierOf(promoted, agg, Cardinality(ObligedSlots(put, id)))
<1>1. Finalise(st, id) = Settled(promoted, id, agg, tier)
  BY DEF Finalise, FinaliseOnRecord, FinaliseAs
<1>2. SameRecord(checked, st)
  BY RequireLeaves, OnRecordFramed
<1> HIDE DEF asked, checked
<1>3. OnRecord(checked) /\ IsNextOf(checked, id) /\ GetRound(checked, id) = GetRound(st, id)
  BY <1>2, RecordKept, NextKept DEF SameRecord, SameRounds, GetRound
<1>4. DOMAIN GetRound(st, id) = RoundFields /\ GetRound(st, id).status = "open"
  <2>1. CASE id \in DOMAIN st.rounds
    <3>1. ~(st.feed.haveLast /\ id <= st.feed.lastFinalized)
      BY NextIsPastOldest DEF OnRecord, IsNextOf, Cursors, NextRound
    <3> QED
      BY <2>1, <3>1 DEF GetRound, OnRecord, RoundsSound
  <2>2. CASE id \notin DOMAIN st.rounds
    BY <2>2 DEF GetRound, FreshRound, RoundFields
  <2> QED
    BY <2>1, <2>2
<1>5. OnRecord(put) /\ IsNextOf(put, id)
  <2>1. id \in Nat /\ id >= NextRound(checked.feed.haveLast, checked.feed.lastFinalized) /\ (~Recurs => id = 0)
    BY <1>3 DEF IsNextOf
  <2>2. OnRecord(put)
    BY <1>3, <1>4, <2>1, OpenRoundPut
  <2>3. put.feed = checked.feed
    BY <1>3 DEF PutRound, OnRecord, Framed, Tables
  <2> QED
    BY <1>3, <2>2, <2>3 DEF IsNextOf
<1> HIDE DEF put, agg
<1>6. OnRecord(promoted) /\ IsNextOf(promoted, id)
  BY <1>5, PromotedLeaves, RoundsKept, NextRoundKept, OnRecordFramed
<1>7. tier # "disputed"
  BY TierNotDisputed
<1> HIDE DEF promoted, tier
<1> QED
  BY <1>1, <1>6, <1>7, SettledKeepsRecord

LEMMA SkipKeepsRecord ==
  ASSUME NEW st, NEW id, OnRecord(st), IsNextOf(st, id), now \in Nat
  PROVE  OnRecord(Skip(st, id))
<1> DEFINE closed == FeedSetCursor(RoundFinalise(st, id, "skipped", "", 0), id)
<1>1. OnRecord(closed)
  BY NextRoundSettled DEF IsNextOf
<1> HIDE DEF closed
<1>2. OnRecord(EmptyClosed(closed))
  BY <1>1, EmptyClosedLeaves, RecordKept, OnRecordFramed
<1>3. OnRecord(AfterEmpty(EmptyClosed(closed)))
  BY <1>2, AfterEmptyLeaves, RecordKept, OnRecordFramed
<1> QED
  BY <1>3 DEF Skip, closed

LEMMA OldestSet ==
  ASSUME NEW f, NEW next, DOMAIN f = FeedFields
  PROVE  LET t == [f EXCEPT !.oldestRound = next] IN
         /\ DOMAIN t = FeedFields /\ t.oldestRound = next
         /\ t.haveLast = f.haveLast /\ t.lastFinalized = f.lastFinalized
         /\ t.reopened = f.reopened /\ t.finalCursor = f.finalCursor /\ t.startAt = f.startAt
         /\ t.openDisputes = f.openDisputes /\ t.status = f.status
BY DEF FeedFields, NoFeed

\* Rounds up to next go: none that is kept.
LEMMA OldRoundsDropped ==
  ASSUME NEW st, NEW next \in Nat, OnRecord(st), st.feed.haveLast = TRUE,
         st.feed.oldestRound <= next, next <= st.feed.lastFinalized + 1,
         \A id \in st.feed.oldestRound .. (next - 1) : ~Kept(st, id)
  PROVE  OnRecord(DropRounds(st, next))
<1> DEFINE t == DropRounds(st, next)
           gone == st.feed.oldestRound .. (next - 1)
<1>1. /\ DOMAIN t = Tables /\ t.disputes = st.disputes /\ t.slotlog = st.slotlog
      /\ t.rounds = [id \in DOMAIN st.rounds \ gone |-> st.rounds[id]]
      /\ t.feed = [st.feed EXCEPT !.oldestRound = next]
  BY DEF DropRounds, OnRecord, Framed, Tables
<1> HIDE DEF t
<1>2. /\ DOMAIN t.feed = FeedFields /\ t.feed.oldestRound = next
      /\ t.feed.haveLast = st.feed.haveLast /\ t.feed.lastFinalized = st.feed.lastFinalized
      /\ t.feed.reopened = st.feed.reopened
      /\ t.feed.finalCursor = st.feed.finalCursor /\ t.feed.startAt = st.feed.startAt
      /\ t.feed.openDisputes = st.feed.openDisputes /\ t.feed.status = st.feed.status
  <2>1. t.feed = [st.feed EXCEPT !.oldestRound = next] /\ DOMAIN st.feed = FeedFields
    BY <1>1 DEF OnRecord, Framed
  <2> QED
    BY <2>1, OldestSet
<1>3. Running(t) = Running(st)
  BY <1>1 DEF Running
<1>4. \A d \in Running(st) : st.disputes[d].round \notin gone
  <2> SUFFICES ASSUME NEW d \in Running(st), st.disputes[d].round \in gone
               PROVE  FALSE
    OBVIOUS
  <2>1. st.disputes[d].round \in DOMAIN st.rounds /\ st.rounds[st.disputes[d].round].disputeID = d
    BY DEF OnRecord, DisputesSound
  <2>2. Unresolved(st, d)
    BY DEF Running, Unresolved
  <2>3. Kept(st, st.disputes[d].round)
    BY <2>1, <2>2 DEF Kept
  <2> QED
    BY <2>3
<1>5. Framed(t) /\ Cursors(t.feed)
  BY <1>1, <1>2 DEF Framed, OnRecord, Cursors, NextRound
<1>6. RoundsSound(t)
  <2>1. \A id \in DOMAIN t.rounds : id \in DOMAIN st.rounds /\ id \in Nat /\ id >= next /\ t.rounds[id] = st.rounds[id]
    BY <1>1 DEF OnRecord, RoundsSound, Cursors
  <2>2. (t.feed.haveLast /\ ~t.feed.reopened) => t.feed.oldestRound .. t.feed.lastFinalized \subseteq DOMAIN t.rounds
    BY <1>1, <1>2 DEF OnRecord, RoundsSound, Cursors
  <2>3. RoundsSound(st)
    BY DEF OnRecord
  <2>4. DOMAIN t.rounds \subseteq Nat /\ (~Recurs => DOMAIN t.rounds \subseteq {0})
    BY ONLY <1>1, <2>3 DEF RoundsSound
  <2>5. \A id \in DOMAIN t.rounds :
          /\ DOMAIN t.rounds[id] = RoundFields
          /\ t.rounds[id].status = "open" <=> ~(st.feed.haveLast /\ id <= st.feed.lastFinalized)
          /\ t.rounds[id].tier = "disputed" =>
               t.rounds[id].disputeID \in Running(st) /\ st.disputes[t.rounds[id].disputeID].round = id
    BY ONLY <2>1, <2>3 DEF RoundsSound
  <2>6. \A id \in DOMAIN t.rounds :
          /\ DOMAIN t.rounds[id] = RoundFields
          /\ id >= t.feed.oldestRound
          /\ t.rounds[id].status = "open" <=> ~(t.feed.haveLast /\ id <= t.feed.lastFinalized)
          /\ t.rounds[id].tier = "disputed" =>
               t.rounds[id].disputeID \in Running(t) /\ t.disputes[t.rounds[id].disputeID].round = id
    <3> SUFFICES ASSUME NEW id \in DOMAIN t.rounds
                 PROVE  /\ DOMAIN t.rounds[id] = RoundFields
                        /\ id >= t.feed.oldestRound
                        /\ t.rounds[id].status = "open" <=> ~(t.feed.haveLast /\ id <= t.feed.lastFinalized)
                        /\ t.rounds[id].tier = "disputed" =>
                             t.rounds[id].disputeID \in Running(t) /\ t.disputes[t.rounds[id].disputeID].round = id
      OBVIOUS
    <3>1. id >= t.feed.oldestRound
      BY ONLY <1>2, <2>1
    <3>2. t.feed.haveLast = st.feed.haveLast /\ t.feed.lastFinalized = st.feed.lastFinalized
      BY ONLY <1>2
    <3>3. t.disputes = st.disputes
      BY ONLY <1>1
    <3> QED
      BY ONLY <1>3, <2>5, <3>1, <3>2, <3>3
  <2> QED
    BY ONLY <2>2, <2>4, <2>6 DEF RoundsSound
<1>7. DisputesSound(t)
  <2>1. DisputesSound(st)
    BY DEF OnRecord
  <2>2. \A d \in Running(st) :
          /\ st.disputes[d].round \in DOMAIN t.rounds
          /\ t.rounds[st.disputes[d].round] = st.rounds[st.disputes[d].round]
    <3>1. \A d \in Running(st) : st.disputes[d].round \in DOMAIN st.rounds
      BY ONLY <2>1 DEF DisputesSound
    <3> QED
      BY ONLY <1>1, <1>4, <3>1
  <2> QED
    BY ONLY <1>1, <1>2, <2>1, <2>2, DisputesKept
<1>8. OnRecord(t)
  BY <1>1, <1>2, <1>3, <1>5, <1>6, <1>7 DEF OnRecord, LogSound
<1> QED
  BY <1>8 DEF t

LEMMA LeastOf ==
  ASSUME NEW S \in SUBSET Nat, S # {}
  PROVE  Min(S) \in S /\ \A y \in S : Min(S) <= y
<1> DEFINE below == OpToRel(<, Nat)
<1>1. \A y, x \in Nat : y < x => <<y, x>> \in below
  BY Zenon DEF OpToRel
<1>2. IsWellFoundedOn(below, Nat)
  BY NatLessThanWellFounded
<1> HIDE DEF below
<1>3. PICK x \in S : \A y \in S : ~ (<<y, x>> \in below)
  BY <1>2, WFMin
<1>4. ASSUME NEW y \in S
      PROVE  x <= y
  <2>1. x \in Nat /\ y \in Nat
    OBVIOUS
  <2>2. ~ (y < x)
    BY <1>1, <1>3, <2>1, ZenonT(60)
  <2> QED
    BY <2>1, <2>2
<1> QED
  BY <1>4 DEF Min

\* The prune walk stops at the first round kept.
LEMMA PruneStopsAtKept ==
  ASSUME NEW st, NEW end \in Nat, NEW most \in Nat, st.feed.oldestRound \in Nat
  PROVE  LET next == Smaller(PruneStop(st, end), st.feed.oldestRound + most)
             oldest == st.feed.oldestRound
         IN /\ next \in Nat /\ oldest <= next
            /\ next <= end \/ next = oldest
            /\ \A id \in oldest .. (next - 1) : ~Kept(st, id)
<1> DEFINE oldest == st.feed.oldestRound
           kept == { id \in oldest .. (end - 1) : Kept(st, id) }
           stop == PruneStop(st, end)
           next == Smaller(stop, oldest + most)
<1>1. stop = FirstOf(kept, oldest, end)
  BY DEF PruneStop
<1>2. stop \in Nat /\ oldest <= stop /\ (stop <= end \/ stop = oldest) /\ \A id \in oldest .. (stop - 1) : ~Kept(st, id)
  <2>1. CASE oldest >= end
    BY <1>1, <2>1 DEF FirstOf
  <2>2. CASE oldest < end /\ kept = {}
    <3>1. stop = end
      <4> HIDE DEF kept, stop
      <4> QED
        BY <1>1, <2>2 DEF FirstOf
    <3> QED
      BY <2>2, <3>1
  <2>3. CASE oldest < end /\ kept # {}
    <3>1. kept \in SUBSET Nat
      OBVIOUS
    <3>2. stop = Min(kept)
      <4> HIDE DEF kept, stop
      <4> QED
        BY <1>1, <2>3 DEF FirstOf
    <3>3. Min(kept) \in kept /\ \A y \in kept : Min(kept) <= y
      <4> HIDE DEF kept
      <4> QED
        BY <2>3, <3>1, LeastOf
    <3> QED
      BY <3>2, <3>3
  <2> QED
    BY <2>1, <2>2, <2>3
<1> HIDE DEF stop, kept
<1>3. next \in Nat /\ oldest <= next /\ next <= stop
  BY <1>2 DEF Smaller
<1>4. next <= end \/ next = oldest
  BY <1>2, <1>3
<1>5. \A id \in oldest .. (next - 1) : ~Kept(st, id)
  <2>1. oldest .. (next - 1) \subseteq oldest .. (stop - 1)
    BY <1>2, <1>3
  <2> QED
    BY <1>2, <2>1
<1> QED
  BY <1>3, <1>4, <1>5 DEF stop

LEMMA PrunedKeepsRecord ==
  ASSUME NEW st, NEW most \in Nat, OnRecord(st), st.feed.haveLast
  PROVE  OnRecord(Pruned(st, most))
<1> DEFINE end == PruneEnd(st.feed)
           next == Smaller(PruneStop(st, end), st.feed.oldestRound + most)
<1>1. /\ st.feed.lastFinalized \in Nat /\ st.feed.finalCursor \in Nat /\ st.feed.oldestRound \in Nat
      /\ st.feed.oldestRound <= st.feed.lastFinalized + 1
  BY DEF OnRecord, Cursors, NextRound
<1>2. end \in Nat /\ end <= st.feed.lastFinalized + 1
  BY <1>1 DEF PruneEnd, Smaller
<1> HIDE DEF end
<1>3. /\ next \in Nat /\ st.feed.oldestRound <= next
      /\ next <= end \/ next = st.feed.oldestRound
      /\ \A id \in st.feed.oldestRound .. (next - 1) : ~Kept(st, id)
  BY <1>1, <1>2, PruneStopsAtKept
<1> HIDE DEF next
<1>4. next <= st.feed.lastFinalized + 1
  BY <1>1, <1>2, <1>3
<1>5. OnRecord(DropRounds(st, next))
  BY <1>3, <1>4, OldRoundsDropped
<1> QED
  BY <1>5 DEF Pruned, next, end

-----------------------------------------------------------------------------
(* Disputes. *)

SameCursors(f, g) ==
  /\ f.haveLast = g.haveLast /\ f.lastFinalized = g.lastFinalized /\ f.oldestRound = g.oldestRound
  /\ f.reopened = g.reopened /\ f.finalCursor = g.finalCursor /\ f.startAt = g.startAt
  /\ f.status = g.status

\* t is st with rd as its round id, whatever it serves.
RoundWritten(t, st, id, rd) ==
  /\ Framed(t) /\ SameCursors(t.feed, st.feed) /\ t.feed.openDisputes = st.feed.openDisputes
  /\ t.disputes = st.disputes /\ t.slotlog = st.slotlog
  /\ t.rounds = [k \in DOMAIN st.rounds \cup {id} |-> IF k = id THEN rd ELSE st.rounds[k]]

LEMMA PutWrites ==
  ASSUME NEW st, NEW id, NEW rd, Framed(st)
  PROVE  RoundWritten(PutRound(st, id, rd), st, id, rd)
BY DEF PutRound, RoundWritten, SameCursors, Framed, Tables

LEMMA WrittenServed ==
  ASSUME NEW st, NEW t, NEW id, NEW rd, NEW f, RoundWritten(t, st, id, rd),
         DOMAIN f = FeedFields, SameCursors(f, t.feed), f.openDisputes = t.feed.openDisputes
  PROVE  RoundWritten([t EXCEPT !.feed = f], st, id, rd)
BY DEF RoundWritten, SameCursors, Framed, Tables

LEMMA RoundMarkDisputedWrites ==
  ASSUME NEW st, NEW id, NEW d, Framed(st)
  PROVE  RoundWritten(RoundMarkDisputed(st, id, d), st, id, [st.rounds[id] EXCEPT !.disputeID = d, !.tier = "disputed"])
<1> DEFINE rd == [st.rounds[id] EXCEPT !.disputeID = d, !.tier = "disputed"]
           s1 == PutRound(st, id, rd)
           t == [s1 EXCEPT !.feed.lastTier = "disputed"]
<1>1. RoundMarkDisputed(st, id, d) \in {s1, t}
  BY DEF RoundMarkDisputed
<1> HIDE DEF rd
<1>2. RoundWritten(s1, st, id, rd)
  BY PutWrites
<1> HIDE DEF s1
<1>3. DOMAIN s1 = Tables /\ DOMAIN s1.feed = FeedFields
  BY <1>2 DEF RoundWritten, Framed
<1> DEFINE f == [s1.feed EXCEPT !.lastTier = "disputed"]
<1>4. DOMAIN f = FeedFields /\ SameCursors(f, s1.feed) /\ f.openDisputes = s1.feed.openDisputes
  BY <1>3 DEF SameCursors, FeedFields, NoFeed
<1>5. t = [s1 EXCEPT !.feed = f]
  BY <1>3 DEF Tables
<1> HIDE DEF f, t
<1>6. RoundWritten(t, st, id, rd)
  BY <1>2, <1>4, <1>5, WrittenServed
<1> QED
  BY <1>1, <1>2, <1>6 DEF rd

LEMMA RoundOverturnWrites ==
  ASSUME NEW st, NEW id, NEW value, Framed(st)
  PROVE  RoundWritten(RoundOverturn(st, id, value), st, id,
                      [st.rounds[id] EXCEPT !.value = value, !.status = "aggregated", !.tier = "final"])
<1> DEFINE rd == [st.rounds[id] EXCEPT !.value = value, !.status = "aggregated", !.tier = "final"]
           s1 == PutRound(st, id, rd)
           s2 == [s1 EXCEPT !.feed.finalValue = value]
           serve(s) == [s EXCEPT !.feed.lastValue = value, !.feed.lastTier = "final"]
<1>1. RoundOverturn(st, id, value) \in {s1, s2, serve(s1), serve(s2)}
  BY DEF RoundOverturn
<1> HIDE DEF rd
<1>2. RoundWritten(s1, st, id, rd)
  BY PutWrites
<1> HIDE DEF s1
<1>3. ASSUME NEW s, RoundWritten(s, st, id, rd)
      PROVE  RoundWritten(serve(s), st, id, rd)
  <2>1. DOMAIN s = Tables /\ DOMAIN s.feed = FeedFields
    BY <1>3 DEF RoundWritten, Framed
  <2> DEFINE f == [s.feed EXCEPT !.lastValue = value, !.lastTier = "final"]
             t == serve(s)
  <2>2. DOMAIN f = FeedFields /\ SameCursors(f, s.feed) /\ f.openDisputes = s.feed.openDisputes
    BY <2>1 DEF SameCursors, FeedFields, NoFeed
  <2>3. t = [s EXCEPT !.feed = f]
    BY <2>1 DEF Tables
  <2> HIDE DEF f, t
  <2>4. RoundWritten(t, st, id, rd)
    BY <1>3, <2>2, <2>3, WrittenServed
  <2> QED
    BY <2>4 DEF t
<1>4. RoundWritten(s2, st, id, rd)
  <2>1. DOMAIN s1 = Tables /\ DOMAIN s1.feed = FeedFields
    BY <1>2 DEF RoundWritten, Framed
  <2> DEFINE f == [s1.feed EXCEPT !.finalValue = value]
             t == s2
  <2>2. DOMAIN f = FeedFields /\ SameCursors(f, s1.feed) /\ f.openDisputes = s1.feed.openDisputes
    BY <2>1 DEF SameCursors, FeedFields, NoFeed
  <2>3. t = [s1 EXCEPT !.feed = f]
    BY <2>1 DEF Tables
  <2> HIDE DEF f, t
  <2>4. RoundWritten(t, st, id, rd)
    BY <1>2, <2>2, <2>3, WrittenServed
  <2> QED
    BY <2>4 DEF t
<1>5. RoundWritten(serve(s1), st, id, rd) /\ RoundWritten(serve(s2), st, id, rd)
  <2> HIDE DEF serve, s2
  <2> QED
    BY <1>2, <1>3, <1>4
<1> HIDE DEF serve, s2
<1> QED
  BY <1>1, <1>2, <1>4, <1>5 DEF rd

LEMMA RoundVoidWrites ==
  ASSUME NEW st, NEW id, Framed(st)
  PROVE  RoundWritten(RoundVoid(st, id), st, id, [st.rounds[id] EXCEPT !.status = "void", !.tier = "void"])
<1> DEFINE rd == [st.rounds[id] EXCEPT !.status = "void", !.tier = "void"]
           s1 == PutRound(st, id, rd)
           t == [s1 EXCEPT !.feed.lastTier = "void"]
<1>1. RoundVoid(st, id) \in {s1, t}
  BY DEF RoundVoid
<1> HIDE DEF rd
<1>2. RoundWritten(s1, st, id, rd)
  BY PutWrites
<1> HIDE DEF s1
<1>3. DOMAIN s1 = Tables /\ DOMAIN s1.feed = FeedFields
  BY <1>2 DEF RoundWritten, Framed
<1> DEFINE f == [s1.feed EXCEPT !.lastTier = "void"]
<1>4. DOMAIN f = FeedFields /\ SameCursors(f, s1.feed) /\ f.openDisputes = s1.feed.openDisputes
  BY <1>3 DEF SameCursors, FeedFields, NoFeed
<1>5. t = [s1 EXCEPT !.feed = f]
  BY <1>3 DEF Tables
<1> HIDE DEF f, t
<1>6. RoundWritten(t, st, id, rd)
  BY <1>2, <1>4, <1>5, WrittenServed
<1> QED
  BY <1>1, <1>2, <1>6 DEF rd

LEMMA RoundRestartWindowWrites ==
  ASSUME NEW st, NEW id, NEW tier, Framed(st)
  PROVE  RoundWritten(RoundRestartWindow(st, id, tier), st, id,
                      [st.rounds[id] EXCEPT !.status = "aggregated", !.tier = tier, !.finalisedAt = now])
<1> DEFINE rd == [st.rounds[id] EXCEPT !.status = "aggregated", !.tier = tier, !.finalisedAt = now]
           s1 == PutRound(st, id, rd)
           t == [s1 EXCEPT !.feed.lastTier = tier, !.feed.lastFinalAt = now]
<1>1. RoundRestartWindow(st, id, tier) \in {s1, t}
  BY DEF RoundRestartWindow
<1> HIDE DEF rd
<1>2. RoundWritten(s1, st, id, rd)
  BY PutWrites
<1> HIDE DEF s1
<1>3. DOMAIN s1 = Tables /\ DOMAIN s1.feed = FeedFields
  BY <1>2 DEF RoundWritten, Framed
<1> DEFINE f == [s1.feed EXCEPT !.lastTier = tier, !.lastFinalAt = now]
<1>4. DOMAIN f = FeedFields /\ SameCursors(f, s1.feed) /\ f.openDisputes = s1.feed.openDisputes
  BY <1>3 DEF SameCursors, FeedFields, NoFeed
<1>5. t = [s1 EXCEPT !.feed = f]
  BY <1>3 DEF Tables
<1> HIDE DEF f, t
<1>6. RoundWritten(t, st, id, rd)
  BY <1>2, <1>4, <1>5, WrittenServed
<1> QED
  BY <1>1, <1>2, <1>6 DEF rd

\* f serves what g does, with round id rewritten from old to rd: the served value is corrected
\* with its round, and the final value too if it is that round's.
ServedThrough(f, g, id, old, rd) ==
  /\ f.haveFinal = g.haveFinal /\ f.finalRound = g.finalRound /\ f.disputeWindow = g.disputeWindow
  /\ f.haveValue = g.haveValue /\ f.lastRound = g.lastRound
  /\ IF g.haveFinal /\ g.finalRound = id
     THEN \/ rd.status = "aggregated" /\ rd.tier = "final" /\ f.finalValue = rd.value
          \/ rd.value = old.value /\ f.finalValue = g.finalValue
     ELSE f.finalValue = g.finalValue
  /\ IF g.haveValue /\ g.lastRound = id
     THEN f.lastTier = rd.tier /\ (g.lastValue = old.value => f.lastValue = rd.value)
     ELSE f.lastTier = g.lastTier /\ f.lastValue = g.lastValue

LEMMA RoundMarkDisputedServes ==
  ASSUME NEW st, NEW id, NEW d, Framed(st), DOMAIN st.rounds[id] = RoundFields
  PROVE  ServedThrough(RoundMarkDisputed(st, id, d).feed, st.feed, id, st.rounds[id],
                       [st.rounds[id] EXCEPT !.disputeID = d, !.tier = "disputed"])
<1> DEFINE rd == [st.rounds[id] EXCEPT !.disputeID = d, !.tier = "disputed"]
           f == RoundMarkDisputed(st, id, d).feed
<1>1. rd.tier = "disputed" /\ rd.value = st.rounds[id].value
  BY DEF RoundFields, FreshRound
<1>2. f = IF Serves(st, id) THEN [st.feed EXCEPT !.lastTier = "disputed"] ELSE st.feed
  BY DEF RoundMarkDisputed, PutRound, Framed, Tables
<1> HIDE DEF rd, f
<1>3. ServedThrough(f, st.feed, id, st.rounds[id], rd)
  BY <1>1, <1>2 DEF ServedThrough, Serves, Framed, FeedFields, NoFeed
<1> QED
  BY <1>3 DEF rd, f

LEMMA RoundOverturnServes ==
  ASSUME NEW st, NEW id, NEW value, Framed(st), DOMAIN st.rounds[id] = RoundFields
  PROVE  ServedThrough(RoundOverturn(st, id, value).feed, st.feed, id, st.rounds[id],
                       [st.rounds[id] EXCEPT !.value = value, !.status = "aggregated", !.tier = "final"])
<1> DEFINE rd == [st.rounds[id] EXCEPT !.value = value, !.status = "aggregated", !.tier = "final"]
           f == RoundOverturn(st, id, value).feed
           g == IF st.feed.haveFinal /\ st.feed.finalRound = id THEN [st.feed EXCEPT !.finalValue = value] ELSE st.feed
<1>1. rd.tier = "final" /\ rd.value = value /\ rd.status = "aggregated"
  BY DEF RoundFields, FreshRound
<1>2. f = IF Serves(st, id) THEN [g EXCEPT !.lastValue = value, !.lastTier = "final"] ELSE g
  BY DEF RoundOverturn, PutRound, Framed, Tables
<1> HIDE DEF rd, f
<1>3. /\ DOMAIN g = FeedFields
      /\ g.haveFinal = st.feed.haveFinal /\ g.finalRound = st.feed.finalRound
      /\ g.disputeWindow = st.feed.disputeWindow
      /\ g.haveValue = st.feed.haveValue /\ g.lastRound = st.feed.lastRound
      /\ g.lastTier = st.feed.lastTier /\ g.lastValue = st.feed.lastValue
      /\ g.finalValue = IF st.feed.haveFinal /\ st.feed.finalRound = id THEN value ELSE st.feed.finalValue
  BY DEF Framed, FeedFields, NoFeed
<1> HIDE DEF g
<1>4. ServedThrough(f, st.feed, id, st.rounds[id], rd)
  BY <1>1, <1>2, <1>3 DEF ServedThrough, Serves, FeedFields, NoFeed
<1> QED
  BY <1>4 DEF rd, f

LEMMA RoundVoidServes ==
  ASSUME NEW st, NEW id, Framed(st), DOMAIN st.rounds[id] = RoundFields
  PROVE  ServedThrough(RoundVoid(st, id).feed, st.feed, id, st.rounds[id],
                       [st.rounds[id] EXCEPT !.status = "void", !.tier = "void"])
<1> DEFINE rd == [st.rounds[id] EXCEPT !.status = "void", !.tier = "void"]
           f == RoundVoid(st, id).feed
<1>1. rd.tier = "void" /\ rd.value = st.rounds[id].value
  BY DEF RoundFields, FreshRound
<1>2. f = IF Serves(st, id) THEN [st.feed EXCEPT !.lastTier = "void"] ELSE st.feed
  BY DEF RoundVoid, PutRound, Framed, Tables
<1> HIDE DEF rd, f
<1>3. ServedThrough(f, st.feed, id, st.rounds[id], rd)
  BY <1>1, <1>2 DEF ServedThrough, Serves, Framed, FeedFields, NoFeed
<1> QED
  BY <1>3 DEF rd, f

LEMMA RoundRestartWindowServes ==
  ASSUME NEW st, NEW id, NEW tier, Framed(st), DOMAIN st.rounds[id] = RoundFields
  PROVE  ServedThrough(RoundRestartWindow(st, id, tier).feed, st.feed, id, st.rounds[id],
                       [st.rounds[id] EXCEPT !.status = "aggregated", !.tier = tier, !.finalisedAt = now])
<1> DEFINE rd == [st.rounds[id] EXCEPT !.status = "aggregated", !.tier = tier, !.finalisedAt = now]
           f == RoundRestartWindow(st, id, tier).feed
<1>1. rd.tier = tier /\ rd.value = st.rounds[id].value
  BY DEF RoundFields, FreshRound
<1>2. f = IF Serves(st, id) THEN [st.feed EXCEPT !.lastTier = tier, !.lastFinalAt = now] ELSE st.feed
  BY DEF RoundRestartWindow, PutRound, Framed, Tables
<1> HIDE DEF rd, f
<1>3. ServedThrough(f, st.feed, id, st.rounds[id], rd)
  BY <1>1, <1>2 DEF ServedThrough, Serves, Framed, FeedFields, NoFeed
<1> QED
  BY <1>3 DEF rd, f

LEMMA ServedThroughSame ==
  ASSUME NEW f, NEW g, NEW e, NEW id, NEW old, NEW rd, ServedThrough(f, g, id, old, rd), SameServed(e, f)
  PROVE  ServedThrough(e, g, id, old, rd)
BY DEF ServedThrough, SameServed

\* A dispute opens: a round that is not disputed, and the new dispute, point at each other.
Opens(t, st, id, d) ==
  /\ id \in DOMAIN st.rounds
  /\ st.rounds[id].status = "aggregated" /\ ~Unresolved(st, st.rounds[id].disputeID)
  /\ now < st.rounds[id].finalisedAt + st.feed.disputeWindow
  /\ DOMAIN d = DisputeFields /\ d.status = "open" /\ d.round = id /\ d.priorTier = st.rounds[id].tier
  /\ Framed(t) /\ SameCursors(t.feed, st.feed) /\ t.feed.openDisputes = st.feed.openDisputes + 1
  /\ t.disputes = Append(st.disputes, d) /\ t.slotlog = st.slotlog
  /\ t.rounds = [k \in DOMAIN st.rounds \cup {id} |->
                   IF k = id THEN [st.rounds[id] EXCEPT !.disputeID = Len(st.disputes) + 1, !.tier = "disputed"]
                             ELSE st.rounds[k]]
  /\ ServedThrough(t.feed, st.feed, id, st.rounds[id],
                   [st.rounds[id] EXCEPT !.disputeID = Len(st.disputes) + 1, !.tier = "disputed"])

LEMMA DisputeOpened ==
  ASSUME NEW st, NEW t, NEW d, NEW id, OnRecord(st), st.feed.status # "pruned", Opens(t, st, id, d)
  PROVE  OnRecord(t)
<1> USE DEF Opens
<1> DEFINE n == Len(st.disputes) + 1
           rd == [st.rounds[id] EXCEPT !.disputeID = n, !.tier = "disputed"]
<1>1. /\ IsSequence(t.disputes)
      /\ DOMAIN t.disputes = DOMAIN st.disputes \cup {n} /\ n \notin DOMAIN st.disputes
      /\ t.disputes[n] = d
      /\ \A i \in DOMAIN st.disputes : t.disputes[i] = st.disputes[i]
  <2>1. IsSequence(st.disputes) /\ t.disputes = Append(st.disputes, d)
    BY DEF OnRecord, DisputesSound
  <2> QED
    BY ONLY <2>1, Appended DEF n
<1>2. DOMAIN rd = RoundFields /\ rd.disputeID = n /\ rd.tier = "disputed" /\ rd.status = "aggregated"
  <2>1. DOMAIN st.rounds[id] = RoundFields
    BY DEF OnRecord, RoundsSound
  <2> QED
    BY <2>1 DEF RoundFields, FreshRound
<1>3. /\ DOMAIN t.rounds = DOMAIN st.rounds /\ t.rounds[id] = rd
      /\ \A k \in DOMAIN st.rounds \ {id} : t.rounds[k] = st.rounds[k]
  OBVIOUS
<1> HIDE DEF n, rd
<1>4. Running(t) = Running(st) \cup {n} /\ n \notin Running(st)
  BY <1>1 DEF Running
<1>5. Cardinality(Running(t)) = Cardinality(Running(st)) + 1
  BY <1>4, RunningFinite, FS_AddElement
<1>6. \A i \in Running(st) : st.disputes[i].round # id
  <2>1. ASSUME NEW i \in Running(st), st.disputes[i].round = id
        PROVE  FALSE
    <3>1. DisputesSound(st)
      BY DEF OnRecord
    <3>2. st.rounds[id].disputeID = i
      BY ONLY <2>1, <3>1 DEF DisputesSound
    <3>3. Unresolved(st, i)
      BY ONLY <2>1 DEF Running, Unresolved
    <3> QED
      BY <3>2, <3>3
  <2> QED
    BY ONLY <2>1
<1>7. st.rounds[id].tier # "disputed"
  BY DEF OnRecord, RoundsSound, Running, Unresolved
<1>8. Cursors(t.feed)
  BY DEF OnRecord, Cursors, SameCursors
<1>9. RoundsSound(t)
  <2>1. ASSUME NEW k \in DOMAIN t.rounds
        PROVE  /\ DOMAIN t.rounds[k] = RoundFields
               /\ k >= t.feed.oldestRound
               /\ t.rounds[k].status = "open" <=> ~(t.feed.haveLast /\ k <= t.feed.lastFinalized)
               /\ t.rounds[k].tier = "disputed" =>
                    t.rounds[k].disputeID \in Running(t) /\ t.disputes[t.rounds[k].disputeID].round = k
    <3>1. /\ k >= st.feed.oldestRound
          /\ st.rounds[k].status = "open" <=> ~(st.feed.haveLast /\ k <= st.feed.lastFinalized)
      BY <1>3 DEF OnRecord, RoundsSound
    <3>2. CASE k = id
      BY <1>1, <1>2, <1>3, <1>4, <3>1, <3>2 DEF SameCursors
    <3>3. CASE k # id
      <4>1. /\ DOMAIN st.rounds[k] = RoundFields /\ t.rounds[k] = st.rounds[k]
            /\ st.rounds[k].tier = "disputed" =>
                 st.rounds[k].disputeID \in Running(st) /\ st.disputes[st.rounds[k].disputeID].round = k
        BY <1>3, <3>3 DEF OnRecord, RoundsSound
      <4>2. \A i \in Running(st) : i \in Running(t) /\ t.disputes[i] = st.disputes[i]
        BY <1>1, <1>4 DEF Running
      <4>3. t.rounds[k].tier = "disputed" =>
              t.rounds[k].disputeID \in Running(t) /\ t.disputes[t.rounds[k].disputeID].round = k
        <5> SUFFICES ASSUME t.rounds[k].tier = "disputed"
                     PROVE  t.rounds[k].disputeID \in Running(t) /\ t.disputes[t.rounds[k].disputeID].round = k
          OBVIOUS
        <5> DEFINE i == st.rounds[k].disputeID
        <5>1. t.rounds[k].disputeID = i /\ i \in Running(st) /\ st.disputes[i].round = k
          BY ONLY <4>1, t.rounds[k].tier = "disputed"
        <5>2. i \in Running(t) /\ t.disputes[i] = st.disputes[i]
          BY ONLY <4>2, <5>1
        <5> QED
          BY ONLY <5>1, <5>2
      <4> QED
        BY <3>1, <4>1, <4>3 DEF SameCursors
    <3> QED
      BY <3>2, <3>3
  <2>2. (t.feed.haveLast /\ ~t.feed.reopened) => t.feed.oldestRound .. t.feed.lastFinalized \subseteq DOMAIN t.rounds
    BY <1>3 DEF OnRecord, RoundsSound, SameCursors
  <2>3. DOMAIN t.rounds \subseteq Nat /\ (~Recurs => DOMAIN t.rounds \subseteq {0})
    BY <1>3 DEF OnRecord, RoundsSound
  <2> QED
    BY <2>1, <2>2, <2>3 DEF RoundsSound
<1>10. DisputesSound(t)
  <2>1. \A i \in DOMAIN t.disputes : DOMAIN t.disputes[i] = DisputeFields
    BY <1>1 DEF OnRecord, DisputesSound
  <2>2. t.feed.openDisputes = Cardinality(Running(t))
    BY <1>5 DEF OnRecord, DisputesSound
  <2>3. ASSUME NEW i \in Running(t)
        PROVE  /\ t.disputes[i].round \in DOMAIN t.rounds
               /\ t.rounds[t.disputes[i].round].disputeID = i
               /\ t.rounds[t.disputes[i].round].status = "aggregated"
               /\ t.rounds[t.disputes[i].round].tier = "disputed"
               /\ t.disputes[i].priorTier # "disputed"
    <3>1. CASE i = n
      BY <1>1, <1>2, <1>3, <1>7, <3>1
    <3>2. CASE i # n
      <4>1. i \in Running(st) /\ t.disputes[i] = st.disputes[i]
        BY <1>1, <1>4, <3>2 DEF Running
      <4> DEFINE k == st.disputes[i].round
      <4>2. /\ k \in DOMAIN st.rounds
            /\ st.rounds[k].disputeID = i
            /\ st.rounds[k].status = "aggregated"
            /\ st.rounds[k].tier = "disputed"
            /\ st.disputes[i].priorTier # "disputed"
        BY ONLY OnRecord(st), <4>1 DEF OnRecord, DisputesSound
      <4>3. k # id
        BY <1>6, <4>1
      <4>4. k \in DOMAIN t.rounds /\ t.rounds[k] = st.rounds[k]
        BY ONLY <1>3, <4>2, <4>3
      <4>5. t.disputes[i].round = k
        BY ONLY <4>1
      <4> QED
        BY ONLY <4>1, <4>2, <4>4, <4>5
    <3> QED
      BY <3>1, <3>2
  <2> QED
    BY <1>1, <2>1, <2>2, <2>3 DEF DisputesSound
<1> QED
  BY <1>8, <1>9, <1>10 DEF OnRecord, LogSound, SameCursors

\* A running dispute goes on: an appeal, a decision or a second ballot.
Amends(t, st, n, e) ==
  /\ n \in Running(st)
  /\ DOMAIN e = DisputeFields /\ e.status # "resolved"
  /\ e.round = st.disputes[n].round /\ e.priorTier = st.disputes[n].priorTier
  /\ e.proposedValue = st.disputes[n].proposedValue
  /\ Framed(t) /\ t.feed = st.feed
  /\ t.disputes = [st.disputes EXCEPT ![n] = e] /\ t.slotlog = st.slotlog /\ t.rounds = st.rounds

LEMMA DisputeAmended ==
  ASSUME NEW st, NEW t, NEW n, NEW e, OnRecord(st), Amends(t, st, n, e)
  PROVE  OnRecord(t)
<1> USE DEF Amends
<1>1. n \in DOMAIN st.disputes
  BY DEF Running
<1>2. /\ IsSequence(t.disputes) /\ DOMAIN t.disputes = DOMAIN st.disputes
      /\ t.disputes[n] = e
      /\ \A i \in DOMAIN st.disputes \ {n} : t.disputes[i] = st.disputes[i]
  <2>1. IsSequence(st.disputes)
    BY DEF OnRecord, DisputesSound
  <2> QED
    BY <1>1, <2>1, Amended
<1>3. Running(t) = Running(st)
  BY <1>1, <1>2 DEF Running
<1>4. Cursors(t.feed)
  BY DEF OnRecord, Cursors, SameCursors
<1>5. RoundsSound(t)
  <2>1. RoundsSound(st) /\ t.rounds = st.rounds /\ t.feed = st.feed
    BY DEF OnRecord
  <2>2. \A i \in Running(st) : t.disputes[i].round = st.disputes[i].round
    BY <1>2 DEF Running
  <2> QED
    BY ONLY <1>3, <2>1, <2>2 DEF RoundsSound
<1>6. DisputesSound(t)
  <2>1. \A i \in DOMAIN t.disputes : DOMAIN t.disputes[i] = DisputeFields
    BY <1>2 DEF OnRecord, DisputesSound
  <2>2. \A i \in Running(t) : t.disputes[i].round = st.disputes[i].round /\ t.disputes[i].priorTier = st.disputes[i].priorTier
    BY <1>2 DEF Running
  <2>3. t.rounds = st.rounds /\ t.feed = st.feed
    OBVIOUS
  <2>4. DisputesSound(st)
    BY DEF OnRecord
  <2>5. \A i \in Running(st) :
          /\ st.disputes[i].round \in DOMAIN st.rounds
          /\ st.rounds[st.disputes[i].round].disputeID = i
          /\ st.rounds[st.disputes[i].round].status = "aggregated"
          /\ st.rounds[st.disputes[i].round].tier = "disputed"
          /\ st.disputes[i].priorTier # "disputed"
    BY ONLY <2>4 DEF DisputesSound
  <2>6. \A i \in Running(t) :
          /\ t.disputes[i].round \in DOMAIN t.rounds
          /\ t.rounds[t.disputes[i].round].disputeID = i
          /\ t.rounds[t.disputes[i].round].status = "aggregated"
          /\ t.rounds[t.disputes[i].round].tier = "disputed"
          /\ t.disputes[i].priorTier # "disputed"
    <3> SUFFICES ASSUME NEW i \in Running(t)
                 PROVE  /\ t.disputes[i].round \in DOMAIN t.rounds
                        /\ t.rounds[t.disputes[i].round].disputeID = i
                        /\ t.rounds[t.disputes[i].round].status = "aggregated"
                        /\ t.rounds[t.disputes[i].round].tier = "disputed"
                        /\ t.disputes[i].priorTier # "disputed"
      OBVIOUS
    <3>1. i \in Running(st)
      BY ONLY <1>3
    <3>2. t.disputes[i].round = st.disputes[i].round /\ t.disputes[i].priorTier = st.disputes[i].priorTier
      BY ONLY <2>2
    <3> QED
      BY ONLY <2>3, <2>5, <3>1, <3>2
  <2>7. t.feed.openDisputes = Cardinality(Running(t))
    BY ONLY <1>3, <2>3, <2>4 DEF DisputesSound
  <2> QED
    BY ONLY <1>2, <2>1, <2>6, <2>7 DEF DisputesSound
<1> QED
  BY <1>3, <1>4, <1>5, <1>6 DEF OnRecord, LogSound, SameCursors

\* What any outcome of the dispute d makes of its round old: it is settled and no longer disputed.
Ruled(rd, old, d) ==
  /\ DOMAIN rd = RoundFields
  /\ rd.status \in {"aggregated", "void"} /\ (rd.status = "void" => rd.tier = "void")
  /\ rd.tier # "disputed"
  /\ rd.disputeID = old.disputeID /\ rd.subs = old.subs
  /\ rd.finalisedAt \in {old.finalisedAt, now} /\ rd.value \in {old.value, d.proposedValue}

\* A dispute ends: its round is decided and no longer disputed.
Ends(t, st, n, e, rd) ==
  /\ n \in Running(st)
  /\ DOMAIN e = DisputeFields /\ e.status = "resolved"
  /\ e.round = st.disputes[n].round /\ e.proposedValue = st.disputes[n].proposedValue
  /\ Ruled(rd, st.rounds[st.disputes[n].round], st.disputes[n])
  /\ Framed(t) /\ SameCursors(t.feed, st.feed) /\ t.feed.openDisputes = st.feed.openDisputes - 1
  /\ t.disputes = [st.disputes EXCEPT ![n] = e] /\ t.slotlog = st.slotlog
  /\ t.rounds = [k \in DOMAIN st.rounds \cup {st.disputes[n].round} |->
                   IF k = st.disputes[n].round THEN rd ELSE st.rounds[k]]
  /\ ServedThrough(t.feed, st.feed, st.disputes[n].round, st.rounds[st.disputes[n].round], rd)

LEMMA DisputeEnded ==
  ASSUME NEW st, NEW t, NEW n, NEW e, NEW rd, OnRecord(st), Ends(t, st, n, e, rd)
  PROVE  OnRecord(t)
<1>1. DOMAIN rd = RoundFields /\ rd.status # "open" /\ rd.tier # "disputed"
  BY DEF Ends, Ruled
<1> USE <1>1 DEF Ends
<1> DEFINE id == st.disputes[n].round
<1>2. n \in DOMAIN st.disputes
  BY DEF Running
<1>3. /\ IsSequence(t.disputes) /\ DOMAIN t.disputes = DOMAIN st.disputes
      /\ t.disputes[n] = e
      /\ \A i \in DOMAIN st.disputes \ {n} : t.disputes[i] = st.disputes[i]
  <2>1. IsSequence(st.disputes)
    BY DEF OnRecord, DisputesSound
  <2> DEFINE ds == st.disputes
             u == [ds EXCEPT ![n] = e]
  <2>2. IsSequence(u) /\ DOMAIN u = DOMAIN ds /\ u[n] = e /\ \A i \in DOMAIN ds \ {n} : u[i] = ds[i]
    <3> HIDE DEF ds
    <3>1. IsSequence(ds) /\ n \in DOMAIN ds
      BY <1>2, <2>1 DEF ds
    <3> QED
      BY ONLY <3>1, Amended DEF u
  <2>3. t.disputes = u
    OBVIOUS
  <2> HIDE DEF u
  <2> QED
    BY <2>2, <2>3
<1>4. id \in DOMAIN st.rounds /\ st.rounds[id].disputeID = n /\ st.rounds[id].status = "aggregated"
  <2>1. DisputesSound(st) /\ n \in Running(st)
    BY DEF OnRecord
  <2> QED
    BY ONLY <2>1 DEF DisputesSound
<1>5. /\ DOMAIN t.rounds = DOMAIN st.rounds /\ t.rounds[id] = rd
      /\ \A k \in DOMAIN st.rounds \ {id} : t.rounds[k] = st.rounds[k]
  BY <1>4
<1> HIDE DEF id
<1>6. Running(t) = Running(st) \ {n}
  BY <1>2, <1>3 DEF Running
<1>7. Cardinality(Running(t)) = Cardinality(Running(st)) - 1
  BY <1>6, RunningFinite, FS_RemoveElement
<1>8. \A k \in DOMAIN st.rounds \ {id} : st.rounds[k].tier = "disputed" => st.rounds[k].disputeID \in Running(st) \ {n}
  <2>1. ASSUME NEW k \in DOMAIN st.rounds \ {id}, st.rounds[k].tier = "disputed", st.rounds[k].disputeID = n
        PROVE  FALSE
    <3>1. st.disputes[n].round = k
      BY <2>1 DEF OnRecord, RoundsSound
    <3> QED
      BY <2>1, <3>1 DEF id
  <2> QED
    BY <2>1 DEF OnRecord, RoundsSound
<1>9. \A i \in Running(t) : st.disputes[i].round # id
  <2>1. DisputesSound(st)
    BY DEF OnRecord
  <2> QED
    BY ONLY <1>4, <1>6, <2>1 DEF DisputesSound
<1>10. Cursors(t.feed)
  BY DEF OnRecord, Cursors, SameCursors
<1>11. RoundsSound(t)
  <2>1. ASSUME NEW k \in DOMAIN t.rounds
        PROVE  /\ DOMAIN t.rounds[k] = RoundFields
               /\ k >= t.feed.oldestRound
               /\ t.rounds[k].status = "open" <=> ~(t.feed.haveLast /\ k <= t.feed.lastFinalized)
               /\ t.rounds[k].tier = "disputed" =>
                    t.rounds[k].disputeID \in Running(t) /\ t.disputes[t.rounds[k].disputeID].round = k
    <3>1. /\ k >= st.feed.oldestRound
          /\ st.rounds[k].status = "open" <=> ~(st.feed.haveLast /\ k <= st.feed.lastFinalized)
      BY <1>5 DEF OnRecord, RoundsSound
    <3>2. CASE k = id
      BY <1>4, <1>5, <3>1, <3>2 DEF SameCursors
    <3>3. CASE k # id
      <4>1. /\ DOMAIN st.rounds[k] = RoundFields /\ t.rounds[k] = st.rounds[k]
            /\ st.rounds[k].tier = "disputed" =>
                 st.rounds[k].disputeID \in Running(st) /\ st.disputes[st.rounds[k].disputeID].round = k
        BY <1>5, <3>3 DEF OnRecord, RoundsSound
      <4>2. \A i \in Running(st) \ {n} : i \in Running(t) /\ t.disputes[i] = st.disputes[i]
        BY <1>3, <1>6 DEF Running
      <4>3. k \in DOMAIN st.rounds \ {id}
        BY <1>5, <3>3
      <4>4. t.rounds[k].tier = "disputed" =>
              t.rounds[k].disputeID \in Running(t) /\ t.disputes[t.rounds[k].disputeID].round = k
        <5> SUFFICES ASSUME t.rounds[k].tier = "disputed"
                     PROVE  t.rounds[k].disputeID \in Running(t) /\ t.disputes[t.rounds[k].disputeID].round = k
          OBVIOUS
        <5> DEFINE i == st.rounds[k].disputeID
        <5>1. t.rounds[k].disputeID = i /\ i \in Running(st) \ {n} /\ st.disputes[i].round = k
          BY ONLY <1>8, <4>1, <4>3, t.rounds[k].tier = "disputed"
        <5>2. i \in Running(t) /\ t.disputes[i] = st.disputes[i]
          BY ONLY <4>2, <5>1
        <5> QED
          BY ONLY <5>1, <5>2
      <4>5. SameCursors(t.feed, st.feed)
        OBVIOUS
      <4> QED
        BY ONLY <3>1, <4>1, <4>4, <4>5 DEF SameCursors
    <3> QED
      BY <3>2, <3>3
  <2>2. (t.feed.haveLast /\ ~t.feed.reopened) => t.feed.oldestRound .. t.feed.lastFinalized \subseteq DOMAIN t.rounds
    BY <1>5 DEF OnRecord, RoundsSound, SameCursors
  <2>3. DOMAIN t.rounds \subseteq Nat /\ (~Recurs => DOMAIN t.rounds \subseteq {0})
    BY <1>5 DEF OnRecord, RoundsSound
  <2> QED
    BY <2>1, <2>2, <2>3 DEF RoundsSound
<1>12. DisputesSound(t)
  <2>1. \A i \in DOMAIN t.disputes : DOMAIN t.disputes[i] = DisputeFields
    BY <1>3 DEF OnRecord, DisputesSound
  <2>2. t.feed.openDisputes = Cardinality(Running(t))
    BY <1>7 DEF OnRecord, DisputesSound
  <2>3. ASSUME NEW i \in Running(t)
        PROVE  /\ t.disputes[i].round \in DOMAIN t.rounds
               /\ t.rounds[t.disputes[i].round].disputeID = i
               /\ t.rounds[t.disputes[i].round].status = "aggregated"
               /\ t.rounds[t.disputes[i].round].tier = "disputed"
               /\ t.disputes[i].priorTier # "disputed"
    <3>1. i \in Running(st) /\ t.disputes[i] = st.disputes[i]
      BY <1>3, <1>6 DEF Running
    <3>2. st.disputes[i].round \in DOMAIN st.rounds \ {id}
      BY <1>9, <3>1 DEF OnRecord, DisputesSound
    <3> DEFINE r == st.disputes[i].round
    <3>3. r \in DOMAIN t.rounds /\ t.rounds[r] = st.rounds[r]
      BY <1>5, <3>2
    <3>4. /\ st.rounds[r].disputeID = i /\ st.rounds[r].status = "aggregated" /\ st.rounds[r].tier = "disputed"
          /\ st.disputes[i].priorTier # "disputed"
      BY <3>1 DEF OnRecord, DisputesSound
    <3> QED
      BY <3>1, <3>3, <3>4
  <2> QED
    BY <1>3, <2>1, <2>2, <2>3 DEF DisputesSound
<1> QED
  BY <1>6, <1>10, <1>11, <1>12 DEF OnRecord, LogSound, SameCursors

\* u is s with the round of the dispute d ruled to be rd.
Rules(u, s, d, rd) ==
  /\ RoundWritten(u, s, d.round, rd)
  /\ Ruled(rd, s.rounds[d.round], d)
  /\ ServedThrough(u.feed, s.feed, d.round, s.rounds[d.round], rd)

\* t is st but for its coins, and with the round of the dispute d ruled.
RuledIn(t, st, d) == \E s, rd : SameRecord(s, st) /\ Rules(t, s, d, rd)

LEMMA UpholdRules ==
  ASSUME NEW st, NEW d, OnRecord(st), d.round \in DOMAIN st.rounds, d.priorTier # "disputed"
  PROVE  RuledIn(Uphold(st, d), st, d)
<1> DEFINE toProviders == MulBps(d.bond, Param.forfeitSplitWinnerBps)
           toVoters == MulBps(d.bond, Param.forfeitSplitVotersBps)
           pooled == BondToPool(st, toProviders)
           paid == FundVoters(pooled, toVoters)
           s == BondToFees(paid, d.bond - toProviders - toVoters)
           rd == [s.rounds[d.round] EXCEPT !.status = "aggregated", !.tier = d.priorTier, !.finalisedAt = now]
<1>1. Uphold(st, d) = RoundRestartWindow(s, d.round, d.priorTier)
  BY DEF Uphold
<1> HIDE DEF toProviders, toVoters
<1>2. SameRecord(s, st)
  BY BondToPoolLeaves, FundVotersLeaves, BondToFeesLeaves, RecordChained, FrameKept, OnRecordFramed
<1> HIDE DEF pooled, paid, s
<1>3. DOMAIN s.rounds[d.round] = RoundFields
  BY <1>2 DEF OnRecord, RoundsSound, SameRecord, SameRounds
<1>4. RoundWritten(Uphold(st, d), s, d.round, rd)
  BY <1>1, <1>2, FrameKept, RoundRestartWindowWrites
<1>5. Ruled(rd, s.rounds[d.round], d)
  BY <1>3 DEF Ruled, RoundFields, FreshRound
<1>6. ServedThrough(Uphold(st, d).feed, s.feed, d.round, s.rounds[d.round], rd)
  BY <1>3, <1>1, <1>2, FrameKept, RoundRestartWindowServes
<1> HIDE DEF rd
<1> QED
  BY <1>2, <1>4, <1>5, <1>6 DEF RuledIn, Rules

LEMMA OverturnRules ==
  ASSUME NEW st, NEW d, NEW tier, OnRecord(st), d.round \in DOMAIN st.rounds, now \in Nat
  PROVE  RuledIn(Overturn(st, d, tier), st, d)
<1> DEFINE slash == Slashes(st, Refuted(st, d), tier)
           carried == CarryOut(st, slash)
           routed == RouteTaken(carried, TakenBy(slash))
           s == BondRelease(routed, d.bond)
           rd == [s.rounds[d.round] EXCEPT !.value = d.proposedValue, !.status = "aggregated", !.tier = "final"]
<1>1. Overturn(st, d, tier) = RoundOverturn(s, d.round, d.proposedValue)
  BY DEF Overturn, OverturnWith
<1> HIDE DEF slash
<1>2. SameRecord(carried, st)
  BY CarryOutLeaves, OnRecordFramed
<1> HIDE DEF carried
<1>3. SameRecord(s, st)
  BY <1>2, RouteTakenLeaves, BondReleaseLeaves, RecordChained, FrameKept
<1> HIDE DEF routed, s
<1>4. DOMAIN s.rounds[d.round] = RoundFields
  BY <1>3 DEF OnRecord, RoundsSound, SameRecord, SameRounds
<1>5. RoundWritten(Overturn(st, d, tier), s, d.round, rd)
  BY <1>1, <1>3, FrameKept, RoundOverturnWrites
<1>6. Ruled(rd, s.rounds[d.round], d)
  BY <1>4 DEF Ruled, RoundFields, FreshRound
<1>7. ServedThrough(Overturn(st, d, tier).feed, s.feed, d.round, s.rounds[d.round], rd)
  BY <1>4, <1>1, <1>3, FrameKept, RoundOverturnServes
<1> HIDE DEF rd
<1> QED
  BY <1>3, <1>5, <1>6, <1>7 DEF RuledIn, Rules

LEMMA VoidRules ==
  ASSUME NEW st, NEW d, OnRecord(st), d.round \in DOMAIN st.rounds
  PROVE  RuledIn(Void(st, d), st, d)
<1> DEFINE s == ConsumeBond(st, d.bond, Param.voidConsumeBps)
           rd == [s.rounds[d.round] EXCEPT !.status = "void", !.tier = "void"]
<1>1. Void(st, d) = RoundVoid(s, d.round)
  BY DEF Void
<1>2. SameRecord(s, st)
  BY ConsumeBondLeaves, OnRecordFramed
<1> HIDE DEF s
<1>3. DOMAIN s.rounds[d.round] = RoundFields
  BY <1>2 DEF OnRecord, RoundsSound, SameRecord, SameRounds
<1>4. RoundWritten(Void(st, d), s, d.round, rd)
  BY <1>1, <1>2, FrameKept, RoundVoidWrites
<1>5. Ruled(rd, s.rounds[d.round], d)
  BY <1>3 DEF Ruled, RoundFields, FreshRound
<1>6. ServedThrough(Void(st, d).feed, s.feed, d.round, s.rounds[d.round], rd)
  BY <1>3, <1>1, <1>2, FrameKept, RoundVoidServes
<1> HIDE DEF rd
<1> QED
  BY <1>2, <1>4, <1>5, <1>6 DEF RuledIn, Rules

LEMMA ResolvedEnds ==
  ASSUME NEW st, NEW n \in Running(st), NEW outcome, NEW tier, NEW s, NEW u, NEW rd,
         OnRecord(st), SameRecord(s, st), Rules(u, s, st.disputes[n], rd)
  PROVE  \E e : Ends(Resolved(u, n, outcome, tier), s, n, e, rd)
<1> DEFINE d == st.disputes[n]
           e == [d EXCEPT !.status = "resolved", !.outcome = outcome, !.tierDecided = tier]
           t == Resolved(u, n, outcome, tier)
<1>1. OnRecord(s) /\ s.disputes = st.disputes /\ n \in Running(s) /\ n \in DOMAIN st.disputes
  BY RecordKept DEF SameRecord, SameRounds, Running
<1>2. DOMAIN d = DisputeFields
  BY <1>1 DEF OnRecord, DisputesSound
<1>3. /\ DOMAIN u = Tables /\ DOMAIN u.feed = FeedFields /\ u.disputes = st.disputes
      /\ u.slotlog = s.slotlog /\ SameCursors(u.feed, s.feed) /\ u.feed.openDisputes = s.feed.openDisputes
      /\ u.rounds = [k \in DOMAIN s.rounds \cup {s.disputes[n].round} |->
                       IF k = s.disputes[n].round THEN rd ELSE s.rounds[k]]
  BY <1>1 DEF Rules, RoundWritten, Framed
<1>4. /\ DOMAIN t = Tables /\ t.slotlog = u.slotlog /\ t.rounds = u.rounds
      /\ t.feed = [u.feed EXCEPT !.openDisputes = @ - 1]
  BY <1>3 DEF Resolved, Tables
<1>5. t.disputes = [st.disputes EXCEPT ![n] = e]
  BY <1>1, <1>2, <1>3 DEF Resolved, Tables, DisputeFields
<1>6. DOMAIN e = DisputeFields /\ e.status = "resolved" /\ e.round = d.round /\ e.proposedValue = d.proposedValue
  BY <1>2 DEF DisputeFields
<1> HIDE DEF t, e
<1>7. DOMAIN t.feed = FeedFields /\ SameCursors(t.feed, u.feed) /\ t.feed.openDisputes = u.feed.openDisputes - 1
      /\ SameServed(t.feed, u.feed)
  BY <1>3, <1>4 DEF SameCursors, SameServed, FeedFields, NoFeed
<1>8. Framed(t) /\ SameCursors(t.feed, s.feed) /\ t.feed.openDisputes = s.feed.openDisputes - 1
  BY <1>3, <1>4, <1>7 DEF SameCursors, Framed
<1>9. /\ Ruled(rd, s.rounds[d.round], d)
      /\ ServedThrough(u.feed, s.feed, d.round, s.rounds[d.round], rd)
  BY DEF Rules
<1>10. ServedThrough(t.feed, s.feed, d.round, s.rounds[d.round], rd)
  BY <1>7, <1>9, ServedThroughSame
<1>11. t.disputes = [s.disputes EXCEPT ![n] = e] /\ t.slotlog = s.slotlog /\ t.rounds = u.rounds
  BY <1>1, <1>3, <1>4, <1>5
<1>12. t.rounds = [k \in DOMAIN s.rounds \cup {s.disputes[n].round} |->
                     IF k = s.disputes[n].round THEN rd ELSE s.rounds[k]]
  BY <1>3, <1>11
<1>13. s.disputes[n] = d
  BY <1>1
<1> HIDE DEF d
<1>14. Ends(t, s, n, e, rd)
  BY <1>1, <1>6, <1>8, <1>9, <1>10, <1>11, <1>12, <1>13 DEF Ends
<1> QED
  BY <1>14 DEF t

\* An outcome that can be applied is one of three.
LEMMA OnlyKnownOutcomes ==
  ASSUME NEW st, NEW n, NEW outcome, NEW tier, OnRecord(st), Apply(st, n, outcome, tier).ok
  PROVE  outcome \in {"UPHOLD", "OVERTURN", "VOID"}
<1> DEFINE d == st.disputes[n]
           able == CanApply(st, d)
           asked == Require(st, able)
           settled == SettleAppealBond(asked, d, outcome)
           u == Decide(settled, d, outcome, tier)
<1>1. Apply(st, n, outcome, tier) = Resolved(u, n, outcome, tier)
  BY DEF Apply
<1> HIDE DEF d, able
<1>2. DOMAIN settled = Tables
  BY RequireLeaves, SettleAppealBondLeaves, FrameKept, OnRecordFramed DEF Framed
<1> HIDE DEF asked, settled
<1> SUFFICES ASSUME outcome \notin {"UPHOLD", "OVERTURN", "VOID"}
             PROVE  FALSE
  OBVIOUS
<1>3. u = Require(settled, FALSE)
  BY DEF Decide
<1>4. u.ok = FALSE /\ DOMAIN u = Tables
  BY <1>2, <1>3 DEF Require, Tables
<1> HIDE DEF u
<1>5. Resolved(u, n, outcome, tier).ok = FALSE
  BY <1>4 DEF Resolved, Tables
<1> QED
  BY <1>1, <1>5

LEMMA ApplyEnds ==
  ASSUME NEW st, NEW n \in Running(st), NEW outcome, NEW tier, OnRecord(st), now \in Nat,
         Apply(st, n, outcome, tier).ok
  PROVE  \E s, e, rd : SameRecord(s, st) /\ Ends(Apply(st, n, outcome, tier), s, n, e, rd)
<1> DEFINE d == st.disputes[n]
           able == CanApply(st, d)
           asked == Require(st, able)
           settled == SettleAppealBond(asked, d, outcome)
           u == Decide(settled, d, outcome, tier)
<1>1. Apply(st, n, outcome, tier) = Resolved(u, n, outcome, tier)
  BY DEF Apply
<1>2. d.round \in DOMAIN st.rounds /\ d.priorTier # "disputed"
  BY DEF OnRecord, DisputesSound
<1> HIDE DEF d, able
<1>3. SameRecord(settled, st)
  BY RequireLeaves, SettleAppealBondLeaves, RecordChained, FrameKept, OnRecordFramed
<1> HIDE DEF asked, settled
<1>4. OnRecord(settled) /\ d.round \in DOMAIN settled.rounds
  BY <1>2, <1>3, RecordKept DEF SameRecord, SameRounds
<1>5. outcome \in {"UPHOLD", "OVERTURN", "VOID"}
  BY OnlyKnownOutcomes
<1>6. RuledIn(u, settled, d)
  <2>1. CASE outcome = "UPHOLD"
    <3>1. u = Uphold(settled, d)
      BY <2>1 DEF Decide
    <3> QED
      BY <1>2, <1>4, <3>1, UpholdRules
  <2>2. CASE outcome = "OVERTURN"
    <3>1. u = Overturn(settled, d, tier)
      BY <2>2 DEF Decide
    <3> QED
      BY <1>4, <3>1, OverturnRules
  <2>3. CASE outcome = "VOID"
    <3>1. u = Void(settled, d)
      BY <2>3 DEF Decide
    <3> QED
      BY <1>4, <3>1, VoidRules
  <2> QED
    BY <1>5, <2>1, <2>2, <2>3
<1> HIDE DEF u
<1>7. PICK s, rd : SameRecord(s, settled) /\ Rules(u, s, d, rd)
  BY <1>6 DEF RuledIn
<1>8. SameRecord(s, st)
  BY <1>3, <1>7, RecordChained
<1> QED
  BY <1>1, <1>7, <1>8, ResolvedEnds DEF d

-----------------------------------------------------------------------------
(* A reopened feed, and one that is gone. *)

LEMMA ReopenedFields ==
  ASSUME NEW f, NEW at, DOMAIN f = FeedFields
  PROVE  LET g == [f EXCEPT !.startAt = at, !.reopened = TRUE, !.haveLast = FALSE, !.lastFinalized = 0,
                            !.haveValue = FALSE, !.lastTier = "", !.emptyStreak = 0] IN
         /\ DOMAIN g = FeedFields
         /\ g.startAt = at /\ g.reopened = TRUE /\ g.haveLast = FALSE /\ g.lastFinalized = 0
         /\ g.oldestRound = f.oldestRound /\ g.finalCursor = f.finalCursor
         /\ g.openDisputes = f.openDisputes /\ g.status = f.status
BY DEF FeedFields, NoFeed

LEMMA ReopenKeepsRecord ==
  ASSUME NEW st, NEW at \in Nat, OnRecord(st), Shaped(st), ~Recurs, 0 \in DOMAIN st.rounds,
         st.rounds[0].status \in {"void", "empty", "skipped"}
  PROVE  OnRecord(FeedResetForReopen(st, at))
<1> DEFINE t == FeedResetForReopen(st, at)
           f == [st.feed EXCEPT !.startAt = at, !.reopened = TRUE, !.haveLast = FALSE, !.lastFinalized = 0,
                                !.haveValue = FALSE, !.lastTier = "", !.emptyStreak = 0]
           seated == { s \in Slots : st.slots[s] # NoOne }
<1>1. /\ DOMAIN t = Tables /\ t.disputes = st.disputes /\ t.feed = f
      /\ t.rounds = [id \in DOMAIN st.rounds \ {0} |-> st.rounds[id]]
      /\ t.slotlog = { LogEntry(s, 0, st.slots[s]) : s \in seated }
  BY DEF FeedResetForReopen, Shaped, Tables
<1> HIDE DEF t
<1>2. /\ DOMAIN f = FeedFields
      /\ f.startAt = at /\ f.reopened = TRUE /\ f.haveLast = FALSE /\ f.lastFinalized = 0
      /\ f.oldestRound = st.feed.oldestRound /\ f.finalCursor = st.feed.finalCursor
      /\ f.openDisputes = st.feed.openDisputes /\ f.status = st.feed.status
  BY ReopenedFields DEF Shaped
<1> HIDE DEF f
<1>3. Running(st) = {}
  BY DEF OnRecord, DisputesSound, RoundsSound
<1>4. Running(t) = {}
  BY <1>1, <1>3 DEF Running
<1>5. DOMAIN t.rounds = {}
  BY <1>1 DEF OnRecord, RoundsSound
<1>6. Framed(t) /\ Cursors(t.feed)
  <2>1. f.oldestRound <= 0
    BY <1>2 DEF OnRecord, RoundsSound
  <2>2. st.feed.oldestRound \in Nat /\ st.feed.finalCursor \in Nat
    BY DEF OnRecord, Cursors
  <2>3. f.oldestRound <= NextRound(f.haveLast, f.lastFinalized)
    BY <1>2, <2>1 DEF NextRound
  <2> QED
    <3>1. Framed(t)
      BY <1>1, <1>2 DEF Framed
    <3>2. f.haveLast \in BOOLEAN /\ f.reopened \in BOOLEAN
      BY <1>2
    <3>3. f.lastFinalized \in Nat /\ f.oldestRound \in Nat /\ f.finalCursor \in Nat /\ f.startAt \in Nat
      BY <1>2, <2>2
    <3>4. Cursors(f)
      BY <2>3, <3>2, <3>3 DEF Cursors
    <3> QED
      BY <1>1, <3>1, <3>4
<1>7. \A e \in t.slotlog : Entry(e)
  <2>1. \A s \in seated : st.slots[s] \in Providers \cup {NoOne}
    BY DEF Shaped
  <2> QED
    BY <1>1, <2>1, LogEntryIsEntry
<1>8. RoundsSound(t)
  BY <1>1, <1>2, <1>5 DEF RoundsSound
<1>9. DisputesSound(t)
  BY <1>1, <1>2, <1>3, <1>4 DEF OnRecord, DisputesSound
<1> QED
  BY <1>4, <1>6, <1>7, <1>8, <1>9 DEF OnRecord, LogSound, t

\* When the rounds are gone but for the last, which promotion may hold, no dispute runs.
LEMMA NothingRuns ==
  ASSUME NEW st, OnRecord(st),
         (st.feed.haveLast /\ st.feed.oldestRound <= st.feed.lastFinalized) =>
           (st.feed.oldestRound \notin DOMAIN st.rounds /\ st.feed.oldestRound >= st.feed.lastFinalized)
  PROVE  Running(st) = {}
<1> SUFFICES ASSUME NEW d \in Running(st)
             PROVE  FALSE
  OBVIOUS
<1> DEFINE r == st.disputes[d].round
<1>1. r \in DOMAIN st.rounds /\ st.rounds[r].status = "aggregated"
  BY DEF OnRecord, DisputesSound
<1>2. r \in Nat /\ r >= st.feed.oldestRound /\ st.feed.haveLast /\ r <= st.feed.lastFinalized
  BY <1>1 DEF OnRecord, RoundsSound
<1>3. st.feed.oldestRound \in Nat /\ st.feed.lastFinalized \in Nat
  BY DEF OnRecord, Cursors
<1> HIDE DEF r
<1>4. r = st.feed.oldestRound
  BY <1>2, <1>3
<1> QED
  BY <1>1, <1>2, <1>3, <1>4

LEMMA GoneKeepsRecord ==
  ASSUME NEW st, OnRecord(st), Running(st) = {}
  PROVE  OnRecord([st EXCEPT !.feed.status = "pruned", !.slotlog = {}])
<1> DEFINE t == [st EXCEPT !.feed.status = "pruned", !.slotlog = {}]
           f == [st.feed EXCEPT !.status = "pruned"]
<1>1. DOMAIN st = Tables /\ DOMAIN st.feed = FeedFields
  BY DEF OnRecord, Framed
<1>2. /\ DOMAIN t = Tables /\ t.disputes = st.disputes /\ t.rounds = st.rounds /\ t.slotlog = {} /\ t.feed = f
  BY <1>1 DEF Tables
<1> HIDE DEF t
<1>3. /\ DOMAIN f = FeedFields
      /\ f.haveLast = st.feed.haveLast /\ f.lastFinalized = st.feed.lastFinalized
      /\ f.oldestRound = st.feed.oldestRound /\ f.reopened = st.feed.reopened
      /\ f.finalCursor = st.feed.finalCursor /\ f.startAt = st.feed.startAt
      /\ f.openDisputes = st.feed.openDisputes
  BY <1>1 DEF FeedFields, NoFeed
<1> HIDE DEF f
<1>4. Running(t) = Running(st)
  BY <1>2 DEF Running
<1>5. Framed(t) /\ Cursors(t.feed)
  BY <1>2, <1>3 DEF OnRecord, Framed, Cursors
<1>6. RoundsSound(t) /\ DisputesSound(t)
  BY <1>2, <1>3, <1>4 DEF OnRecord, RoundsSound, DisputesSound
<1>7. LogSound(t)
  BY <1>2, <1>4 DEF LogSound
<1> QED
  BY <1>5, <1>6, <1>7 DEF OnRecord, t

-----------------------------------------------------------------------------
(* A feed goes only when it is pruned. *)

\* The feed of t is not gone, unless that of st is.
StillThere(t, st) ==
  /\ Framed(t)
  /\ st.feed.startAt \in Nat => t.feed.startAt \in Nat
  /\ t.feed.status = "pruned" => st.feed.status = "pruned"

LEMMA RoundsStillThere ==
  ASSUME NEW st, NEW t, SameRounds(t, st)
  PROVE  StillThere(t, st) /\ Framed(t)
BY DEF SameRounds, StillThere

LEMMA SameStillThere ==
  ASSUME NEW st, NEW t, SameRecord(t, st)
  PROVE  StillThere(t, st) /\ Framed(t)
BY RoundsStillThere, RoundsOfRecord

LEMMA StillThereChained ==
  ASSUME NEW st, NEW t, NEW u, StillThere(t, st), StillThere(u, t)
  PROVE  StillThere(u, st)
BY DEF StillThere

LEMMA RoundSettledStillThere ==
  ASSUME NEW st, NEW id, NEW status, NEW tier, NEW value, Framed(st)
  PROVE  StillThere(FeedSetCursor(RoundFinalise(st, id, status, tier, value), id), st)
<1> DEFINE t == RoundFinalise(st, id, status, tier, value)
<1>1. DOMAIN t = Tables /\ t.feed = st.feed
  BY DEF RoundFinalise, PutRound, Framed, Tables
<1> DEFINE u == FeedSetCursor(t, id)
<1>2. DOMAIN u = Tables /\ u.feed = [st.feed EXCEPT !.haveLast = TRUE, !.lastFinalized = id]
  BY <1>1 DEF FeedSetCursor, Tables
<1> HIDE DEF t, u
<1>3. DOMAIN u.feed = FeedFields /\ u.feed.startAt = st.feed.startAt /\ u.feed.status = st.feed.status
  BY <1>2 DEF Framed, FeedFields, NoFeed
<1>4. StillThere(u, st)
  BY <1>2, <1>3 DEF StillThere, Framed
<1> QED
  BY <1>4 DEF u, t

LEMMA ClosedStillThere ==
  ASSUME NEW st, NEW id, NEW agg, NEW tier, Framed(st)
  PROVE  StillThere(Closed(st, id, agg, tier), st)
<1> DEFINE empty == FeedSetCursor(RoundFinalise(st, id, "empty", tier, agg.value), id)
           full == FeedSetCursor(RoundFinalise(st, id, "aggregated", tier, agg.value), id)
           served == FeedSetValue(full, id, agg.value, tier)
<1>1. StillThere(empty, st) /\ StillThere(full, st) /\ Framed(empty) /\ Framed(full)
  BY RoundSettledStillThere DEF StillThere
<1> HIDE DEF empty, full
<1>2. StillThere(EmptyClosed(empty), st)
  BY <1>1, EmptyClosedLeaves, SameStillThere, StillThereChained
<1>3. StillThere(served, st) /\ Framed(served)
  BY <1>1, FeedSetValueLeaves, RoundsStillThere, StillThereChained
<1> HIDE DEF served
<1>4. StillThere([served EXCEPT !.feed.emptyStreak = 0], st)
  BY <1>3, StreakLeaves, SameStillThere, StillThereChained
<1> QED
  BY <1>2, <1>4 DEF Closed, empty, served, full

LEMMA FinaliseStillThere ==
  ASSUME NEW st, NEW id \in Nat, Framed(st), st.feed.startAt \in Nat, now \in Nat
  PROVE  StillThere(Finalise(st, id), st)
<1> DEFINE asked == GetRound(st, id).status = "open"
           checked == Require(st, asked)
           put == PutRound(checked, id, GetRound(st, id))
           agg == AggregateOf(put, id)
           promoted == Promoted(put, agg)
           tier == TierOf(promoted, agg, Cardinality(ObligedSlots(put, id)))
           paid == IF tier = "empty" THEN {} ELSE { ObligedHolder(promoted, s, id) : s \in agg.eligible }
           judged == Liveness(promoted, id, agg, promoted.feed.status = "active")
           payout == RoundPayout(judged, paid)
           closed == Closed(payout, id, agg, tier)
           status == FundingStatus(closed)
<1>1. Finalise(st, id) = AfterEmpty(status)
  BY DEF Finalise, FinaliseOnRecord, FinaliseAs, Settled
<1>2. StillThere(checked, st) /\ Framed(checked)
  BY RequireLeaves, SameStillThere
<1> HIDE DEF asked, checked
<1>3. StillThere(put, checked) /\ Framed(put)
  BY <1>2 DEF PutRound, StillThere, Framed, Tables
<1> HIDE DEF put, agg
<1>4. StillThere(promoted, st) /\ Framed(promoted)
  BY <1>2, <1>3, PromotedLeaves, RoundsStillThere, StillThereChained
<1> HIDE DEF promoted, tier
<1>5. StillThere(judged, st) /\ Framed(judged)
  BY <1>4, LivenessLeaves, SameStillThere, StillThereChained
<1> HIDE DEF judged, paid
<1>6. StillThere(payout, st) /\ Framed(payout)
  BY <1>5, RoundPayoutLeaves, SameStillThere, StillThereChained
<1> HIDE DEF payout
<1>7. StillThere(closed, st) /\ Framed(closed)
  BY <1>6, ClosedStillThere, StillThereChained DEF StillThere
<1> HIDE DEF closed
<1>8. StillThere(status, st) /\ Framed(status)
  BY <1>7, FundingStatusLeaves, SameStillThere, StillThereChained
<1> HIDE DEF status
<1>9. status.feed.startAt \in Nat
  BY <1>8 DEF StillThere
<1> QED
  BY <1>1, <1>8, <1>9, AfterEmptyLeaves, SameStillThere, StillThereChained

LEMMA SkipStillThere ==
  ASSUME NEW st, NEW id \in Nat, Framed(st), st.feed.startAt \in Nat, now \in Nat
  PROVE  StillThere(Skip(st, id), st)
<1> DEFINE closed == FeedSetCursor(RoundFinalise(st, id, "skipped", "", 0), id)
           counted == EmptyClosed(closed)
<1>1. StillThere(closed, st) /\ Framed(closed)
  BY RoundSettledStillThere DEF StillThere
<1>2. Skip(st, id) = AfterEmpty(counted)
  BY DEF Skip
<1> HIDE DEF closed
<1>3. StillThere(counted, st) /\ Framed(counted)
  BY <1>1, EmptyClosedLeaves, SameStillThere, StillThereChained
<1> HIDE DEF counted
<1>4. counted.feed.startAt \in Nat
  BY <1>3 DEF StillThere
<1> QED
  BY <1>2, <1>3, <1>4, AfterEmptyLeaves, SameStillThere, StillThereChained

LEMMA ReopenStillThere ==
  ASSUME NEW st, NEW at \in Nat, Framed(st)
  PROVE  StillThere(FeedResetForReopen(st, at), st)
<1> DEFINE t == FeedResetForReopen(st, at)
           f == [st.feed EXCEPT !.startAt = at, !.reopened = TRUE, !.haveLast = FALSE, !.lastFinalized = 0,
                                !.haveValue = FALSE, !.lastTier = "", !.emptyStreak = 0]
<1>1. DOMAIN t = Tables /\ t.feed = f
  BY DEF FeedResetForReopen, Framed, Tables
<1> HIDE DEF t
<1>2. DOMAIN f = FeedFields /\ f.startAt = at /\ f.status = st.feed.status
  BY ReopenedFields DEF Framed
<1> HIDE DEF f
<1>3. StillThere(t, st)
  BY <1>1, <1>2 DEF StillThere, Framed
<1> QED
  BY <1>3 DEF t

LEMMA PrunedStillThere ==
  ASSUME NEW st, NEW most, Framed(st)
  PROVE  StillThere(Pruned(st, most), st)
<1> DEFINE next == Smaller(PruneStop(st, PruneEnd(st.feed)), st.feed.oldestRound + most)
           t == DropRounds(st, next)
<1>1. Pruned(st, most) = t
  BY DEF Pruned
<1> HIDE DEF next
<1>2. DOMAIN t = Tables /\ t.feed = [st.feed EXCEPT !.oldestRound = next]
  BY DEF DropRounds, Framed, Tables
<1> HIDE DEF t
<1>3. DOMAIN t.feed = FeedFields /\ t.feed.startAt = st.feed.startAt /\ t.feed.status = st.feed.status
  BY <1>2, OldestSet DEF Framed
<1> QED
  BY <1>1, <1>2, <1>3 DEF StillThere, Framed

\* In a step, the feed goes only if it was gone.
Lasting == feed'.status = "pruned" => feed.status = "pruned"

LEMMA CommittedLasts ==
  ASSUME NEW st, StillThere(st, Store), Commit(st)
  PROVE  Lasting
BY DEF StillThere, Commit, Lasting, Store

-----------------------------------------------------------------------------
(* The actions. *)

Recording == OnRecord(Store) /\ now \in Nat

LEMMA RecordCommitted ==
  ASSUME NEW st, OnRecord(st), Commit(st), now \in Nat
  PROVE  Recording'
<1> DEFINE t == Store'
<1>1. /\ DOMAIN t = Tables
      /\ t.feed = st.feed /\ t.rounds = st.rounds /\ t.disputes = st.disputes /\ t.slotlog = st.slotlog
      /\ now' \in Nat
  BY DEF Store, Commit, Tables
<1> HIDE DEF t
<1>2. Running(t) = Running(st)
  BY <1>1 DEF Running
<1>3. OnRecord(t)
  <2>1. RoundsSound(t)
    BY <1>1, <1>2 DEF OnRecord, RoundsSound
  <2>2. DisputesSound(t)
    BY <1>1, <1>2 DEF OnRecord, DisputesSound
  <2> QED
    BY <1>1, <1>2, <2>1, <2>2 DEF OnRecord, Framed, LogSound
<1> QED
  BY <1>1, <1>3 DEF Recording, t

\* A step that commits tables with the same record and the same served value.
Quiet == \E t : SameRecord(t, Store) /\ Commit(t)

LEMMA QuietStep ==
  ASSUME NEW st, SameRecord(st, Store), Commit(st)
  PROVE  Quiet
BY DEF Quiet

LEMMA QuietKeepsRecord ==
  ASSUME Recording, Quiet
  PROVE  Recording' /\ Lasting
<1>1. PICK st : SameRecord(st, Store) /\ Commit(st)
  BY DEF Quiet
<1> QED
  BY <1>1, RecordKept, RecordCommitted, SameStillThere, CommittedLasts DEF Recording

LEMMA StoreOnRecord ==
  ASSUME Recording
  PROVE  /\ OnRecord(Store) /\ Framed(Store) /\ SameRecord(Store, Store) /\ Store.feed.startAt \in Nat /\ now \in Nat
         /\ Store.feed = feed /\ Store.rounds = rounds /\ Store.disputes = disputes /\ Store.slotlog = slotlog
         /\ Store.slots = slots /\ Store.providers = providers
BY OnRecordFramed, RecordSame DEF Recording, Store

LEMMA ProviderOpsAreQuiet ==
  ASSUME Recording, ProviderOps
  PROVE  Quiet
<1>1. PICK p \in Providers :
        Register(p) \/ TopUp(p) \/ RequestUnbond(p) \/ ForceUnbond(p) \/ Withdraw(p) \/ Unjail(p) \/ ClaimRewards(p)
  BY DEF ProviderOps
<1>2. CASE Register(p)
  <2> DEFINE s == Min(FreeSlots(Store))
             from == ObligedFrom(feed)
  <2>1. PICK sent : Commit(FeedAssignSlot(NewProvider(Receive(Store, sent), p, sent, s, from), s, p, from))
    BY <1>2 DEF Register
  <2>2. from \in Nat
    BY StoreOnRecord, ObligedFromNat
  <2> HIDE DEF s, from
  <2> DEFINE received == Receive(Store, sent)
             joined == NewProvider(received, p, sent, s, from)
  <2>3. SameRecord(received, Store)
    BY StoreOnRecord, ReceiveLeaves
  <2> HIDE DEF received
  <2>4. SameRecord(joined, Store)
    BY <2>3, NewProviderLeaves, RecordChained, FrameKept
  <2> HIDE DEF joined
  <2>5. SameRecord(FeedAssignSlot(joined, s, p, from), Store)
    BY <2>2, <2>4, FeedAssignSlotLeaves, RecordChained, FrameKept
  <2> QED
    BY <2>1, <2>5, QuietStep DEF joined, received
<1>3. CASE TopUp(p)
  <2>1. SameRecord(ProviderAddStake(Receive(Store, Overpay), p, Overpay), Store)
    BY StoreOnRecord, ReceiveLeaves, ProviderAddStakeLeaves, RecordChained, FrameKept
  <2> QED
    BY <1>3, <2>1, QuietStep DEF TopUp
<1>4. CASE RequestUnbond(p) \/ ForceUnbond(p)
  <2>1. SameRecord(Leave(Store, {p}), Store)
    BY StoreOnRecord, LeaveLeaves
  <2> QED
    BY <1>4, <2>1, QuietStep DEF RequestUnbond, ForceUnbond
<1>5. CASE Withdraw(p)
  <2>1. SameRecord(ProviderDelete(RewardPay(ProviderPayUnbonded(Store, p), p), p), Store)
    BY StoreOnRecord, ProviderPayUnbondedLeaves, RewardPayLeaves, ProviderDeleteLeaves, RecordChained, FrameKept
  <2> QED
    BY <1>5, <2>1, QuietStep DEF Withdraw
<1>6. CASE Unjail(p)
  <2> DEFINE s == Min(FreeSlots(Store))
             from == ObligedFrom(feed)
             ps == [providers EXCEPT ![p] = Unjailed(@, s, from)]
             st == [Store EXCEPT !.providers[p] = Unjailed(@, s, from)]
  <2>1. Commit(FeedAssignSlot(st, s, p, from))
    BY <1>6 DEF Unjail
  <2>2. from \in Nat
    BY StoreOnRecord, ObligedFromNat
  <2>3. st = [Store EXCEPT !.providers = ps]
    BY DEF Store
  <2> HIDE DEF s, from, ps, st
  <2>4. SameRecord(st, Store)
    BY <2>3, StoreOnRecord, ProvidersSetLeaves
  <2>5. SameRecord(FeedAssignSlot(st, s, p, from), Store)
    BY <2>2, <2>4, FeedAssignSlotLeaves, RecordChained, FrameKept
  <2> QED
    BY <2>1, <2>5, QuietStep
<1>7. CASE ClaimRewards(p)
  <2>1. SameRecord(RewardPay(Store, p), Store)
    BY StoreOnRecord, RewardPayLeaves
  <2> QED
    BY <1>7, <2>1, QuietStep DEF ClaimRewards
<1> QED
  BY <1>1, <1>2, <1>3, <1>4, <1>5, <1>6, <1>7

LEMMA OneOffSchedule ==
  ASSUME NEW f
  PROVE  ~Recurs <=> IsOneOff(Sched(f))
<1>1. Spec0.interval # 0
  BY TimesAssumption, ConstantsAssumption
<1> QED
  BY <1>1 DEF Sched, Recurring, OneOff, IsOneOff

\* The next closed round is finalised, or written off.
LEMMA NextClosedKeepsRecord ==
  ASSUME NEW id, Recording, IsNextOf(Store, id)
  PROVE  /\ OnRecord(Finalise(Store, id)) /\ OnRecord(Skip(Store, id))
         /\ StillThere(Finalise(Store, id), Store) /\ StillThere(Skip(Store, id), Store)
<1>1. id \in Nat
  BY DEF IsNextOf
<1> QED
  BY <1>1, StoreOnRecord, FinaliseKeepsRecord, SkipKeepsRecord, FinaliseStillThere, SkipStillThere

LEMMA SubmitKeepsRecord ==
  ASSUME Recording, NEW p \in Providers, NEW id \in OpenedRounds, NEW v, Submit(p, id, v)
  PROVE  Recording' /\ Lasting
<1> DEFINE rd == GetRound(Store, id)
           s == providers[p].slot
           subs == [x \in DOMAIN rd.subs \cup {s} |-> IF x = s THEN v ELSE rd.subs[x]]
           answered == [rd EXCEPT !.subs = subs]
           submitted == PutRound(Store, id, answered)
<1>1. Commit(IF AllSubmitted(submitted, id) /\ IsNext(id) THEN Finalise(submitted, id) ELSE submitted)
  BY DEF Submit, Submitted, Answered, Completes
<1>2. /\ feed.haveLast => id > feed.lastFinalized
      /\ rd.status = "open"
      /\ Exists(Sched(feed), id, now)
  BY DEF Submit, MaySubmit, MayAnswer
<1>3. id \in Nat /\ (~Recurs => id = 0)
  <2>1. id \in Nat
    BY DEF OpenedRounds
  <2> QED
    BY <1>2, <2>1, OneOffSchedule DEF Exists
<1>4. id >= NextRound(Store.feed.haveLast, Store.feed.lastFinalized)
  BY <1>2, <1>3, StoreOnRecord DEF NextRound, OnRecord, Cursors
<1>5. DOMAIN answered = RoundFields /\ answered.status = "open" /\ answered.tier = rd.tier /\ answered.disputeID = rd.disputeID
  <2>1. DOMAIN rd = RoundFields
    BY StoreOnRecord DEF GetRound, OnRecord, RoundsSound, RoundFields
  <2> HIDE DEF rd, subs
  <2> QED
    BY <1>2, <2>1 DEF RoundFields, FreshRound
<1> HIDE DEF answered, subs
<1>6. OnRecord(submitted)
  BY <1>3, <1>4, <1>5, StoreOnRecord, OpenRoundPut
<1>7. submitted.feed = feed
  BY DEF PutRound, Store
<1>8. Framed(submitted)
  BY <1>6, OnRecordFramed
<1> HIDE DEF submitted, rd
<1>9. IsNext(id) => IsNextOf(submitted, id)
  BY <1>3, <1>7 DEF IsNext, IsNextOf
<1>10. IsNext(id) => OnRecord(Finalise(submitted, id))
  BY <1>6, <1>9, StoreOnRecord, FinaliseKeepsRecord
<1>11. StillThere(submitted, Store)
  BY <1>7, <1>8, StoreOnRecord DEF StillThere
<1>12. StillThere(Finalise(submitted, id), Store)
  <2>1. submitted.feed.startAt \in Nat
    BY <1>7, StoreOnRecord
  <2> QED
    BY <1>3, <1>8, <1>11, <2>1, StoreOnRecord, FinaliseStillThere, StillThereChained
<1> QED
  BY <1>1, <1>6, <1>10, <1>11, <1>12, StoreOnRecord, RecordCommitted, CommittedLasts

LEMMA RoundOpsKeepRecord ==
  ASSUME Recording, RoundOps
  PROVE  Recording' /\ Lasting
<1>1. feed.lastFinalized \in Nat
  BY StoreOnRecord DEF OnRecord, Cursors
<1>2. ASSUME NEW id \in OpenedRounds, Finalize(id)
      PROVE  Recording' /\ Lasting
  <2>1. IsNext(id) /\ Exists(Sched(feed), id, now) /\ Commit(Finalise(Store, id))
    BY <1>2 DEF Finalize
  <2>2. id \in Nat
    BY DEF OpenedRounds
  <2>3. IsNextOf(Store, id)
    BY <2>1, <2>2, OneOffSchedule, StoreOnRecord DEF IsNext, IsNextOf, Exists
  <2> QED
    BY <2>1, <2>3, NextClosedKeepsRecord, StoreOnRecord, RecordCommitted, CommittedLasts
<1>3. CASE CatchUp
  <2>1. PICK id \in Finalisable(Sched(feed), feed.haveLast, feed.lastFinalized, now, 1) :
          Commit(IF id \in DOMAIN rounds THEN Finalise(Store, id) ELSE Skip(Store, id))
    BY <1>3 DEF CatchUp
  <2>2. id = NextRound(feed.haveLast, feed.lastFinalized) /\ id \in Nat /\ (~Recurs => id = 0)
    <3>1. NextRound(feed.haveLast, feed.lastFinalized) \in Nat
      BY <1>1 DEF NextRound
    <3> QED
      BY <2>1, <3>1, OneOffSchedule DEF Finalisable
  <2>3. IsNextOf(Store, id)
    BY <2>2, StoreOnRecord DEF IsNextOf
  <2> QED
    BY <2>1, <2>3, NextClosedKeepsRecord, StoreOnRecord, RecordCommitted, CommittedLasts
<1> QED
  BY <1>2, <1>3, SubmitKeepsRecord DEF RoundOps

LEMMA CountersSet ==
  ASSUME NEW f, NEW a, NEW b, DOMAIN f = FeedFields
  PROVE  LET g == [f EXCEPT !.openDisputes = @ + 1, !.disputesInRow = a, !.lastDisputeAt = b] IN
         /\ DOMAIN g = FeedFields /\ SameCursors(g, f) /\ g.openDisputes = f.openDisputes + 1
         /\ SameServed(g, f)
BY DEF SameCursors, SameServed, FeedFields, NoFeed

LEMMA DisputeOpens ==
  ASSUME Recording, NEW acct, NEW id \in DOMAIN rounds, NEW proposed, NEW tier, Dispute(acct, id, proposed, tier)
  PROVE  \E t, s, d :
           /\ Commit(t) /\ SameRecord(s, Store) /\ s.feed.status # "pruned"
           /\ Opens(t, s, id, d) /\ d.proposedValue = proposed
<1> DEFINE bond == DisputeBond
           n == Len(disputes) + 1
           inRow == IF now - feed.lastDisputeAt >= Param.disputeEscalationWindow THEN 0 ELSE feed.disputesInRow
<1>1. PICK sent :
        LET paid == CreditExcess(Receive(Store, sent), acct, sent, bond)
            marked == RoundMarkDisputed(NewDispute(paid, id, bond, proposed, tier), id, n)
        IN Commit([marked EXCEPT !.feed.openDisputes = @ + 1, !.feed.disputesInRow = inRow + 1,
                                 !.feed.lastDisputeAt = now])
  BY DEF Dispute
<1> DEFINE paid == CreditExcess(Receive(Store, sent), acct, sent, bond)
           opened == NewDispute(paid, id, bond, proposed, tier)
           marked == RoundMarkDisputed(opened, id, n)
           counted == [marked EXCEPT !.feed.openDisputes = @ + 1, !.feed.disputesInRow = inRow + 1,
                                     !.feed.lastDisputeAt = now]
           d == [status |-> "open", round |-> id, bond |-> bond, proposedValue |-> proposed,
                 tierAsked |-> tier, ballotRound |-> 1, ballotEnds |-> now + BallotPeriod[1],
                 outcome |-> "", firstOutcome |-> "", tierDecided |-> "", decidedAt |-> 0,
                 appealBond |-> 0, priorTier |-> rounds[id].tier]
<1>2. Commit(counted)
  BY <1>1
<1>3. /\ feed.status # "pruned" /\ rounds[id].status = "aggregated"
      /\ ~Unresolved(Store, rounds[id].disputeID)
      /\ now < rounds[id].finalisedAt + feed.disputeWindow
  BY DEF Dispute, Disputable
<1> HIDE DEF bond, inRow
<1>4. SameRecord(paid, Store)
  BY StoreOnRecord, ReceiveLeaves, CreditExcessLeaves, RecordChained, FrameKept
<1> HIDE DEF paid
<1>5. OnRecord(paid) /\ paid.rounds = rounds /\ paid.disputes = disputes /\ paid.feed.status # "pruned"
  BY <1>3, <1>4, StoreOnRecord, RecordKept DEF SameRecord, SameRounds
<1>6. DOMAIN paid = Tables /\ DOMAIN paid.feed = FeedFields
  BY <1>5 DEF OnRecord, Framed
<1>7. DOMAIN d = DisputeFields /\ d.status = "open" /\ d.round = id /\ d.priorTier = paid.rounds[id].tier
      /\ d.proposedValue = proposed
  BY <1>5 DEF DisputeFields
<1>8. /\ DOMAIN opened = Tables /\ opened.feed = paid.feed
      /\ opened.rounds = paid.rounds /\ opened.slotlog = paid.slotlog
  BY <1>6 DEF NewDispute, Inflow, Require, Tables
<1>9. opened.disputes = Append(paid.disputes, d)
  BY <1>5, <1>6 DEF NewDispute, Inflow, Require, Tables
<1> HIDE DEF opened, d
<1> DEFINE rd == [opened.rounds[id] EXCEPT !.disputeID = n, !.tier = "disputed"]
<1>10. RoundWritten(marked, opened, id, rd)
  <2>1. Framed(opened)
    BY <1>6, <1>8 DEF Framed
  <2> HIDE DEF n
  <2> QED
    BY <2>1, RoundMarkDisputedWrites
<1>11. ServedThrough(marked.feed, opened.feed, id, opened.rounds[id], rd)
  <2>1. Framed(opened)
    BY <1>6, <1>8 DEF Framed
  <2>2. DOMAIN opened.rounds[id] = RoundFields
    BY <1>5, <1>8 DEF OnRecord, RoundsSound
  <2> HIDE DEF n
  <2> QED
    BY <2>1, <2>2, RoundMarkDisputedServes
<1> HIDE DEF marked
<1>12. DOMAIN marked = Tables /\ DOMAIN marked.feed = FeedFields
  BY <1>10 DEF RoundWritten, Framed
<1> DEFINE f == [marked.feed EXCEPT !.openDisputes = @ + 1, !.disputesInRow = inRow + 1, !.lastDisputeAt = now]
<1>13. DOMAIN f = FeedFields /\ SameCursors(f, marked.feed) /\ f.openDisputes = marked.feed.openDisputes + 1
       /\ SameServed(f, marked.feed)
  BY <1>12, CountersSet
<1>14. /\ DOMAIN counted = Tables /\ counted.feed = f
       /\ counted.rounds = marked.rounds /\ counted.disputes = marked.disputes /\ counted.slotlog = marked.slotlog
  BY <1>12 DEF Tables
<1> HIDE DEF f, counted
<1>15. Framed(counted) /\ SameCursors(counted.feed, paid.feed) /\ counted.feed.openDisputes = paid.feed.openDisputes + 1
  BY <1>8, <1>10, <1>13, <1>14 DEF RoundWritten, SameCursors, Framed
<1>16. counted.disputes = Append(paid.disputes, d) /\ counted.slotlog = paid.slotlog
  BY <1>8, <1>9, <1>10, <1>14 DEF RoundWritten
<1>17. counted.rounds = [k \in DOMAIN paid.rounds \cup {id} |->
                           IF k = id THEN [paid.rounds[id] EXCEPT !.disputeID = Len(paid.disputes) + 1, !.tier = "disputed"]
                                     ELSE paid.rounds[k]]
  BY <1>5, <1>8, <1>10, <1>14 DEF RoundWritten
<1>18. /\ paid.rounds[id].status = "aggregated" /\ ~Unresolved(paid, paid.rounds[id].disputeID)
       /\ id \in DOMAIN paid.rounds /\ now < paid.rounds[id].finalisedAt + paid.feed.disputeWindow
  BY <1>3, <1>4, <1>5, StoreOnRecord DEF Unresolved, SameRecord, SameServed
<1>19. ServedThrough(counted.feed, paid.feed, id, paid.rounds[id],
                     [paid.rounds[id] EXCEPT !.disputeID = Len(paid.disputes) + 1, !.tier = "disputed"])
  <2>1. ServedThrough(f, opened.feed, id, opened.rounds[id], rd)
    BY <1>13, <1>11, ServedThroughSame
  <2>2. rd = [paid.rounds[id] EXCEPT !.disputeID = Len(paid.disputes) + 1, !.tier = "disputed"]
    BY <1>5, <1>8
  <2> HIDE DEF rd
  <2> QED
    BY <1>8, <1>14, <2>1, <2>2
<1>20. Opens(counted, paid, id, d)
  BY <1>7, <1>15, <1>16, <1>17, <1>18, <1>19 DEF Opens
<1> QED
  BY <1>2, <1>4, <1>5, <1>7, <1>20

LEMMA AppealAmends ==
  ASSUME Recording, NEW acct, NEW n \in DOMAIN disputes, Appeal(acct, n)
  PROVE  \E t, s, e : Commit(t) /\ SameRecord(s, Store) /\ Amends(t, s, n, e)
<1> DEFINE bond == disputes[n].bond * Param.appealBondMultiple
<1>1. PICK sent :
        LET st == Inflow(CreditExcess(Receive(Store, sent), acct, sent, bond), bond) IN
        Commit([st EXCEPT !.disputes[n].status = "appealed", !.disputes[n].appealBond = bond,
                          !.disputes[n].ballotRound = 2, !.disputes[n].ballotEnds = now + BallotPeriod[2],
                          !.held.bonds = @ + bond])
  BY ZenonT(40) DEF Appeal
<1> DEFINE received == Receive(Store, sent)
           paid == CreditExcess(received, acct, sent, bond)
           st == Inflow(paid, bond)
           ends == now + BallotPeriod[2]
           e == [disputes[n] EXCEPT !.status = "appealed", !.appealBond = bond, !.ballotRound = 2, !.ballotEnds = ends]
           t == [st EXCEPT !.disputes[n].status = "appealed", !.disputes[n].appealBond = bond,
                           !.disputes[n].ballotRound = 2, !.disputes[n].ballotEnds = ends,
                           !.held.bonds = @ + bond]
<1>2. Commit(t)
  BY <1>1
<1> HIDE DEF bond, ends
<1>3. SameRecord(received, Store)
  BY StoreOnRecord, ReceiveLeaves
<1> HIDE DEF received
<1>4. SameRecord(paid, Store)
  BY <1>3, CreditExcessLeaves, RecordChained, FrameKept
<1> HIDE DEF paid
<1>5. SameRecord(st, Store)
  BY <1>4, InflowLeaves, RecordChained, FrameKept
<1> HIDE DEF st
<1>6. OnRecord(st) /\ st.disputes = disputes
  BY <1>5, StoreOnRecord, RecordKept DEF SameRecord, SameRounds
<1>7. DOMAIN disputes[n] = DisputeFields /\ DOMAIN st = Tables /\ DOMAIN st.feed = FeedFields
  BY <1>6 DEF OnRecord, DisputesSound, Framed
<1>8. n \in Running(st)
  BY <1>6 DEF Running, Appeal
<1>9. DOMAIN e = DisputeFields /\ e.status # "resolved" /\ e.round = disputes[n].round /\ e.priorTier = disputes[n].priorTier
      /\ e.proposedValue = disputes[n].proposedValue
  BY <1>7 DEF DisputeFields
<1>10. t.disputes = [disputes EXCEPT ![n] = e]
  BY <1>6, <1>7 DEF Tables, DisputeFields
<1>11. DOMAIN t = Tables /\ t.feed = st.feed /\ t.rounds = st.rounds /\ t.slotlog = st.slotlog
  BY <1>7 DEF Tables
<1> HIDE DEF t, e
<1>12. Framed(t)
  BY <1>7, <1>11 DEF Framed
<1>13. Amends(t, st, n, e)
  BY <1>6, <1>8, <1>9, <1>10, <1>11, <1>12 DEF Amends
<1> QED
  BY <1>2, <1>5, <1>13

LEMMA ResolveOpenAmends ==
  ASSUME Recording, NEW n \in DOMAIN disputes, ResolveOpen(n)
  PROVE  \E t, e : Commit(t) /\ Amends(t, Store, n, e)
<1>1. PICK b : Commit(IF b.outcome = "ROLL"
          THEN [Store EXCEPT !.disputes[n].status = "appealed", !.disputes[n].ballotRound = 2,
                             !.disputes[n].ballotEnds = now + BallotPeriod[2]]
          ELSE [Store EXCEPT !.disputes[n].status = "decided", !.disputes[n].outcome = b.outcome,
                             !.disputes[n].firstOutcome = b.outcome, !.disputes[n].tierDecided = b.tier,
                             !.disputes[n].decidedAt = now])
  BY DEF ResolveOpen
<1> DEFINE st == Store
           ends == now + BallotPeriod[2]
           rolled == [st EXCEPT !.disputes[n].status = "appealed", !.disputes[n].ballotRound = 2,
                                !.disputes[n].ballotEnds = ends]
           decided == [st EXCEPT !.disputes[n].status = "decided", !.disputes[n].outcome = b.outcome,
                                 !.disputes[n].firstOutcome = b.outcome, !.disputes[n].tierDecided = b.tier,
                                 !.disputes[n].decidedAt = now]
           again == [disputes[n] EXCEPT !.status = "appealed", !.ballotRound = 2, !.ballotEnds = ends]
           final == [disputes[n] EXCEPT !.status = "decided", !.outcome = b.outcome, !.firstOutcome = b.outcome,
                                        !.tierDecided = b.tier, !.decidedAt = now]
<1>2. Commit(rolled) \/ Commit(decided)
  BY <1>1
<1> HIDE DEF ends
<1>3. OnRecord(st) /\ st.disputes = disputes
  BY StoreOnRecord
<1> HIDE DEF st
<1>4. DOMAIN disputes[n] = DisputeFields /\ DOMAIN st = Tables /\ DOMAIN st.feed = FeedFields
  BY <1>3 DEF OnRecord, DisputesSound, Framed
<1>5. n \in Running(st)
  BY <1>3 DEF Running, ResolveOpen
<1>6. /\ DOMAIN again = DisputeFields /\ again.status # "resolved"
      /\ again.round = disputes[n].round /\ again.priorTier = disputes[n].priorTier
      /\ again.proposedValue = disputes[n].proposedValue
  BY <1>4 DEF DisputeFields
<1>7. /\ DOMAIN final = DisputeFields /\ final.status # "resolved"
      /\ final.round = disputes[n].round /\ final.priorTier = disputes[n].priorTier
      /\ final.proposedValue = disputes[n].proposedValue
  BY <1>4 DEF DisputeFields
<1>8. rolled.disputes = [disputes EXCEPT ![n] = again] /\ decided.disputes = [disputes EXCEPT ![n] = final]
  BY <1>3, <1>4 DEF Tables, DisputeFields
<1>9. /\ DOMAIN rolled = Tables /\ rolled.feed = st.feed /\ rolled.rounds = st.rounds /\ rolled.slotlog = st.slotlog
      /\ DOMAIN decided = Tables /\ decided.feed = st.feed /\ decided.rounds = st.rounds /\ decided.slotlog = st.slotlog
  BY <1>4 DEF Tables
<1> HIDE DEF rolled, decided, again, final
<1>10. Framed(rolled) /\ Framed(decided)
  BY <1>4, <1>9 DEF Framed
<1>11. Amends(rolled, st, n, again)
  BY <1>3, <1>5, <1>6, <1>8, <1>9, <1>10 DEF Amends
<1>12. Amends(decided, st, n, final)
  BY <1>3, <1>5, <1>7, <1>8, <1>9, <1>10 DEF Amends
<1> QED
  BY <1>2, <1>11, <1>12 DEF st

\* The final outcome of a dispute is applied, after its appeal window or its second ballot.
Applies(n) ==
  \E outcome, tier : disputes[n].status # "resolved" /\ Commit(Apply(Store, n, outcome, tier))

LEMMA ResolvingApplies ==
  ASSUME NEW n \in DOMAIN disputes, ResolveDispute(n)
  PROVE  ResolveOpen(n) \/ Applies(n)
<1>1. CASE ResolveDecided(n)
  BY <1>1 DEF ResolveDecided, Applies
<1>2. CASE ResolveAppealed(n)
  <2>1. PICK b : Commit(Apply(Store, n, b.outcome, b.tier))
    BY <1>2 DEF ResolveAppealed
  <2> QED
    BY <1>2, <2>1 DEF ResolveAppealed, Applies
<1> QED
  BY <1>1, <1>2 DEF ResolveDispute

LEMMA AppliedEnds ==
  ASSUME Recording, NEW n \in DOMAIN disputes, Applies(n)
  PROVE  \E t, s, e, rd : Commit(t) /\ SameRecord(s, Store) /\ Ends(t, s, n, e, rd)
<1>1. PICK outcome, tier : disputes[n].status # "resolved" /\ Commit(Apply(Store, n, outcome, tier))
  BY DEF Applies
<1>2. n \in Running(Store)
  BY <1>1, StoreOnRecord DEF Running
<1>3. Apply(Store, n, outcome, tier).ok
  BY <1>1 DEF Commit
<1>4. \E s, e, rd : SameRecord(s, Store) /\ Ends(Apply(Store, n, outcome, tier), s, n, e, rd)
  BY <1>2, <1>3, StoreOnRecord, ApplyEnds
<1> QED
  BY <1>1, <1>4

LEMMA CommittedOver ==
  ASSUME Recording, NEW t, NEW s, Commit(t), SameRecord(s, Store), OnRecord(t),
         t.feed.status = "pruned" => s.feed.status = "pruned"
  PROVE  Recording' /\ Lasting
<1>1. Recording'
  BY StoreOnRecord, RecordCommitted
<1>2. s.feed.status = "pruned" => feed.status = "pruned"
  BY StoreOnRecord DEF SameRecord, SameRounds
<1> QED
  BY <1>1, <1>2 DEF Lasting, Commit

LEMMA DisputeOpsKeepRecord ==
  ASSUME Recording, Seating, DisputeOps
  PROVE  Recording' /\ Lasting
<1>1. ASSUME NEW acct, NEW id \in DOMAIN rounds, NEW v, NEW tier, Dispute(acct, id, v, tier)
      PROVE  Recording' /\ Lasting
  <2>1. PICK t, s, d : Commit(t) /\ SameRecord(s, Store) /\ s.feed.status # "pruned" /\ Opens(t, s, id, d)
    BY <1>1, DisputeOpens
  <2>2. OnRecord(t)
    BY <2>1, StoreOnRecord, RecordKept, DisputeOpened
  <2>3. t.feed.status = "pruned" => s.feed.status = "pruned"
    BY <2>1 DEF Opens, SameCursors
  <2> QED
    BY <2>1, <2>2, <2>3, CommittedOver
<1>2. ASSUME NEW acct, NEW n \in DOMAIN disputes, Appeal(acct, n)
      PROVE  Recording' /\ Lasting
  <2>1. PICK t, s, e : Commit(t) /\ SameRecord(s, Store) /\ Amends(t, s, n, e)
    BY <1>2, AppealAmends
  <2>2. OnRecord(t)
    BY <2>1, StoreOnRecord, RecordKept, DisputeAmended
  <2>3. t.feed.status = "pruned" => s.feed.status = "pruned"
    BY <2>1 DEF Amends
  <2> QED
    BY <2>1, <2>2, <2>3, CommittedOver
<1>3. ASSUME NEW n \in DOMAIN disputes, ResolveDispute(n)
      PROVE  Recording' /\ Lasting
  <2>1. CASE ResolveOpen(n)
    <3>1. PICK t, e : Commit(t) /\ Amends(t, Store, n, e)
      BY <2>1, ResolveOpenAmends
    <3>2. OnRecord(t)
      BY <3>1, StoreOnRecord, DisputeAmended
    <3>3. t.feed.status = "pruned" => Store.feed.status = "pruned"
      BY <3>1 DEF Amends
    <3> QED
      BY <3>1, <3>2, <3>3, StoreOnRecord, CommittedOver
  <2>2. CASE Applies(n)
    <3>1. PICK t, s, e, rd : Commit(t) /\ SameRecord(s, Store) /\ Ends(t, s, n, e, rd)
      BY <2>2, AppliedEnds
    <3>2. OnRecord(t)
      BY <3>1, StoreOnRecord, RecordKept, DisputeEnded
    <3>3. t.feed.status = "pruned" => s.feed.status = "pruned"
      BY <3>1 DEF Ends, SameCursors
    <3> QED
      BY <3>1, <3>2, <3>3, CommittedOver
  <2> QED
    BY <1>3, <2>1, <2>2, ResolvingApplies
<1>4. ASSUME NEW resolveAt \in (now + ResolveLead.min) .. (now + ResolveLead.max), ReopenOneOff(resolveAt)
      PROVE  Recording' /\ Lasting
  <2>1. resolveAt \in Nat
    <3>1. ResolveLead.min \in Nat /\ now \in Nat
      BY TimesAssumption, StoreOnRecord
    <3> QED
      BY <3>1
  <2>2. OnRecord(FeedResetForReopen(Store, resolveAt))
    BY <1>4, <2>1, StoreOnRecord, StoreShaped, ReopenKeepsRecord DEF ReopenOneOff
  <2>3. StillThere(FeedResetForReopen(Store, resolveAt), Store)
    BY <2>1, StoreOnRecord, ReopenStillThere
  <2> QED
    BY <1>4, <2>2, <2>3, StoreOnRecord, RecordCommitted, CommittedLasts DEF ReopenOneOff
<1> QED
  BY <1>1, <1>2, <1>3, <1>4 DEF DisputeOps

\* A feed is proposed, activated or retired.
FeedLifeOps == ProposeFeed \/ ActivateFeed \/ (\E spam : DeprecateFeed(spam))

LEMMA FeedLifeIsQuiet ==
  ASSUME Recording, FeedLifeOps
  PROVE  Quiet
<1>1. CASE ProposeFeed
  <2> DEFINE st == FeedSetStatus(Store, "proposed")
  <2>1. SameRecord(st, Store)
    BY StoreOnRecord, FeedSetStatusLeaves
  <2>2. CASE Spec0.fromRealm
    <3> DEFINE filed == CreditSpendOnFeed(st, Proposer, Param.feedDeposit, Funding)
    <3>1. Commit(IF ~Recurs /\ Spec0.trusted THEN Activate(filed) ELSE filed)
      BY <1>1, <2>2 DEF ProposeFeed
    <3> HIDE DEF st
    <3>2. SameRecord(filed, Store)
      BY <2>1, CreditSpendOnFeedLeaves, RecordChained, FrameKept
    <3> HIDE DEF filed
    <3>3. SameRecord(Activate(filed), Store)
      BY <3>2, StoreOnRecord, ActivateLeaves, RecordChained, FrameKept
    <3> QED
      BY <3>1, <3>2, <3>3, QuietStep
  <2>3. CASE ~Spec0.fromRealm
    <3>1. PICK sent : Commit(CreditSpendOnFeed(CreditDeposit(Receive(st, sent), Proposer, sent),
                                               Proposer, Param.feedDeposit, sent - Param.feedDeposit))
      BY <1>1, <2>3 DEF ProposeFeed
    <3> DEFINE received == Receive(st, sent)
               deposited == CreditDeposit(received, Proposer, sent)
               rest == sent - Param.feedDeposit
               filed == CreditSpendOnFeed(deposited, Proposer, Param.feedDeposit, rest)
    <3> HIDE DEF st
    <3>2. SameRecord(received, Store)
      BY <2>1, ReceiveLeaves, RecordChained, FrameKept
    <3> HIDE DEF received
    <3>3. SameRecord(deposited, Store)
      BY <3>2, CreditDepositLeaves, RecordChained, FrameKept
    <3> HIDE DEF deposited, rest
    <3>4. SameRecord(filed, Store)
      BY <3>3, CreditSpendOnFeedLeaves, RecordChained, FrameKept
    <3> QED
      BY <3>1, <3>4, QuietStep DEF deposited, received, rest
  <2> QED
    BY <2>2, <2>3
<1>2. CASE ActivateFeed
  BY <1>2, StoreOnRecord, ActivateLeaves, QuietStep DEF ActivateFeed
<1>3. ASSUME NEW spam, DeprecateFeed(spam)
      PROVE  Quiet
  <2> DEFINE refunded == IF feed.status # "proposed" THEN Store
                         ELSE IF spam THEN DepositToFees(Store) ELSE DepositRefund(Store)
             swept == IF Recurs THEN FeedPoolToFees(refunded) ELSE FeedPoolRefund(refunded)
  <2>1. Commit(Retire(swept))
    BY <1>3 DEF DeprecateFeed
  <2>2. SameRecord(DepositToFees(Store), Store) /\ SameRecord(DepositRefund(Store), Store) /\ SameRecord(Store, Store)
    BY StoreOnRecord, DepositToFeesLeaves, DepositRefundLeaves
  <2>3. SameRecord(refunded, Store)
    BY <2>2
  <2> HIDE DEF refunded
  <2>4. SameRecord(FeedPoolToFees(refunded), Store) /\ SameRecord(FeedPoolRefund(refunded), Store)
    BY <2>3, FeedPoolToFeesLeaves, FeedPoolRefundLeaves, RecordChained, FrameKept
  <2>5. SameRecord(swept, Store)
    BY <2>4
  <2> HIDE DEF swept
  <2>6. swept.feed.startAt \in Nat
    BY <2>5, StoreOnRecord DEF SameRecord, SameRounds
  <2>7. SameRecord(Retire(swept), Store)
    BY <2>5, <2>6, StoreOnRecord, RetireLeaves, RecordChained, FrameKept
  <2> QED
    BY <2>1, <2>7, QuietStep
<1> QED
  BY <1>1, <1>2, <1>3 DEF FeedLifeOps

LEMMA PruneFeedLeaves ==
  ASSUME Recording, PruneFeed
  PROVE  \E t : /\ SameRecord(t, Store) /\ Running(t) = {}
                /\ Commit([t EXCEPT !.feed.status = "pruned", !.slotlog = {}])
<1> DEFINE ready == { p \in Providers : providers[p].status = "unbonding" /\ now >= providers[p].unbondReadyAt }
           settled == SettleProviders(Store, ready)
           swept == FeedPoolToFees(settled)
           empty == {swept.feed.pool, swept.feed.penaltyCarry, swept.feed.deposit, swept.feed.prepaid} = {0}
           checked == Require(swept, empty)
<1>1. /\ (feed.haveLast /\ feed.oldestRound <= feed.lastFinalized) =>
           (feed.oldestRound \notin DOMAIN rounds /\ feed.oldestRound >= feed.lastFinalized)
      /\ Commit([checked EXCEPT !.feed.status = "pruned", !.slotlog = {}])
  BY DEF PruneFeed
<1>2. Running(Store) = {}
  BY <1>1, StoreOnRecord, NothingRuns
<1> HIDE DEF ready
<1>3. SameRecord(settled, Store)
  BY StoreOnRecord, SettleProvidersLeaves
<1> HIDE DEF settled
<1>4. SameRecord(swept, Store)
  BY <1>3, FeedPoolToFeesLeaves, RecordChained, FrameKept
<1> HIDE DEF swept, empty
<1>5. SameRecord(checked, Store)
  BY <1>4, RequireLeaves, RecordChained, FrameKept
<1> HIDE DEF checked
<1>6. Running(checked) = {}
  BY <1>2, <1>5 DEF SameRecord, SameRounds, Running
<1> QED
  BY <1>1, <1>5, <1>6

LEMMA FeedOpsKeepRecord ==
  ASSUME Recording, FeedOps
  PROVE  Recording' /\ (Lasting \/ PruneFeed)
<1>1. CASE FeedLifeOps
  BY <1>1, FeedLifeIsQuiet, QuietKeepsRecord
<1>2. ASSUME NEW u, UpdateFeed(u)
      PROVE  Recording' /\ Lasting
  <2> DEFINE drip == IF Recurs /\ u.subscriptionPrice # feed.subscriptionPrice
                     THEN DripFor(u.subscriptionPrice) ELSE Store.feed.drip
             t == [Store EXCEPT
                     !.feed.subscriberPrice = u.subscriberPrice, !.feed.subscriptionPrice = u.subscriptionPrice,
                     !.feed.providerMinStake = u.providerMinStake, !.feed.toleranceBps = u.toleranceBps,
                     !.feed.quarantineBps = u.quarantineBps, !.feed.disputeWindow = u.disputeWindow,
                     !.feed.drip = drip]
  <2>1. Commit(t)
    BY <1>2 DEF UpdateFeed, Store
  <2> HIDE DEF drip
  <2>2. Framed(Store)
    BY StoreOnRecord
  <2>3. SameRounds(t, Store)
    BY ONLY <2>2, RepricedLeaves DEF t
  <2> HIDE DEF t
  <2> QED
    BY <2>1, <2>3, StoreOnRecord, RoundsKept, RecordCommitted, RoundsStillThere, CommittedLasts
<1>3. ASSUME NEW maxRounds \in PruneBatches, PruneRounds(maxRounds)
      PROVE  Recording' /\ Lasting
  <2>1. feed.haveLast /\ Commit(Pruned(FeedPromoteFinal(Store), maxRounds))
    BY <1>3 DEF PruneRounds
  <2> DEFINE st == FeedPromoteFinal(Store)
  <2>2. SameRounds(st, Store)
    BY StoreOnRecord, FeedPromoteFinalLeaves
  <2> HIDE DEF st
  <2>3. OnRecord(st) /\ st.feed.haveLast
    BY <2>1, <2>2, StoreOnRecord, RoundsKept DEF SameRounds
  <2>4. maxRounds \in Nat
    BY TimesAssumption
  <2>5. OnRecord(Pruned(st, maxRounds))
    BY <2>3, <2>4, PrunedKeepsRecord
  <2>6. StillThere(Pruned(st, maxRounds), Store)
    BY <2>2, RoundsStillThere, PrunedStillThere, StillThereChained
  <2> QED
    BY <2>1, <2>5, <2>6, StoreOnRecord, RecordCommitted, CommittedLasts DEF st
<1>4. CASE PruneFeed
  <2>1. PICK t : SameRecord(t, Store) /\ Running(t) = {} /\ Commit([t EXCEPT !.feed.status = "pruned", !.slotlog = {}])
    BY <1>4, PruneFeedLeaves
  <2>2. OnRecord(t)
    BY <2>1, StoreOnRecord, RecordKept
  <2> QED
    BY <1>4, <2>1, <2>2, StoreOnRecord, GoneKeepsRecord, RecordCommitted
<1> QED
  BY <1>1, <1>2, <1>3, <1>4 DEF FeedOps, FeedLifeOps

LEMMA FundingOpsAreQuiet ==
  ASSUME Recording, FundingOps
  PROVE  Quiet
<1>1. \A sent : SameRecord(Receive(Store, sent), Store)
  BY StoreOnRecord, ReceiveLeaves
<1>2. \A sent, amount : SameRecord(SponsorPay(Receive(Store, sent), amount), Store)
  BY <1>1, SponsorPayLeaves, RecordChained, FrameKept
<1>3. ASSUME NEW st, SameRecord(st, Store)
      PROVE  SameRecord(FeedSetStatus(st, "active"), Store) /\ SameRecord(Resubscribed(st), Store)
  BY <1>3, FeedSetStatusLeaves, ResubscribedLeaves, RecordChained, FrameKept
<1>4. CASE Sponsor
  <2>1. PICK sent : LET paid == SponsorPay(Receive(Store, sent), sent) IN
                    Commit(IF feed.status = "unfunded" THEN FeedSetStatus(paid, "active") ELSE paid)
    BY <1>4 DEF Sponsor
  <2> QED
    BY <1>2, <1>3, <2>1, QuietStep
<1>5. CASE SubscribeRealm
  <2>1. PICK sent : Commit(Resubscribed(SponsorPay(Receive(Store, sent), sent)))
    BY <1>5 DEF SubscribeRealm
  <2> QED
    BY <1>2, <1>3, <2>1, QuietStep
<1>6. CASE SubscribeFree
  <2>1. SameRecord(Resubscribed(Store), Store)
    BY StoreOnRecord, ResubscribedLeaves
  <2> QED
    BY <1>6, <2>1, QuietStep DEF SubscribeFree
<1>7. CASE FundBounty
  <2>1. PICK sent : Commit(BountyIn(Receive(Store, sent), sent))
    BY <1>7 DEF FundBounty
  <2>2. SameRecord(BountyIn(Receive(Store, sent), sent), Store)
    BY <1>1, BountyInLeaves, RecordChained, FrameKept
  <2> QED
    BY <2>1, <2>2, QuietStep
<1>8. CASE ForwardFees
  <2> DEFINE st == [Store EXCEPT !.held.feesPending = 0]
  <2>1. SameRecord(st, Store)
    BY StoreOnRecord DEF SameRecord, SameRounds, SameServed, Framed, Tables
  <2>2. Commit(Send(st, held.feesPending))
    BY <1>8 DEF ForwardFees
  <2> HIDE DEF st
  <2>3. SameRecord(Send(st, held.feesPending), Store)
    BY <2>1, SendLeaves, RecordChained, FrameKept
  <2> QED
    BY <2>2, <2>3, QuietStep
<1>9. CASE PlainTransfer
  BY <1>1, <1>9, QuietStep DEF PlainTransfer
<1>10. ASSUME NEW acct, SubscribeFromCredit(acct)
       PROVE  Quiet
  <2> DEFINE price == feed.subscriberPrice
             spent == CreditSpend(Store, acct, price)
             split == SplitSubscription(spent, price)
  <2>1. Commit(Resubscribed(split))
    BY <1>10 DEF SubscribeFromCredit
  <2> HIDE DEF price
  <2>2. SameRecord(spent, Store)
    BY StoreOnRecord, CreditSpendLeaves
  <2> HIDE DEF spent
  <2>3. SameRecord(split, Store)
    BY <2>2, SplitSubscriptionLeaves, RecordChained, FrameKept
  <2> HIDE DEF split
  <2> QED
    BY <1>3, <2>1, <2>3, QuietStep
<1>11. ASSUME NEW acct, DepositFor(acct)
       PROVE  Quiet
  <2>1. PICK sent : Commit(CreditDeposit(Receive(Store, sent), acct, sent))
    BY <1>11 DEF DepositFor
  <2>2. SameRecord(CreditDeposit(Receive(Store, sent), acct, sent), Store)
    BY <1>1, CreditDepositLeaves, RecordChained, FrameKept
  <2> QED
    BY <2>1, <2>2, QuietStep
<1>12. ASSUME NEW acct, WithdrawCredit(acct)
       PROVE  Quiet
  <2>1. SameRecord(CreditWithdraw(Store, acct, credits[acct]), Store)
    BY StoreOnRecord, CreditWithdrawLeaves
  <2> QED
    BY <1>12, <2>1, QuietStep DEF WithdrawCredit
<1> QED
  BY <1>4, <1>5, <1>7, <1>8, <1>9, <1>10, <1>11, <1>12, <1>6 DEF FundingOps

-----------------------------------------------------------------------------

LEMMA InitRecording ==
  ASSUME Init
  PROVE  Recording
<1> DEFINE t == Store
<1>1. /\ DOMAIN t = Tables /\ t.feed = NoFeed /\ t.slotlog = {} /\ t.rounds = << >> /\ t.disputes = << >> /\ now = 1
  BY DEF Init, Installed, NewStore, Store, Tables
<1> HIDE DEF t
<1>2. /\ NoFeed.haveLast = FALSE /\ NoFeed.reopened = FALSE /\ NoFeed.lastFinalized = 0
      /\ NoFeed.oldestRound = 0 /\ NoFeed.finalCursor = 0 /\ NoFeed.startAt = 0
      /\ NoFeed.openDisputes = 0 /\ NoFeed.status = "none" /\ DOMAIN NoFeed = FeedFields
  BY DEF NoFeed, FeedFields
<1>3. t.disputes \in Seq({}) /\ DOMAIN t.disputes = {} /\ DOMAIN t.rounds = {}
  BY <1>1
<1>4. IsSequence(t.disputes)
  BY <1>3, SequenceOf
<1>5. Running(t) = {}
  BY <1>3 DEF Running
<1>6. Cardinality(Running(t)) = 0
  BY <1>5, FS_EmptySet
<1>7. Framed(t) /\ Cursors(t.feed)
  <2>1. Framed(t)
    BY <1>1, <1>2 DEF Framed
  <2>2. Cursors(NoFeed)
    <3>1. NoFeed.haveLast \in BOOLEAN /\ NoFeed.reopened \in BOOLEAN
      BY <1>2
    <3>2. NoFeed.oldestRound <= NextRound(NoFeed.haveLast, NoFeed.lastFinalized)
      BY <1>2 DEF NextRound
    <3> QED
      BY <1>2, <3>1, <3>2 DEF Cursors
  <2> QED
    BY <1>1, <2>1, <2>2
<1>8. RoundsSound(t) /\ DisputesSound(t) /\ LogSound(t)
  BY <1>1, <1>2, <1>3, <1>4, <1>5, <1>6 DEF RoundsSound, DisputesSound, LogSound
<1> QED
  BY <1>1, <1>7, <1>8 DEF Recording, OnRecord, t

LEMMA StepRecording ==
  ASSUME Recording, Seating, [Next]_vars
  PROVE  Recording' /\ (Lasting \/ PruneFeed)
<1>1. ASSUME UNCHANGED tables, now' \in {now, now + 1}
      PROVE  Recording' /\ Lasting
  <2>1. Store' = Store /\ now' \in Nat /\ feed' = feed
    BY <1>1 DEF Store, tables, Recording
  <2> QED
    BY <2>1 DEF Recording, Lasting
<1> QED
  BY <1>1, ProviderOpsAreQuiet, RoundOpsKeepRecord, DisputeOpsKeepRecord, FeedOpsKeepRecord,
     FundingOpsAreQuiet, QuietKeepsRecord
  DEF Next, Tick, vars

LEMMA RecordingIsOnRecord ==
  ASSUME Recording
  PROVE  RoundsOnRecord
<1> DEFINE st == Store
<1>1. /\ OnRecord(st) /\ st.feed = feed /\ st.rounds = rounds /\ st.disputes = disputes
  BY StoreOnRecord
<1> HIDE DEF st
<1>2. UnresolvedOnes = Running(st)
  BY <1>1 DEF UnresolvedOnes, Running
<1>3. \A d : d \in Running(st) => Unresolved(Store, d)
  BY <1>1 DEF Running, Unresolved, Store
<1>4. RoundsSound(st) /\ DisputesSound(st)
  BY <1>1 DEF OnRecord
<1> QED
  BY <1>1, <1>2, <1>3, <1>4 DEF RoundsOnRecord, RoundsSound, DisputesSound

\* Rounds and disputes stay on record in every reachable state, for every calendar, retention
\* and dispute window: the cursor splits the rounds, no round that is kept back is pruned, a
\* running dispute and its round point at each other, and the feed counts the running ones.
THEOREM RoundsAlwaysOnRecord == Spec => []RoundsOnRecord
<1>1. Init => Recording /\ Seating
  BY InitRecording, InitSeats
<1>2. Recording /\ Seating /\ [Next]_vars => (Recording /\ Seating)'
  BY StepRecording, StepSeats
<1>3. Recording => RoundsOnRecord
  BY RecordingIsOnRecord
<1> QED
  BY <1>1, <1>2, <1>3, PTL DEF Spec

=============================================================================
