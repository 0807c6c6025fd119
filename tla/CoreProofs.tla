----------------------------- MODULE CoreProofs -----------------------------
(***************************************************************************)
(* The seating of the core realm and the log of who held each slot when,   *)
(* for every set of providers and slots and every value of the parameters. *)
(*                                                                         *)
(* The invariant is about a store, so that a handler, which composes store *)
(* operators, can be followed operator by operator: most leave the seating *)
(* as it is (the lemmas SameSeating...), and the few that seat or unseat a *)
(* provider each have a lemma that says the seating they leave is sound,   *)
(* the log with it, and that of the rounds already finalised the log says  *)
(* what it said.                                                           *)
(***************************************************************************)
EXTENDS Core, FiniteSetTheorems, WellFoundedInduction, TLAPS

Unborn == {"none", "proposed"}

\* An entry of the slot log, and the entries of slot s up to round id.
Entry(e) == e.from \in Nat /\ e.holder \in Providers \cup {NoOne}

Upto(log, s, id) == { e \in log : e.slot = s /\ e.from <= id }

\* No provider held two slots of one round.
Apart(log) ==
  \A id \in Nat : \A s, t \in Slots :
    SlotHolderAt(log, s, id) # NoOne /\ SlotHolderAt(log, s, id) = SlotHolderAt(log, t, id) => s = t

\* log is the log of these seats when whoever is seated next owes rounds from first on: in round
\* first those hold the slots who sit in them, and nothing was written about a slot since its
\* holder took it.
LogOf(log, seats, ps, first) ==
  /\ \A e \in log : Entry(e) /\ e.from <= first
  /\ \A s \in Slots : SlotHolderAt(log, s, first) = seats[s]
  /\ \A s \in Slots : seats[s] # NoOne =>
       /\ ps[seats[s]].obligedFrom <= first
       /\ \A e \in log : e.slot = s => e.from <= ps[seats[s]].obligedFrom
  /\ Apart(log)

\* The log of st, and where its cursor is.
Ordered(st, first) ==
  /\ first \in Nat /\ st.feed.startAt \in Nat /\ st.feed.lastFinalized \in Nat
  /\ st.feed.haveLast => st.feed.status \notin Unborn /\ st.feed.lastFinalized < first
  /\ st.feed.status \in Unborn => st.slotlog = {}
  /\ \A p \in Providers : st.providers[p].obligedFrom \in Nat
  /\ LogOf(st.slotlog, st.slots, st.providers, first)

Tables == {"feed", "providers", "slots", "slotlog", "rounds", "disputes", "credits", "held", "balance", "ok"}

FeedFields == DOMAIN NoFeed
ProviderFields == DOMAIN NoProvider

Occupied(st) == { s \in Slots : st.slots[s] # NoOne }

\* The shape of the tables the seating is kept in.
Shaped(st) ==
  /\ DOMAIN st = Tables
  /\ DOMAIN st.feed = FeedFields
  /\ DOMAIN st.providers = Providers
  /\ \A p \in Providers : DOMAIN st.providers[p] = ProviderFields
  /\ st.slots \in [Slots -> Providers \cup {NoOne}]

\* SeatsOK, said of a store, with the log of its slots.
Sat(st) ==
  /\ Shaped(st)
  /\ \A s \in Slots : st.slots[s] # NoOne =>
       st.providers[st.slots[s]].status = "active" /\ st.providers[st.slots[s]].slot = s
  /\ \A p \in Providers :
       IF st.providers[p].status = "active"
       THEN st.providers[p].slot \in Slots /\ st.slots[st.providers[p].slot] = p
       ELSE st.providers[p].slot = NoSlot
  /\ st.feed.activeCount = Cardinality(Occupied(st))
  /\ ~Serving(st.feed) => Occupied(st) = {}
  /\ now \in Nat /\ Ordered(st, ObligedFrom(st.feed))

\* There are finalised rounds, and no round owed from now on is one of them.
Passing == feed.haveLast /\ feed.lastFinalized \in 0 .. (ObligedFrom(feed) - 1)

\* The holders of record of the rounds finalised before the call are in st who they were.
Fixed(st) ==
  Passing => /\ st.feed.startAt = feed.startAt
             /\ \A s \in Slots : \A id \in 0 .. feed.lastFinalized :
                  SlotHolderAt(st.slotlog, s, id) = SlotHolderAt(slotlog, s, id)

Seated(st) == Sat(st) /\ Fixed(st)

\* A round that has begun and was not finalised before the call.
Due(st, id) ==
  /\ id \in Nat /\ id < ObligedFrom(st.feed)
  /\ st.feed.status \notin Unborn
  /\ feed.haveLast => id > feed.lastFinalized

\* t has the shape of a store and the seating of st.
SameSeating(t, st) ==
  /\ DOMAIN t = Tables
  /\ DOMAIN t.feed = FeedFields
  /\ t.slots = st.slots
  /\ t.slotlog = st.slotlog
  /\ t.feed.activeCount = st.feed.activeCount
  /\ t.feed.status = st.feed.status
  /\ t.feed.startAt = st.feed.startAt
  /\ t.feed.haveLast = st.feed.haveLast
  /\ t.feed.lastFinalized = st.feed.lastFinalized
  /\ DOMAIN t.providers = Providers
  /\ \A p \in Providers : /\ DOMAIN t.providers[p] = ProviderFields
                          /\ t.providers[p].status = st.providers[p].status
                          /\ t.providers[p].slot = st.providers[p].slot
                          /\ t.providers[p].obligedFrom = st.providers[p].obligedFrom

\* Where a feed is in its calendar depends on its start alone.
LEMMA SameStart ==
  ASSUME NEW f, NEW g, f.startAt = g.startAt
  PROVE  ObligedFrom(f) = ObligedFrom(g)
BY DEF ObligedFrom, Started, Sched, Recurring, OneOff, Current

\* A log is the log of the same seats with the same obligations.
LEMMA SameLog ==
  ASSUME NEW log, NEW seats, NEW ps, NEW qs, NEW first, LogOf(log, seats, ps, first),
         seats \in [Slots -> Providers \cup {NoOne}],
         \A p \in Providers : qs[p].obligedFrom = ps[p].obligedFrom
  PROVE  LogOf(log, seats, qs, first)
<1>1. \A s \in Slots : seats[s] # NoOne => qs[seats[s]].obligedFrom = ps[seats[s]].obligedFrom
  OBVIOUS
<1> QED
  BY <1>1 DEF LogOf

LEMMA SatKept ==
  ASSUME NEW st, NEW t, SameSeating(t, st), Sat(st)
  PROVE  Sat(t)
<1>1. ObligedFrom(t.feed) = ObligedFrom(st.feed)
  BY SameStart DEF SameSeating
<1>2. LogOf(t.slotlog, t.slots, t.providers, ObligedFrom(st.feed))
  BY SameLog DEF Sat, Shaped, Ordered, SameSeating
<1>3. Ordered(t, ObligedFrom(t.feed))
  BY <1>1, <1>2 DEF Sat, Ordered, SameSeating
<1>4. Shaped(t) /\ Occupied(t) = Occupied(st)
  BY DEF Sat, Shaped, SameSeating, Occupied
<1> QED
  BY <1>3, <1>4 DEF Sat, Shaped, SameSeating, Serving

LEMMA SeatingKept ==
  ASSUME NEW st, NEW t, SameSeating(t, st), Seated(st)
  PROVE  Seated(t)
<1>1. Sat(t)
  BY SatKept DEF Seated
<1>2. Fixed(t)
  BY DEF Seated, Fixed, SameSeating
<1> QED
  BY <1>1, <1>2 DEF Seated

LEMMA DueKept ==
  ASSUME NEW st, NEW t, NEW id, SameSeating(t, st), Due(st, id)
  PROVE  Due(t, id)
<1>1. ObligedFrom(t.feed) = ObligedFrom(st.feed)
  BY SameStart DEF SameSeating
<1> QED
  BY <1>1 DEF Due, SameSeating

LEMMA ShapeKept ==
  ASSUME NEW st, NEW t, SameSeating(t, st), Shaped(st)
  PROVE  Shaped(t)
BY DEF Shaped, SameSeating

LEMMA SatShaped ==
  ASSUME NEW st, Sat(st)
  PROVE  Shaped(st)
BY DEF Sat

LEMMA SeatedShaped ==
  ASSUME NEW st, Seated(st)
  PROVE  Shaped(st)
BY DEF Seated, Sat

LEMMA SeatingSame ==
  ASSUME NEW st, Shaped(st)
  PROVE  SameSeating(st, st)
BY DEF Shaped, SameSeating

LEMMA SeatingChained ==
  ASSUME NEW st, NEW t, NEW u, SameSeating(t, st), SameSeating(u, t)
  PROVE  SameSeating(u, st)
BY DEF SameSeating

-----------------------------------------------------------------------------
(* Coins. *)

LEMMA InflowKeeps ==
  ASSUME NEW st, NEW amount, Shaped(st)
  PROVE  SameSeating(Inflow(st, amount), st)
BY DEF Inflow, Require, SameSeating, Shaped, Tables, FeedFields, NoFeed

LEMMA ReceiveKeeps ==
  ASSUME NEW st, NEW sent, Shaped(st)
  PROVE  SameSeating(Receive(st, sent), st)
BY DEF Receive, SameSeating, Shaped, Tables, FeedFields, NoFeed

LEMMA SendKeeps ==
  ASSUME NEW st, NEW amount, Shaped(st)
  PROVE  SameSeating(Send(st, amount), st)
BY DEF Send, Require, SameSeating, Shaped, Tables, FeedFields, NoFeed

LEMMA CreditDepositKeeps ==
  ASSUME NEW st, NEW acct, NEW amount, Shaped(st)
  PROVE  SameSeating(CreditDeposit(st, acct, amount), st)
BY DEF CreditDeposit, Inflow, Require, SameSeating, Shaped, Tables, FeedFields, NoFeed

LEMMA CreditSpendKeeps ==
  ASSUME NEW st, NEW acct, NEW amount, Shaped(st)
  PROVE  SameSeating(CreditSpend(st, acct, amount), st)
BY DEF CreditSpend, Require, SameSeating, Shaped, Tables, FeedFields, NoFeed

LEMMA CreditWithdrawKeeps ==
  ASSUME NEW st, NEW acct, NEW amount, Shaped(st)
  PROVE  SameSeating(CreditWithdraw(st, acct, amount), st)
BY SendKeeps, CreditSpendKeeps, SeatingChained, ShapeKept DEF CreditWithdraw

LEMMA CreditExcessKeeps ==
  ASSUME NEW st, NEW acct, NEW sent, NEW asked, Shaped(st)
  PROVE  SameSeating(CreditExcess(st, acct, sent, asked), st)
BY CreditDepositKeeps, SeatingSame DEF CreditExcess

LEMMA PayProposerKeeps ==
  ASSUME NEW st, NEW amount, Shaped(st)
  PROVE  SameSeating(PayProposer(st, amount), st)
BY SendKeeps DEF PayProposer, SameSeating, Shaped, Tables, FeedFields, NoFeed

LEMMA SplitSubscriptionKeeps ==
  ASSUME NEW st, NEW amount, Shaped(st)
  PROVE  SameSeating(SplitSubscription(st, amount), st)
BY DEF SplitSubscription, SameSeating, Shaped, Tables, FeedFields, NoFeed

LEMMA SponsorPayKeeps ==
  ASSUME NEW st, NEW amount, Shaped(st)
  PROVE  SameSeating(SponsorPay(st, amount), st)
BY InflowKeeps, SplitSubscriptionKeeps, SeatingChained, ShapeKept DEF SponsorPay

LEMMA BountyInKeeps ==
  ASSUME NEW st, NEW amount, Shaped(st)
  PROVE  SameSeating(BountyIn(st, amount), st)
BY DEF BountyIn, Inflow, Require, SameSeating, Shaped, Tables, FeedFields, NoFeed

LEMMA BondReleaseKeeps ==
  ASSUME NEW st, NEW amount, Shaped(st)
  PROVE  SameSeating(BondRelease(st, amount), st)
BY DEF BondRelease, Send, Require, SameSeating, Shaped, Tables, FeedFields, NoFeed

LEMMA FundVotersKeeps ==
  ASSUME NEW st, NEW amount, Shaped(st)
  PROVE  SameSeating(FundVoters(st, amount), st)
BY BondReleaseKeeps DEF FundVoters

LEMMA BondToPoolKeeps ==
  ASSUME NEW st, NEW amount, Shaped(st)
  PROVE  SameSeating(BondToPool(st, amount), st)
BY DEF BondToPool, Require, SameSeating, Shaped, Tables, FeedFields, NoFeed

LEMMA BondToFeesKeeps ==
  ASSUME NEW st, NEW amount, Shaped(st)
  PROVE  SameSeating(BondToFees(st, amount), st)
BY DEF BondToFees, Require, SameSeating, Shaped, Tables, FeedFields, NoFeed

\* A feed's money is no part of where it stands.
SameStanding(f, g) ==
  /\ DOMAIN f = FeedFields
  /\ f.activeCount = g.activeCount /\ f.status = g.status /\ f.startAt = g.startAt
  /\ f.haveLast = g.haveLast /\ f.lastFinalized = g.lastFinalized
  /\ f.oldestRound = g.oldestRound /\ f.reopened = g.reopened /\ f.openDisputes = g.openDisputes
  /\ f.haveFinal = g.haveFinal /\ f.finalValue = g.finalValue /\ f.finalRound = g.finalRound
  /\ f.finalCursor = g.finalCursor /\ f.disputeWindow = g.disputeWindow
  /\ f.haveValue = g.haveValue /\ f.lastValue = g.lastValue /\ f.lastTier = g.lastTier
  /\ f.lastRound = g.lastRound

LEMMA PoolMoved ==
  ASSUME NEW f, NEW g, NEW a, NEW b, DOMAIN f = FeedFields, g = [f EXCEPT !.pool = a, !.penaltyCarry = b]
  PROVE  SameStanding(g, f)
BY DEF SameStanding, FeedFields, NoFeed

LEMMA DepositMoved ==
  ASSUME NEW f, NEW g, NEW a, NEW b, DOMAIN f = FeedFields, g = [f EXCEPT !.deposit = a, !.prepaid = b]
  PROVE  SameStanding(g, f)
BY DEF SameStanding, FeedFields, NoFeed

LEMMA StandingKeeps ==
  ASSUME NEW st, NEW t, Shaped(st), DOMAIN t = Tables, SameStanding(t.feed, st.feed),
         t.slots = st.slots, t.slotlog = st.slotlog, t.providers = st.providers
  PROVE  SameSeating(t, st)
BY DEF SameSeating, Shaped, SameStanding

LEMMA FeedPoolToFeesKeeps ==
  ASSUME NEW st, Shaped(st)
  PROVE  SameSeating(FeedPoolToFees(st), st)
<1> DEFINE t == FeedPoolToFees(st)
<1>1. /\ DOMAIN t = Tables /\ t.feed = [st.feed EXCEPT !.pool = 0, !.penaltyCarry = 0]
      /\ t.slots = st.slots /\ t.slotlog = st.slotlog /\ t.providers = st.providers
  BY DEF FeedPoolToFees, Shaped, Tables
<1>2. SameStanding(t.feed, st.feed)
  BY <1>1, PoolMoved DEF Shaped
<1> QED
  BY ONLY Shaped(st), <1>1, <1>2, StandingKeeps

LEMMA FeedPoolRefundKeeps ==
  ASSUME NEW st, Shaped(st)
  PROVE  SameSeating(FeedPoolRefund(st), st)
<1> DEFINE amount == st.feed.pool + st.feed.penaltyCarry
           t == [st EXCEPT !.feed.pool = 0, !.feed.penaltyCarry = 0, !.held.pools = @ - amount]
<1>1. /\ DOMAIN t = Tables /\ t.feed = [st.feed EXCEPT !.pool = 0, !.penaltyCarry = 0]
      /\ t.slots = st.slots /\ t.slotlog = st.slotlog /\ t.providers = st.providers
  BY DEF Shaped, Tables
<1>2. SameStanding(t.feed, st.feed)
  BY <1>1, PoolMoved DEF Shaped
<1>3. FeedPoolRefund(st) = PayProposer(t, amount)
  BY DEF FeedPoolRefund
<1> HIDE DEF t, amount
<1>4. SameSeating(t, st)
  BY ONLY Shaped(st), <1>1, <1>2, StandingKeeps
<1>5. SameSeating(PayProposer(t, amount), t)
  BY <1>4, ShapeKept, PayProposerKeeps
<1> QED
  BY <1>3, <1>4, <1>5, SeatingChained

LEMMA DepositRefundKeeps ==
  ASSUME NEW st, Shaped(st)
  PROVE  SameSeating(DepositRefund(st), st)
<1> DEFINE amount == st.feed.deposit + st.feed.prepaid
           t == [st EXCEPT !.feed.deposit = 0, !.feed.prepaid = 0, !.held.deposits = @ - amount]
<1>1. /\ DOMAIN t = Tables /\ t.feed = [st.feed EXCEPT !.deposit = 0, !.prepaid = 0]
      /\ t.slots = st.slots /\ t.slotlog = st.slotlog /\ t.providers = st.providers
  BY DEF Shaped, Tables
<1>2. SameStanding(t.feed, st.feed)
  BY <1>1, DepositMoved DEF Shaped
<1>3. DepositRefund(st) = IF amount = 0 THEN st ELSE PayProposer(t, amount)
  BY DEF DepositRefund
<1> HIDE DEF t, amount
<1>4. SameSeating(t, st)
  BY ONLY Shaped(st), <1>1, <1>2, StandingKeeps
<1>5. SameSeating(PayProposer(t, amount), t)
  BY <1>4, ShapeKept, PayProposerKeeps
<1> QED
  BY <1>3, <1>4, <1>5, SeatingChained, SeatingSame

LEMMA DepositToFeesKeeps ==
  ASSUME NEW st, Shaped(st)
  PROVE  SameSeating(DepositToFees(st), st)
<1> DEFINE dep == st.feed.deposit
           pre == st.feed.prepaid
           t == [st EXCEPT !.feed.deposit = 0, !.feed.prepaid = 0,
                           !.held.deposits = @ - dep - pre, !.held.feesPending = @ + dep]
<1>1. SameSeating(t, st)
  <2>1. /\ DOMAIN t = Tables /\ t.feed = [st.feed EXCEPT !.deposit = 0, !.prepaid = 0]
        /\ t.slots = st.slots /\ t.slotlog = st.slotlog /\ t.providers = st.providers
    BY DEF Shaped, Tables
  <2>2. SameStanding(t.feed, st.feed)
    BY <2>1, DepositMoved DEF Shaped
  <2> HIDE DEF t
  <2> QED
    BY ONLY Shaped(st), <2>1, <2>2, StandingKeeps
<1>2. SameSeating(PayProposer(t, pre), t)
  BY <1>1, ShapeKept, PayProposerKeeps
<1>3. DepositToFees(st) = PayProposer(t, pre)
  BY DEF DepositToFees
<1> QED
  BY <1>1, <1>2, <1>3, SeatingChained

LEMMA CreditSpendOnFeedKeeps ==
  ASSUME NEW st, NEW acct, NEW deposit, NEW funding, Shaped(st)
  PROVE  SameSeating(CreditSpendOnFeed(st, acct, deposit, funding), st)
<1> DEFINE spent == CreditSpend(st, acct, deposit + funding)
           t == [spent EXCEPT !.feed.deposit = @ + deposit, !.feed.prepaid = @ + funding,
                              !.held.deposits = @ + deposit + funding]
<1>1. SameSeating(spent, st) /\ Shaped(spent)
  BY CreditSpendKeeps, ShapeKept
<1>2. CreditSpendOnFeed(st, acct, deposit, funding) = t
  BY DEF CreditSpendOnFeed
<1> HIDE DEF spent
<1>3. SameSeating(t, spent)
  <2> DEFINE a == spent.feed.deposit + deposit
             b == spent.feed.prepaid + funding
  <2>1. /\ DOMAIN t = Tables /\ t.feed = [spent.feed EXCEPT !.deposit = a, !.prepaid = b]
        /\ t.slots = spent.slots /\ t.slotlog = spent.slotlog /\ t.providers = spent.providers
    BY <1>1 DEF Shaped, Tables
  <2> HIDE DEF t, a, b
  <2>2. DOMAIN spent.feed = FeedFields
    BY <1>1 DEF Shaped
  <2>3. SameStanding(t.feed, spent.feed)
    BY ONLY <2>1, <2>2, DepositMoved
  <2> QED
    BY ONLY <1>1, <2>1, <2>3, StandingKeeps
<1> QED
  BY <1>1, <1>2, <1>3, SeatingChained

-----------------------------------------------------------------------------
(* Records of providers and rounds. *)

LEMMA ProviderAddStakeKeeps ==
  ASSUME NEW st, NEW p \in Providers, NEW amount, Shaped(st)
  PROVE  SameSeating(ProviderAddStake(st, p, amount), st)
BY DEF ProviderAddStake, Inflow, Require, SameSeating, Shaped, Tables, FeedFields, NoFeed, ProviderFields, NoProvider

LEMMA ProviderPayUnbondedKeeps ==
  ASSUME NEW st, NEW p \in Providers, Shaped(st)
  PROVE  SameSeating(ProviderPayUnbonded(st, p), st)
BY DEF ProviderPayUnbonded, Send, Require, SameSeating, Shaped, Tables, FeedFields, NoFeed, ProviderFields, NoProvider

LEMMA RewardPayKeeps ==
  ASSUME NEW st, NEW p \in Providers, Shaped(st)
  PROVE  SameSeating(RewardPay(st, p), st)
BY DEF RewardPay, Send, Require, SameSeating, Shaped, Tables, FeedFields, NoFeed, ProviderFields, NoProvider

LEMMA PutRoundKeeps ==
  ASSUME NEW st, NEW id, NEW rd, Shaped(st)
  PROVE  SameSeating(PutRound(st, id, rd), st)
BY DEF PutRound, SameSeating, Shaped, Tables, FeedFields, NoFeed

LEMMA RoundFinaliseKeeps ==
  ASSUME NEW st, NEW id, NEW status, NEW tier, NEW value, Shaped(st)
  PROVE  SameSeating(RoundFinalise(st, id, status, tier, value), st)
BY PutRoundKeeps DEF RoundFinalise

LEMMA FeedSetValueKeeps ==
  ASSUME NEW st, NEW id, NEW value, NEW tier, Shaped(st)
  PROVE  SameSeating(FeedSetValue(st, id, value, tier), st)
<1> DEFINE t == FeedSetValue(st, id, value, tier)
           f == [st.feed EXCEPT !.haveValue = TRUE, !.lastValue = value, !.lastTier = tier,
                                !.lastRound = id, !.lastFinalAt = now]
<1>1. /\ DOMAIN t = Tables /\ t.feed = f
      /\ t.slots = st.slots /\ t.slotlog = st.slotlog /\ t.providers = st.providers
  BY DEF FeedSetValue, Shaped, Tables
<1>2. /\ DOMAIN f = FeedFields
      /\ f.activeCount = st.feed.activeCount /\ f.status = st.feed.status /\ f.startAt = st.feed.startAt
      /\ f.haveLast = st.feed.haveLast /\ f.lastFinalized = st.feed.lastFinalized
  BY DEF Shaped, FeedFields, NoFeed
<1> HIDE DEF t, f
<1>3. SameSeating(t, st)
  BY <1>1, <1>2 DEF SameSeating, Shaped
<1> QED
  BY <1>3 DEF t

LEMMA SetFinalKeeps ==
  ASSUME NEW st, NEW lf, NEW cursor, Shaped(st)
  PROVE  SameSeating(SetFinal(st, lf, cursor), st)
<1> DEFINE t == SetFinal(st, lf, cursor)
           f == [st.feed EXCEPT !.haveFinal = lf.ok, !.finalValue = lf.value, !.finalRound = lf.round,
                                !.finalAt = lf.at, !.finalCursor = cursor]
<1>1. /\ DOMAIN t = Tables /\ t.feed = f
      /\ t.slots = st.slots /\ t.slotlog = st.slotlog /\ t.providers = st.providers
  BY DEF SetFinal, Shaped, Tables
<1>2. /\ DOMAIN f = FeedFields
      /\ f.activeCount = st.feed.activeCount /\ f.status = st.feed.status /\ f.startAt = st.feed.startAt
      /\ f.haveLast = st.feed.haveLast /\ f.lastFinalized = st.feed.lastFinalized
  BY DEF Shaped, FeedFields, NoFeed
<1> HIDE DEF t, f
<1>3. SameSeating(t, st)
  BY <1>1, <1>2 DEF SameSeating, Shaped
<1> QED
  BY <1>3 DEF t

LEMMA FeedPromoteFinalKeeps ==
  ASSUME NEW st, Shaped(st)
  PROVE  SameSeating(FeedPromoteFinal(st), st)
BY SetFinalKeeps DEF FeedPromoteFinal

LEMMA RoundPayoutKeeps ==
  ASSUME NEW st, NEW eligible, Shaped(st)
  PROVE  SameSeating(RoundPayout(st, eligible), st)
<1> DEFINE n == Cardinality(eligible)
           sh == Shares(st.feed, n)
           t == [st EXCEPT !.feed.pool = @ - sh.drip, !.feed.penaltyCarry = sh.dust,
                           !.providers = [p \in Providers |->
                              IF p \in eligible THEN [st.providers[p] EXCEPT !.rewards = @ + sh.each]
                                                ELSE st.providers[p]],
                           !.held.pools = @ - (sh.each * n + sh.tip), !.held.rewards = @ + sh.each * n]
<1>1. SameSeating(t, st)
  <2> HIDE DEF n, sh
  <2>1. /\ DOMAIN t = Tables
        /\ DOMAIN t.feed = FeedFields
        /\ t.slots = st.slots
        /\ t.slotlog = st.slotlog
        /\ t.feed.activeCount = st.feed.activeCount
        /\ t.feed.status = st.feed.status
        /\ t.feed.startAt = st.feed.startAt
        /\ t.feed.haveLast = st.feed.haveLast
        /\ t.feed.lastFinalized = st.feed.lastFinalized
    <3> DEFINE a == st.feed.pool - sh.drip
    <3>1. /\ DOMAIN t = Tables /\ t.feed = [st.feed EXCEPT !.pool = a, !.penaltyCarry = sh.dust]
          /\ t.slots = st.slots /\ t.slotlog = st.slotlog
      BY DEF Shaped, Tables
    <3> HIDE DEF t, a
    <3>2. SameStanding(t.feed, st.feed)
      BY <3>1, PoolMoved DEF Shaped
    <3> QED
      BY <3>1, <3>2 DEF SameStanding
  <2>2. t.providers = [p \in Providers |->
                         IF p \in eligible THEN [st.providers[p] EXCEPT !.rewards = @ + sh.each]
                                           ELSE st.providers[p]]
    BY DEF Shaped, Tables
  <2> HIDE DEF t
  <2>3. ASSUME NEW p \in Providers
        PROVE  /\ DOMAIN t.providers[p] = ProviderFields
               /\ t.providers[p].status = st.providers[p].status
               /\ t.providers[p].slot = st.providers[p].slot
               /\ t.providers[p].obligedFrom = st.providers[p].obligedFrom
    <3>1. DOMAIN st.providers[p] = ProviderFields
      BY DEF Shaped
    <3> QED
      BY <2>2, <3>1 DEF ProviderFields, NoProvider
  <2> QED
    BY <2>1, <2>2, <2>3 DEF SameSeating
<1>2. SameSeating(Send(t, sh.tip), t)
  BY <1>1, ShapeKept, SendKeeps
<1>3. RoundPayout(st, eligible) = Send(t, sh.tip)
  BY DEF RoundPayout, PayShares
<1> QED
  BY <1>1, <1>2, <1>3, SeatingChained

LEMMA RoundMarkDisputedKeeps ==
  ASSUME NEW st, NEW id, NEW d, Shaped(st)
  PROVE  SameSeating(RoundMarkDisputed(st, id, d), st)
BY DEF RoundMarkDisputed, PutRound, SameSeating, Shaped, Tables, FeedFields, NoFeed

LEMMA RoundOverturnKeeps ==
  ASSUME NEW st, NEW id, NEW value, Shaped(st)
  PROVE  SameSeating(RoundOverturn(st, id, value), st)
BY DEF RoundOverturn, PutRound, SameSeating, Shaped, Tables, FeedFields, NoFeed

LEMMA RoundVoidKeeps ==
  ASSUME NEW st, NEW id, Shaped(st)
  PROVE  SameSeating(RoundVoid(st, id), st)
BY DEF RoundVoid, PutRound, SameSeating, Shaped, Tables, FeedFields, NoFeed

LEMMA RoundRestartWindowKeeps ==
  ASSUME NEW st, NEW id, NEW tier, Shaped(st)
  PROVE  SameSeating(RoundRestartWindow(st, id, tier), st)
BY DEF RoundRestartWindow, PutRound, SameSeating, Shaped, Tables, FeedFields, NoFeed

LEMMA DropRoundsKeeps ==
  ASSUME NEW st, NEW next, Shaped(st)
  PROVE  SameSeating(DropRounds(st, next), st)
BY DEF DropRounds, SameSeating, Shaped, Tables, FeedFields, NoFeed

LEMMA SkipFieldsKeep ==
  ASSUME NEW st, NEW x, Shaped(st)
  PROVE  SameSeating([st EXCEPT !.feed.emptyStreak = x], st)
BY DEF SameSeating, Shaped, Tables, FeedFields, NoFeed

LEMMA EmptyClosedKeeps ==
  ASSUME NEW st, Shaped(st)
  PROVE  SameSeating(EmptyClosed(st), st)
BY DEF EmptyClosed, SameSeating, Shaped, Tables, FeedFields, NoFeed

LEMMA DisputeCountersKeep ==
  ASSUME NEW st, NEW open, NEW inRow, NEW at, Shaped(st)
  PROVE  SameSeating([st EXCEPT !.feed.openDisputes = open, !.feed.disputesInRow = inRow,
                                !.feed.lastDisputeAt = at], st)
<1> DEFINE t == [st EXCEPT !.feed.openDisputes = open, !.feed.disputesInRow = inRow,
                           !.feed.lastDisputeAt = at]
           f == [st.feed EXCEPT !.openDisputes = open, !.disputesInRow = inRow, !.lastDisputeAt = at]
<1>1. /\ DOMAIN t = Tables /\ t.feed = f
      /\ t.slots = st.slots /\ t.slotlog = st.slotlog /\ t.providers = st.providers
  BY DEF Shaped, Tables
<1>2. /\ DOMAIN f = FeedFields
      /\ f.activeCount = st.feed.activeCount /\ f.status = st.feed.status /\ f.startAt = st.feed.startAt
      /\ f.haveLast = st.feed.haveLast /\ f.lastFinalized = st.feed.lastFinalized
  BY DEF Shaped, FeedFields, NoFeed
<1> HIDE DEF t, f
<1>3. SameSeating(t, st)
  BY <1>1, <1>2 DEF SameSeating, Shaped
<1> QED
  BY <1>3 DEF t

LEMMA NewDisputeKeeps ==
  ASSUME NEW st, NEW id, NEW bond, NEW proposed, NEW tier, Shaped(st)
  PROVE  SameSeating(NewDispute(st, id, bond, proposed, tier), st)
BY DEF NewDispute, Inflow, Require, SameSeating, Shaped, Tables, FeedFields, NoFeed

LEMMA ConsumeBondKeeps ==
  ASSUME NEW st, NEW bond, NEW bps, Shaped(st)
  PROVE  SameSeating(ConsumeBond(st, bond, bps), st)
BY FundVotersKeeps, BondToFeesKeeps, BondReleaseKeeps, SeatingChained, ShapeKept DEF ConsumeBond

LEMMA SettleAppealBondKeeps ==
  ASSUME NEW st, NEW d, NEW outcome, Shaped(st)
  PROVE  SameSeating(SettleAppealBond(st, d, outcome), st)
BY BondReleaseKeeps, ConsumeBondKeeps, SeatingSame DEF SettleAppealBond

LEMMA UpholdKeeps ==
  ASSUME NEW st, NEW d, Shaped(st)
  PROVE  SameSeating(Uphold(st, d), st)
BY FundVotersKeeps, BondToPoolKeeps, BondToFeesKeeps, RoundRestartWindowKeeps, SeatingChained, ShapeKept DEF Uphold

LEMMA VoidKeeps ==
  ASSUME NEW st, NEW d, Shaped(st)
  PROVE  SameSeating(Void(st, d), st)
BY ConsumeBondKeeps, RoundVoidKeeps, SeatingChained, ShapeKept DEF Void

LEMMA RequireKeeps ==
  ASSUME NEW st, NEW cond, Shaped(st)
  PROVE  SameSeating(Require(st, cond), st)
BY DEF Require, SameSeating, Shaped, Tables, FeedFields, NoFeed

-----------------------------------------------------------------------------
(* The slot log. *)

LEMMA LeastIn ==
  ASSUME NEW S \in SUBSET Nat, S # {}
  PROVE  Min(S) \in S /\ \A y \in S : Min(S) <= y
<1> DEFINE below == OpToRel(<, Nat)
<1>1. \A y, x \in Nat : y < x => <<y, x>> \in below
  BY Zenon DEF OpToRel
<1>2. IsWellFoundedOn(below, Nat)
  BY NatLessThanWellFounded
<1> HIDE DEF below
<1>3. PICK x \in S : \A y \in S : ~ (<<y, x>> \in below)
  BY <1>2, WFMin
<1>4. ASSUME NEW y \in S
      PROVE  x <= y
  <2>1. x \in Nat /\ y \in Nat
    OBVIOUS
  <2>2. ~ (y < x)
    BY <1>1, <1>3, <2>1, ZenonT(60)
  <2> QED
    BY <2>1, <2>2
<1> QED
  BY <1>4 DEF Min

\* A slot that was ever taken by a round has a latest entry by that round.
LEMMA LatestEntry ==
  ASSUME NEW log, NEW s, NEW id \in Nat, \A e \in log : Entry(e), Upto(log, s, id) # {}
  PROVE  \E e \in Upto(log, s, id) : \A x \in Upto(log, s, id) : x.from <= e.from
<1> DEFINE upto == Upto(log, s, id)
           T == { id - e.from : e \in upto }
<1>1. \A e \in upto : e.from \in Nat /\ e.from <= id
  BY DEF Entry, Upto
<1>2. T \in SUBSET Nat /\ T # {}
  BY <1>1
<1>3. Min(T) \in T /\ \A z \in T : Min(T) <= z
  BY <1>2, LeastIn
<1>4. PICK e \in upto : Min(T) = id - e.from
  BY <1>3
<1>5. \A x \in upto : id - e.from <= id - x.from
  BY <1>3, <1>4
<1> QED
  BY <1>1, <1>5

\* The holder of a slot is named by the latest entry, or the slot was never taken.
LEMMA HolderIsLatest ==
  ASSUME NEW log, NEW s, NEW id \in Nat, \A e \in log : Entry(e)
  PROVE  \/ Upto(log, s, id) = {} /\ SlotHolderAt(log, s, id) = NoOne
         \/ \E e \in Upto(log, s, id) :
              SlotHolderAt(log, s, id) = e.holder /\ \A x \in Upto(log, s, id) : x.from <= e.from
<1> DEFINE upto == Upto(log, s, id)
           latest == CHOOSE e \in upto : \A x \in upto : x.from <= e.from
<1>1. SlotHolderAt(log, s, id) = IF upto = {} THEN NoOne ELSE latest.holder
  BY DEF SlotHolderAt, Upto
<1>2. upto # {} => \E e \in upto : \A x \in upto : x.from <= e.from
  BY LatestEntry
<1> HIDE DEF upto
<1>3. upto # {} => latest \in upto /\ \A x \in upto : x.from <= latest.from
  BY <1>2
<1> HIDE DEF latest
<1> QED
  BY <1>1, <1>3 DEF upto

LEMMA SameUpto ==
  ASSUME NEW log, NEW m, NEW s, NEW i, NEW j, Upto(log, s, i) = Upto(m, s, j)
  PROVE  SlotHolderAt(log, s, i) = SlotHolderAt(m, s, j)
<1> DEFINE Latest(upto) == CHOOSE e \in upto : \A x \in upto : x.from <= e.from
<1>1. \A l, k : SlotHolderAt(l, s, k) = IF Upto(l, s, k) = {} THEN NoOne ELSE Latest(Upto(l, s, k)).holder
  BY DEF SlotHolderAt, Upto
<1> HIDE DEF Latest
<1> QED
  BY <1>1

LEMMA EmptyLog ==
  ASSUME NEW s, NEW id
  PROVE  SlotHolderAt({}, s, id) = NoOne
BY DEF SlotHolderAt

\* Who holds a slot after its last entry goes on holding it.
LEMMA LaterHolder ==
  ASSUME NEW log, NEW s, NEW from \in Nat, NEW id \in Nat, from <= id,
         \A e \in log : Entry(e) /\ (e.slot = s => e.from <= from)
  PROVE  SlotHolderAt(log, s, id) = SlotHolderAt(log, s, from)
<1>1. Upto(log, s, id) = Upto(log, s, from)
  BY DEF Upto, Entry
<1> QED
  BY <1>1, SameUpto

\* What is written at the end of the log of some slots holds from there on.
LEMMA HolderWritten ==
  ASSUME NEW log, NEW C, NEW from \in Nat, NEW h, NEW s, NEW id \in Nat,
         \A e \in log : Entry(e) /\ (e.slot \in C => e.from <= from)
  PROVE  SlotHolderAt(LogSet(log, { LogEntry(x, from, h) : x \in C }), s, id)
           = IF s \in C /\ from <= id THEN h ELSE SlotHolderAt(log, s, id)
<1> DEFINE new == { LogEntry(x, from, h) : x \in C }
           m == LogSet(log, new)
<1>1. \A n \in new : n.slot \in C /\ n.from = from /\ n.holder = h
  BY DEF LogEntry
<1>2. \A x \in C : \E n \in new : n.slot = x /\ n.from = from
  <2> SUFFICES ASSUME NEW x \in C
               PROVE  \E n \in new : n.slot = x /\ n.from = from
    OBVIOUS
  <2>1. LogEntry(x, from, h) \in new
    OBVIOUS
  <2>2. LogEntry(x, from, h).slot = x /\ LogEntry(x, from, h).from = from
    BY DEF LogEntry
  <2> QED
    BY <2>1, <2>2
<1>3. \A e : e \in m <=> (e \in log /\ ~(e.slot \in C /\ e.from = from)) \/ e \in new
  <2> HIDE DEF new
  <2> QED
    BY <1>1, <1>2 DEF LogSet
<1> HIDE DEF new, m
<1>4. CASE s \in C /\ from <= id
  <2> DEFINE upto == Upto(m, s, id)
             latest == CHOOSE e \in upto : \A x \in upto : x.from <= e.from
  <2>1. \A e \in upto : e.from \in Nat /\ e.from <= from /\ (e.from = from => e.holder = h)
    BY <1>1, <1>3, <1>4 DEF Upto, Entry
  <2>2. \E e \in upto : e.from = from
    BY <1>1, <1>2, <1>3, <1>4 DEF Upto
  <2>3. SlotHolderAt(m, s, id) = latest.holder
    BY <2>2 DEF SlotHolderAt, Upto
  <2> HIDE DEF upto
  <2>4. latest \in upto /\ \A x \in upto : x.from <= latest.from
    BY <2>1, <2>2
  <2> HIDE DEF latest
  <2>5. latest.from = from
    BY <2>1, <2>2, <2>4
  <2> QED
    BY <1>4, <2>1, <2>3, <2>4, <2>5 DEF m, new
<1>5. CASE ~(s \in C /\ from <= id)
  <2>1. Upto(m, s, id) = Upto(log, s, id)
    BY <1>1, <1>3, <1>5 DEF Upto, Entry
  <2> QED
    BY <1>5, <2>1, SameUpto DEF m, new
<1> QED
  BY <1>4, <1>5

LEMMA WrittenEntries ==
  ASSUME NEW log, NEW C, NEW from \in Nat, NEW h \in Providers \cup {NoOne}, NEW e,
         e \in LogSet(log, { LogEntry(x, from, h) : x \in C }), \A x \in log : Entry(x)
  PROVE  /\ Entry(e)
         /\ e \in log \/ (e.slot \in C /\ e.from = from)
BY DEF LogSet, LogEntry, Entry

LEMMA LogLater ==
  ASSUME NEW log, NEW seats, NEW ps, NEW first \in Nat, NEW later \in Nat, first <= later,
         LogOf(log, seats, ps, first),
         seats \in [Slots -> Providers \cup {NoOne}], \A p \in Providers : ps[p].obligedFrom \in Nat
  PROVE  LogOf(log, seats, ps, later)
<1>1. \A e \in log : Entry(e) /\ e.from <= later
  BY DEF LogOf, Entry
<1>2. \A s \in Slots : SlotHolderAt(log, s, later) = seats[s]
  BY LaterHolder DEF LogOf
<1>3. \A s \in Slots : seats[s] # NoOne =>
        /\ ps[seats[s]].obligedFrom <= later
        /\ \A e \in log : e.slot = s => e.from <= ps[seats[s]].obligedFrom
  <2>1. \A s \in Slots : seats[s] # NoOne => ps[seats[s]].obligedFrom \in Nat
    OBVIOUS
  <2> QED
    BY <2>1 DEF LogOf
<1> QED
  BY <1>1, <1>2, <1>3 DEF LogOf

\* Slots cleared from a round on that their holders owe.
LEMMA LogCleared ==
  ASSUME NEW log, NEW seats, NEW ps, NEW qs, NEW first \in Nat, NEW from \in Nat, NEW C \in SUBSET Slots,
         LogOf(log, seats, ps, first), from <= first,
         seats \in [Slots -> Providers \cup {NoOne}],
         \A p \in Providers : ps[p].obligedFrom \in Nat /\ qs[p].obligedFrom = ps[p].obligedFrom,
         \A s \in C : seats[s] # NoOne /\ ps[seats[s]].obligedFrom <= from
  PROVE  LogOf(LogSet(log, { LogEntry(s, from, NoOne) : s \in C }),
               [s \in Slots |-> IF s \in C THEN NoOne ELSE seats[s]], qs, first)
<1> DEFINE m == LogSet(log, { LogEntry(s, from, NoOne) : s \in C })
           left == [s \in Slots |-> IF s \in C THEN NoOne ELSE seats[s]]
<1>1. \A e \in log : Entry(e) /\ e.from <= first
  BY DEF LogOf
<1>2. \A s \in Slots : seats[s] # NoOne =>
        /\ ps[seats[s]].obligedFrom \in Nat /\ ps[seats[s]].obligedFrom <= first
        /\ \A e \in log : e.slot = s => e.from <= ps[seats[s]].obligedFrom
        /\ qs[seats[s]].obligedFrom = ps[seats[s]].obligedFrom
  BY DEF LogOf
<1>3. \A e \in log : e.slot \in C => e.from <= from
  BY <1>1, <1>2 DEF Entry
<1>4. \A s \in Slots, id \in Nat :
        SlotHolderAt(m, s, id) = IF s \in C /\ from <= id THEN NoOne ELSE SlotHolderAt(log, s, id)
  BY <1>1, <1>3, HolderWritten
<1>5. \A e \in m : Entry(e) /\ (e \in log \/ (e.slot \in C /\ e.from = from))
  BY <1>1, WrittenEntries
<1> HIDE DEF m
<1>6. \A e \in m : Entry(e) /\ e.from <= first
  BY <1>1, <1>5
<1>7. \A s \in Slots : SlotHolderAt(m, s, first) = left[s]
  BY <1>4 DEF LogOf
<1>8. \A s \in Slots : left[s] # NoOne =>
        /\ qs[left[s]].obligedFrom <= first
        /\ \A e \in m : e.slot = s => e.from <= qs[left[s]].obligedFrom
  BY <1>2, <1>5
<1>9. Apart(m)
  BY <1>4 DEF LogOf, Apart
<1>10. LogOf(m, left, qs, first)
  BY <1>6, <1>7, <1>8, <1>9 DEF LogOf
<1> QED
  BY <1>10 DEF m

\* A free slot taken from the first round on that is owed next, by a provider that has none.
LEMMA LogAssigned ==
  ASSUME NEW log, NEW seats, NEW ps, NEW qs, NEW first \in Nat, NEW p \in Providers, NEW s \in Slots,
         LogOf(log, seats, ps, first),
         seats \in [Slots -> Providers \cup {NoOne}],
         \A q \in Providers : ps[q].obligedFrom \in Nat,
         \A q \in Providers \ {p} : qs[q].obligedFrom = ps[q].obligedFrom,
         qs[p].obligedFrom = first,
         \A x \in Slots : seats[x] # p
  PROVE  LogOf(LogSet(log, {LogEntry(s, first, p)}), [seats EXCEPT ![s] = p], qs, first)
<1> DEFINE C == {s}
           m == LogSet(log, { LogEntry(x, first, p) : x \in C })
           taken == [seats EXCEPT ![s] = p]
<1>1. \A e \in log : Entry(e) /\ e.from <= first
  BY DEF LogOf
<1>2. \A x \in Slots, id \in Nat :
        SlotHolderAt(m, x, id) = IF x \in C /\ first <= id THEN p ELSE SlotHolderAt(log, x, id)
  <2> HIDE DEF C
  <2> QED
    BY <1>1, HolderWritten
<1>3. \A e \in m : Entry(e) /\ (e \in log \/ (e.slot \in C /\ e.from = first))
  <2> HIDE DEF C
  <2> QED
    BY <1>1, WrittenEntries
<1>4. m = LogSet(log, {LogEntry(s, first, p)})
  <2>1. { LogEntry(x, first, p) : x \in C } = {LogEntry(s, first, p)}
    OBVIOUS
  <2> QED
    BY <2>1
<1> HIDE DEF m
<1>5. \A e \in m : Entry(e) /\ e.from <= first
  BY <1>1, <1>3
<1>6. \A x \in Slots : SlotHolderAt(m, x, first) = taken[x]
  BY <1>2 DEF LogOf
<1>7. \A x \in Slots : taken[x] # NoOne =>
        /\ qs[taken[x]].obligedFrom <= first
        /\ \A e \in m : e.slot = x => e.from <= qs[taken[x]].obligedFrom
  <2> SUFFICES ASSUME NEW x \in Slots, taken[x] # NoOne
               PROVE  /\ qs[taken[x]].obligedFrom <= first
                      /\ \A e \in m : e.slot = x => e.from <= qs[taken[x]].obligedFrom
    OBVIOUS
  <2>1. CASE x = s
    <3>1. taken[x] = p
      BY <2>1
    <3> QED
      BY <1>5, <3>1
  <2>2. CASE x # s
    <3>1. taken[x] = seats[x] /\ seats[x] \in Providers \ {p}
      BY <2>2
    <3>2. qs[seats[x]].obligedFrom = ps[seats[x]].obligedFrom
      BY <3>1
    <3>3. \A e \in m : e.slot = x => e \in log
      BY <1>3, <2>2
    <3> QED
      BY <3>1, <3>2, <3>3 DEF LogOf
  <2> QED
    BY <2>1, <2>2
<1>8. Apart(m)
  <2> SUFFICES ASSUME NEW id \in Nat, NEW x \in Slots, NEW y \in Slots,
                      SlotHolderAt(m, x, id) # NoOne, SlotHolderAt(m, x, id) = SlotHolderAt(m, y, id)
               PROVE  x = y
    BY DEF Apart
  <2>1. CASE first <= id
    <3>1. \A z \in Slots : SlotHolderAt(log, z, id) # p
      BY <1>1, <2>1, LaterHolder DEF LogOf
    <3> QED
      BY <1>2, <2>1, <3>1 DEF LogOf, Apart
  <2>2. CASE ~(first <= id)
    BY <1>2, <2>2 DEF LogOf, Apart
  <2> QED
    BY <2>1, <2>2
<1>9. LogOf(m, taken, qs, first)
  BY <1>5, <1>6, <1>7, <1>8 DEF LogOf
<1> QED
  BY <1>4, <1>9

\* The log that begins with who sits now.
LEMMA LogBegun ==
  ASSUME NEW seats, NEW qs, NEW first \in Nat,
         seats \in [Slots -> Providers \cup {NoOne}],
         \A s, t \in Slots : seats[s] # NoOne /\ seats[s] = seats[t] => s = t,
         \A s \in Slots : seats[s] # NoOne => qs[seats[s]].obligedFrom = 0
  PROVE  LogOf({ LogEntry(s, 0, seats[s]) : s \in { x \in Slots : seats[x] # NoOne } }, seats, qs, first)
<1> DEFINE taken == { x \in Slots : seats[x] # NoOne }
           log == { LogEntry(s, 0, seats[s]) : s \in taken }
<1>1. \A e \in log : Entry(e) /\ e.from = 0 /\ e.slot \in taken /\ e.holder = seats[e.slot]
  BY DEF Entry, LogEntry
<1>2. \A s \in taken : \E e \in log : e.slot = s
  <2> SUFFICES ASSUME NEW s \in taken
               PROVE  \E e \in log : e.slot = s
    OBVIOUS
  <2>1. LogEntry(s, 0, seats[s]) \in log /\ LogEntry(s, 0, seats[s]).slot = s
    BY DEF LogEntry
  <2> QED
    BY <2>1
<1> HIDE DEF log
<1>3. \A s \in Slots, id \in Nat : SlotHolderAt(log, s, id) = seats[s]
  <2> SUFFICES ASSUME NEW s \in Slots, NEW id \in Nat
               PROVE  SlotHolderAt(log, s, id) = seats[s]
    OBVIOUS
  <2>1. CASE s \in taken
    <3>1. Upto(log, s, id) # {}
      BY <1>1, <1>2, <2>1 DEF Upto
    <3> QED
      BY <1>1, <3>1, HolderIsLatest DEF Upto
  <2>2. CASE s \notin taken
    <3>1. Upto(log, s, id) = {}
      BY <1>1, <2>2 DEF Upto
    <3> QED
      BY <1>1, <2>2, <3>1, HolderIsLatest
  <2> QED
    BY <2>1, <2>2
<1>4. Apart(log)
  BY <1>3 DEF Apart
<1>5. LogOf(log, seats, qs, first)
  BY <1>1, <1>3, <1>4 DEF LogOf
<1> QED
  BY <1>5 DEF log

\* The round somebody seated now would owe first is a number, and grows with time.
LEMMA CalendarRound ==
  ASSUME NEW a \in Int, NEW b \in Int, NEW n \in Nat, n >= 1, 0 <= a, a <= b
  PROVE  a \div n \in Nat /\ a \div n <= b \div n
<1>1. a \div n \in Int /\ b \div n \in Int /\ a = n * (a \div n) + (a % n) /\ b = n * (b \div n) + (b % n)
      /\ a % n \in 0 .. (n - 1) /\ b % n \in 0 .. (n - 1)
  OBVIOUS
<1> QED
  BY <1>1

LEMMA ObligedFromNat ==
  ASSUME NEW f, f.startAt \in Nat, now \in Nat
  PROVE  ObligedFrom(f) \in Nat
<1> DEFINE n == Spec0.interval
<1>1. n \in Nat /\ n >= 1
  BY TimesAssumption, ConstantsAssumption
<1>2. CASE Started(Sched(f), now) /\ Recurs
  <2>1. now >= f.startAt /\ Current(Sched(f), now) = (now - f.startAt) \div n
    BY <1>1, <1>2 DEF Started, Sched, Recurring, Current, IsOneOff
  <2> HIDE DEF n
  <2>2. (now - f.startAt) \div n \in Nat
    BY <1>1, <2>1, CalendarRound
  <2> QED
    BY <1>2, <2>1, <2>2 DEF ObligedFrom
<1>3. CASE ~(Started(Sched(f), now) /\ Recurs)
  BY <1>3 DEF ObligedFrom
<1> QED
  BY <1>2, <1>3

LEMMA ObligedGrows ==
  ASSUME feed.startAt \in Nat, now \in Nat, now' = now + 1, feed' = feed
  PROVE  ObligedFrom(feed) <= ObligedFrom(feed)' /\ ObligedFrom(feed)' \in Nat
<1> DEFINE n == Spec0.interval
           start == feed.startAt
<1>1. n \in Nat /\ n >= 1
  BY TimesAssumption, ConstantsAssumption
<1>2. CASE Recurs
  <2>1. /\ ObligedFrom(feed) = IF now >= start THEN (now - start) \div n + 1 ELSE 0
        /\ ObligedFrom(feed)' = IF now + 1 >= start THEN (now + 1 - start) \div n + 1 ELSE 0
    BY <1>1, <1>2 DEF ObligedFrom, Started, Sched, Recurring, Current, IsOneOff
  <2> HIDE DEF n, start
  <2>2. start \in Nat
    BY DEF start
  <2>3. now >= start => (now - start) \div n \in Nat /\ (now - start) \div n <= (now + 1 - start) \div n
    BY <1>1, <2>2, CalendarRound
  <2>4. now + 1 >= start => (now + 1 - start) \div n \in Nat
    BY <1>1, <2>2, CalendarRound
  <2> QED
    BY <2>1, <2>2, <2>3, <2>4
<1>3. CASE ~Recurs
  BY <1>3 DEF ObligedFrom, Started, Sched, OneOff
<1> QED
  BY <1>2, <1>3

\* Whoever is seated from now on does not owe a round that has begun.
LEMMA BegunIsOwed ==
  ASSUME NEW f, f.startAt \in Nat, now \in Nat, NEW id \in Nat, Exists(Sched(f), id, now)
  PROVE  id < ObligedFrom(f)
<1> DEFINE n == Spec0.interval
           start == f.startAt
<1>1. n \in Nat /\ n >= 1
  BY TimesAssumption, ConstantsAssumption
<1>2. CASE Recurs
  <2>1. /\ ObligedFrom(f) = IF now >= start THEN (now - start) \div n + 1 ELSE 0
        /\ now >= start + id * n
    BY <1>1, <1>2 DEF ObligedFrom, Started, Sched, Recurring, Current, IsOneOff, Exists, OpenAt
  <2> HIDE DEF n, start
  <2>2. start \in Nat
    BY DEF start
  <2>3. id * n \in Nat /\ id * n <= now - start /\ now >= start
    BY <1>1, <2>1, <2>2
  <2>4. (id * n) \div n <= (now - start) \div n /\ (now - start) \div n \in Nat
    BY <1>1, <2>2, <2>3, CalendarRound
  <2>5. (id * n) \div n = id
    BY <1>1
  <2> QED
    BY <2>1, <2>3, <2>4, <2>5
<1>3. CASE ~Recurs
  BY <1>3 DEF ObligedFrom, Started, Sched, OneOff, Exists, OpenAt, IsOneOff
<1> QED
  BY <1>2, <1>3

-----------------------------------------------------------------------------
(* Seats taken and seats given up. *)

LEMMA OccupiedFinite ==
  ASSUME NEW st
  PROVE  IsFiniteSet(Occupied(st))
BY FS_Subset, ConstantsAssumption DEF Occupied

LEMMA FreeSlotTaken ==
  ASSUME NEW st, FreeSlots(st) # {}
  PROVE  /\ Min(FreeSlots(st)) \in Slots
         /\ st.slots[Min(FreeSlots(st))] = NoOne
         /\ Slots \subseteq Nat
<1>1. Cardinality(Slots) \in Nat
  BY ConstantsAssumption, FS_CardinalityType
<1>2. Slots \subseteq Nat
  BY <1>1, ConstantsAssumption
<1>3. FreeSlots(st) \subseteq Slots
  BY DEF FreeSlots
<1>4. Min(FreeSlots(st)) \in FreeSlots(st)
  BY <1>2, <1>3, LeastIn
<1> QED
  BY <1>2, <1>4 DEF FreeSlots

\* Where a feed is in its calendar.
SameCalendar(f, g) == f.startAt = g.startAt /\ f.haveLast = g.haveLast /\ f.lastFinalized = g.lastFinalized

\* t is st with p, who had no seat, in the free slot s, owing the rounds that are yet to begin.
Seats(t, st, p, s) ==
  /\ DOMAIN t = Tables
  /\ DOMAIN t.feed = FeedFields
  /\ DOMAIN t.providers = Providers
  /\ t.slots = [st.slots EXCEPT ![s] = p]
  /\ t.feed.activeCount = st.feed.activeCount + 1
  /\ t.feed.status = st.feed.status
  /\ SameCalendar(t.feed, st.feed)
  /\ t.slotlog = LogSet(st.slotlog, {LogEntry(s, ObligedFrom(st.feed), p)})
  /\ t.providers[p].status = "active" /\ t.providers[p].slot = s
  /\ t.providers[p].obligedFrom = ObligedFrom(st.feed)
  /\ \A q \in Providers : DOMAIN t.providers[q] = ProviderFields
  /\ \A q \in Providers \ {p} : /\ t.providers[q].status = st.providers[q].status
                                /\ t.providers[q].slot = st.providers[q].slot
                                /\ t.providers[q].obligedFrom = st.providers[q].obligedFrom

\* What is written of the rounds to come leaves the finalised ones alone.
LEMMA WrittenFixed ==
  ASSUME NEW st, NEW t, NEW C, NEW from \in Nat, NEW h, Seated(st), t.feed.startAt = st.feed.startAt,
         t.slotlog = LogSet(st.slotlog, { LogEntry(x, from, h) : x \in C }),
         \A e \in st.slotlog : e.slot \in C => e.from <= from,
         Passing => feed.lastFinalized < from
  PROVE  Fixed(t)
<1>1. \A e \in st.slotlog : Entry(e) /\ (e.slot \in C => e.from <= from)
  BY DEF Seated, Sat, Ordered, LogOf
<1>2. \A s, id : id \in Nat => SlotHolderAt(t.slotlog, s, id)
                                = IF s \in C /\ from <= id THEN h ELSE SlotHolderAt(st.slotlog, s, id)
  BY <1>1, HolderWritten
<1>3. Passing => \A id \in 0 .. feed.lastFinalized : id \in Nat /\ ~(from <= id)
  BY DEF Passing
<1> QED
  BY <1>2, <1>3 DEF Seated, Fixed

LEMMA SeatTaken ==
  ASSUME NEW st, NEW t, NEW p \in Providers, NEW s \in Slots,
         Seated(st), Seats(t, st, p, s),
         st.slots[s] = NoOne, st.providers[p].status # "active", Serving(st.feed)
  PROVE  Seated(t)
<1> DEFINE first == ObligedFrom(st.feed)
<1>0. Sat(st)
  BY DEF Seated
<1>1. Shaped(t)
  BY <1>0 DEF Seats, Sat, Shaped
<1>2. Occupied(t) = Occupied(st) \cup {s} /\ s \notin Occupied(st)
  BY <1>0, ConstantsAssumption DEF Seats, Sat, Shaped, Occupied
<1>3. t.feed.activeCount = Cardinality(Occupied(t))
  <2>1. Cardinality(Occupied(st) \cup {s}) = Cardinality(Occupied(st)) + 1
    BY <1>2, FS_AddElement, OccupiedFinite
  <2>2. t.feed.activeCount = st.feed.activeCount + 1 /\ st.feed.activeCount = Cardinality(Occupied(st))
    BY <1>0 DEF Seats, Sat
  <2> QED
    BY <1>2, <2>1, <2>2
<1>4. Serving(t.feed)
  BY DEF Seats, Serving
<1>5. \A x \in Slots : t.slots[x] # NoOne =>
        t.providers[t.slots[x]].status = "active" /\ t.providers[t.slots[x]].slot = x
  <2> SUFFICES ASSUME NEW x \in Slots, t.slots[x] # NoOne
               PROVE  t.providers[t.slots[x]].status = "active" /\ t.providers[t.slots[x]].slot = x
    OBVIOUS
  <2>1. CASE x = s
    BY <1>0, <2>1 DEF Seats, Sat, Shaped
  <2>2. CASE x # s
    <3>1. t.slots[x] = st.slots[x] /\ st.slots[x] \in Providers
      BY <1>0, <2>2 DEF Seats, Sat, Shaped
    <3>2. st.slots[x] # p
      BY <1>0, <3>1 DEF Sat
    <3> QED
      BY <1>0, <3>1, <3>2 DEF Seats, Sat
  <2> QED
    BY <2>1, <2>2
<1>6. \A q \in Providers :
        IF t.providers[q].status = "active"
        THEN t.providers[q].slot \in Slots /\ t.slots[t.providers[q].slot] = q
        ELSE t.providers[q].slot = NoSlot
  <2> SUFFICES ASSUME NEW q \in Providers
               PROVE  IF t.providers[q].status = "active"
                      THEN t.providers[q].slot \in Slots /\ t.slots[t.providers[q].slot] = q
                      ELSE t.providers[q].slot = NoSlot
    OBVIOUS
  <2>1. CASE q = p
    BY <1>0, <2>1 DEF Seats, Sat, Shaped
  <2>2. CASE q # p
    BY <1>0, <2>2, ConstantsAssumption DEF Seats, Sat, Shaped
  <2> QED
    BY <2>1, <2>2
<1>7. ObligedFrom(t.feed) = first
  BY SameStart DEF Seats, SameCalendar
<1>8. /\ first \in Nat /\ st.feed.status \notin Unborn
      /\ LogOf(st.slotlog, st.slots, st.providers, first)
      /\ st.slots \in [Slots -> Providers \cup {NoOne}]
      /\ \A q \in Providers : st.providers[q].obligedFrom \in Nat
  BY <1>0 DEF Sat, Shaped, Ordered, Serving, Unborn
<1>9. \A x \in Slots : st.slots[x] # p
  BY <1>0, ConstantsAssumption DEF Sat
<1>10. LogOf(t.slotlog, t.slots, t.providers, first)
  <2>1. /\ t.slotlog = LogSet(st.slotlog, {LogEntry(s, first, p)})
        /\ t.slots = [st.slots EXCEPT ![s] = p]
        /\ t.providers[p].obligedFrom = first
        /\ \A q \in Providers \ {p} : t.providers[q].obligedFrom = st.providers[q].obligedFrom
    BY DEF Seats
  <2> HIDE DEF first
  <2> QED
    BY <1>8, <1>9, <2>1, LogAssigned
<1>11. Ordered(t, first)
  BY <1>0, <1>8, <1>10 DEF Sat, Ordered, Seats, SameCalendar
<1>12. Sat(t)
  BY <1>0, <1>1, <1>3, <1>4, <1>5, <1>6, <1>7, <1>11 DEF Sat
<1>13. Fixed(t)
  <2>1. \A e \in st.slotlog : e.slot \in {s} => e.from <= first
    BY <1>8 DEF LogOf
  <2>2. Passing => feed.lastFinalized < first
    <3>1. Passing => first = ObligedFrom(feed)
      BY SameStart DEF Seated, Fixed
    <3> QED
      BY <1>8, <3>1 DEF Passing
  <2>3. t.slotlog = LogSet(st.slotlog, { LogEntry(x, first, p) : x \in {s} })
    <3>1. { LogEntry(x, first, p) : x \in {s} } = {LogEntry(s, first, p)}
      OBVIOUS
    <3> QED
      BY <3>1 DEF Seats
  <2>4. t.feed.startAt = st.feed.startAt
    BY DEF Seats, SameCalendar
  <2> DEFINE C == {s}
  <2> HIDE DEF first, C
  <2> QED
    BY <1>8, <2>1, <2>2, <2>3, <2>4, WrittenFixed DEF C
<1> QED
  BY <1>12, <1>13 DEF Seated

\* t is st with the active providers of gone unseated from round from on; the others that have no
\* seat may have changed their status, but to none that has one.
Unseats(t, st, gone, from) ==
  /\ DOMAIN t = Tables
  /\ DOMAIN t.feed = FeedFields
  /\ DOMAIN t.providers = Providers
  /\ t.slots = [s \in Slots |-> IF st.slots[s] \in gone THEN NoOne ELSE st.slots[s]]
  /\ t.feed.activeCount = st.feed.activeCount - Cardinality({ s \in Slots : st.slots[s] \in gone })
  /\ t.feed.status = st.feed.status
  /\ SameCalendar(t.feed, st.feed)
  /\ t.slotlog = LogSet(st.slotlog, { LogEntry(s, from, NoOne) : s \in { x \in Slots : st.slots[x] \in gone } })
  /\ \A p \in Providers : /\ DOMAIN t.providers[p] = ProviderFields
                          /\ t.providers[p].obligedFrom = st.providers[p].obligedFrom
  /\ \A p \in gone : t.providers[p].status # "active" /\ t.providers[p].slot = NoSlot
  /\ \A p \in Providers \ gone : /\ t.providers[p].slot = st.providers[p].slot
                                 /\ t.providers[p].status = "active" <=> st.providers[p].status = "active"

LEMMA SeatsLeft ==
  ASSUME NEW st, NEW t, NEW gone \in SUBSET Providers, NEW from \in Nat,
         Seated(st), Unseats(t, st, gone, from),
         from <= ObligedFrom(st.feed), Passing => feed.lastFinalized < from,
         \A s \in Slots : st.slots[s] \in gone => st.providers[st.slots[s]].obligedFrom <= from
  PROVE  Seated(t)
<1> DEFINE first == ObligedFrom(st.feed)
           cleared == { s \in Slots : st.slots[s] \in gone }
<1>0. Sat(st)
  BY DEF Seated
<1>1. NoOne \notin gone
  BY ConstantsAssumption
<1>2. Shaped(t)
  <2>1. t.slots \in [Slots -> Providers \cup {NoOne}]
    BY <1>0 DEF Unseats, Sat, Shaped
  <2> QED
    BY <2>1 DEF Unseats, Shaped
<1>3. Occupied(t) = Occupied(st) \ cleared /\ Occupied(st) \cap cleared = cleared
  BY <1>1 DEF Unseats, Occupied
<1>4. t.feed.activeCount = Cardinality(Occupied(t))
  <2>1. Cardinality(Occupied(st) \ cleared) = Cardinality(Occupied(st)) - Cardinality(Occupied(st) \cap cleared)
    BY OccupiedFinite, FS_Difference
  <2>2. t.feed.activeCount = st.feed.activeCount - Cardinality(cleared)
    BY DEF Unseats
  <2> QED
    BY <1>0, <1>3, <2>1, <2>2 DEF Sat
<1>5. ~Serving(t.feed) => Occupied(t) = {}
  BY <1>0, <1>3 DEF Unseats, Sat, Serving
<1>6. \A s \in Slots : t.slots[s] # NoOne =>
        t.providers[t.slots[s]].status = "active" /\ t.providers[t.slots[s]].slot = s
  <2> SUFFICES ASSUME NEW s \in Slots, t.slots[s] # NoOne
               PROVE  t.providers[t.slots[s]].status = "active" /\ t.providers[t.slots[s]].slot = s
    OBVIOUS
  <2>1. t.slots[s] = st.slots[s] /\ st.slots[s] \in Providers \ gone
    BY <1>0 DEF Unseats, Sat, Shaped
  <2> QED
    BY <1>0, <2>1 DEF Unseats, Sat
<1>7. \A p \in Providers :
        IF t.providers[p].status = "active"
        THEN t.providers[p].slot \in Slots /\ t.slots[t.providers[p].slot] = p
        ELSE t.providers[p].slot = NoSlot
  <2> SUFFICES ASSUME NEW p \in Providers
               PROVE  IF t.providers[p].status = "active"
                      THEN t.providers[p].slot \in Slots /\ t.slots[t.providers[p].slot] = p
                      ELSE t.providers[p].slot = NoSlot
    OBVIOUS
  <2>1. CASE p \in gone
    BY <2>1 DEF Unseats
  <2>2. CASE p \notin gone
    BY <1>0, <2>2 DEF Unseats, Sat
  <2> QED
    BY <2>1, <2>2
<1>8. ObligedFrom(t.feed) = first
  BY SameStart DEF Unseats, SameCalendar
<1>9. /\ first \in Nat
      /\ LogOf(st.slotlog, st.slots, st.providers, first)
      /\ st.slots \in [Slots -> Providers \cup {NoOne}]
      /\ \A p \in Providers : /\ st.providers[p].obligedFrom \in Nat
                              /\ t.providers[p].obligedFrom = st.providers[p].obligedFrom
  BY <1>0 DEF Sat, Shaped, Ordered, Unseats
<1>10. \A s \in cleared : st.slots[s] # NoOne /\ st.providers[st.slots[s]].obligedFrom <= from
  BY <1>1
<1>11. /\ t.slotlog = LogSet(st.slotlog, { LogEntry(s, from, NoOne) : s \in cleared })
       /\ t.slots = [s \in Slots |-> IF s \in cleared THEN NoOne ELSE st.slots[s]]
  BY DEF Unseats
<1>12. t.feed.status \in Unborn => t.slotlog = {}
  <2>1. t.feed.status \in Unborn => st.slotlog = {} /\ Occupied(st) = {}
    BY <1>0 DEF Sat, Ordered, Unseats, Serving, Unborn
  <2>2. Occupied(st) = {} => cleared = {}
    BY <1>3
  <2> QED
    BY <1>11, <2>1, <2>2 DEF LogSet
<1>13. cleared \subseteq Slots
  OBVIOUS
<1> HIDE DEF cleared, first
<1>14. LogOf(t.slotlog, t.slots, t.providers, first)
  <2>1. from <= first
    BY DEF first
  <2> QED
    BY <1>9, <1>10, <1>11, <1>13, <2>1, LogCleared
<1>15. Ordered(t, first)
  BY <1>0, <1>9, <1>12, <1>14 DEF Sat, Ordered, Unseats, SameCalendar, first
<1>16. Sat(t)
  BY <1>0, <1>2, <1>4, <1>5, <1>6, <1>7, <1>8, <1>15 DEF Sat
<1>17. Fixed(t)
  <2>1. \A s \in Slots : st.slots[s] # NoOne =>
          \A e \in st.slotlog : Entry(e) /\ (e.slot = s => e.from <= st.providers[st.slots[s]].obligedFrom)
    BY <1>9 DEF LogOf
  <2>2. \A s \in cleared : st.slots[s] \in Providers
    BY <1>9, <1>10, <1>13
  <2>3. \A e \in st.slotlog : e.slot \in cleared => e.from <= from
    BY <1>9, <1>10, <1>13, <2>1, <2>2 DEF Entry
  <2>4. t.feed.startAt = st.feed.startAt
    BY DEF Unseats, SameCalendar
  <2>5. t.slotlog = LogSet(st.slotlog, { LogEntry(x, from, NoOne) : x \in cleared })
    BY <1>11
  <2>6. Passing => feed.lastFinalized < from
    OBVIOUS
  <2> HIDE DEF cleared
  <2> QED
    BY <2>3, <2>4, <2>5, <2>6, WrittenFixed
<1> QED
  BY <1>16, <1>17 DEF Seated

\* The seats, and their log, when the slots cleared are left.
SeatsWithout(seats, cleared) == [s \in Slots |-> IF s \in cleared THEN NoOne ELSE seats[s]]

Vacated(log, cleared, from) == LogSet(log, { LogEntry(s, from, NoOne) : s \in cleared })

LEMMA SlotsCleared ==
  ASSUME NEW st, NEW t, NEW cleared, NEW from, Shaped(st), t = FeedClearSlots(st, cleared, from)
  PROVE  /\ DOMAIN t = Tables
         /\ DOMAIN t.feed = FeedFields
         /\ t.providers = st.providers
         /\ t.slots = SeatsWithout(st.slots, cleared)
         /\ t.slotlog = Vacated(st.slotlog, cleared, from)
         /\ t.feed.activeCount = st.feed.activeCount - Cardinality(cleared)
         /\ t.feed.status = st.feed.status
         /\ SameCalendar(t.feed, st.feed)
<1> DEFINE f == [st.feed EXCEPT !.activeCount = @ - Cardinality(cleared)]
<1>1. /\ DOMAIN t = Tables
      /\ t.feed = f
      /\ t.providers = st.providers
      /\ t.slots = [s \in Slots |-> IF s \in cleared THEN NoOne ELSE st.slots[s]]
      /\ t.slotlog = LogSet(st.slotlog, { LogEntry(s, from, NoOne) : s \in cleared })
  BY DEF FeedClearSlots, Require, Shaped, Tables
<1>2. /\ DOMAIN f = FeedFields
      /\ f.activeCount = st.feed.activeCount - Cardinality(cleared)
      /\ f.status = st.feed.status
      /\ SameCalendar(f, st.feed)
  BY DEF SameCalendar, Shaped, FeedFields, NoFeed
<1> HIDE DEF f
<1>3. /\ DOMAIN t.feed = FeedFields
      /\ t.feed.activeCount = st.feed.activeCount - Cardinality(cleared)
      /\ t.feed.status = st.feed.status
      /\ SameCalendar(t.feed, st.feed)
  BY <1>1, <1>2
<1> QED
  BY <1>1, <1>3 DEF SeatsWithout, Vacated

LEMMA StatusSet ==
  ASSUME NEW st, NEW status, Seated(st),
         status \in {"active", "unfunded"} \/ Occupied(st) = {},
         status \in Unborn => st.feed.status \in Unborn
  PROVE  Seated(FeedSetStatus(st, status))
<1> DEFINE t == FeedSetStatus(st, status)
<1>1. /\ DOMAIN t = Tables
      /\ DOMAIN t.feed = FeedFields
      /\ t.slots = st.slots
      /\ t.slotlog = st.slotlog
      /\ t.providers = st.providers
      /\ t.feed.activeCount = st.feed.activeCount
      /\ t.feed.status = status
      /\ SameCalendar(t.feed, st.feed)
  BY DEF FeedSetStatus, SameCalendar, Seated, Sat, Shaped, Tables, FeedFields, NoFeed
<1> HIDE DEF t
<1>2. Shaped(t)
  BY <1>1 DEF Seated, Sat, Shaped
<1>3. Occupied(t) = Occupied(st)
  BY <1>1 DEF Occupied
<1>4. ~Serving(t.feed) => Occupied(t) = {}
  BY <1>1, <1>3 DEF Serving
<1>5. ObligedFrom(t.feed) = ObligedFrom(st.feed)
  BY <1>1, SameStart DEF SameCalendar
<1>6. Ordered(t, ObligedFrom(st.feed))
  BY <1>1 DEF Seated, Sat, Ordered, SameCalendar
<1>7. Sat(t)
  BY <1>1, <1>2, <1>3, <1>4, <1>5, <1>6 DEF Seated, Sat
<1>8. Fixed(t)
  BY <1>1 DEF Seated, Fixed, SameCalendar
<1>9. Seated(t)
  BY <1>7, <1>8 DEF Seated
<1> QED
  BY <1>9 DEF t

\* The slots of record of active providers are the slots they sit in.
LEMMA SeatsOfRecord ==
  ASSUME NEW st, NEW who \in SUBSET Providers, Seated(st)
  PROVE  { st.providers[p].slot : p \in { q \in who : st.providers[q].status = "active" } }
           = { s \in Slots : st.slots[s] \in who }
<1> DEFINE ofRecord == { st.providers[p].slot : p \in { q \in who : st.providers[q].status = "active" } }
           sat == { s \in Slots : st.slots[s] \in who }
<1>1. ASSUME NEW s \in ofRecord PROVE s \in sat
  <2>1. PICK p \in who : st.providers[p].status = "active" /\ s = st.providers[p].slot
    OBVIOUS
  <2> QED
    BY <2>1 DEF Seated, Sat
<1>2. ASSUME NEW s \in sat PROVE s \in ofRecord
  <2>1. st.slots[s] \in who /\ st.slots[s] # NoOne
    BY ConstantsAssumption
  <2>2. st.providers[st.slots[s]].status = "active" /\ st.providers[st.slots[s]].slot = s
    BY <2>1 DEF Seated, Sat
  <2> QED
    BY <2>1, <2>2
<1> QED
  BY <1>1, <1>2

LEMMA UnbondingStarted ==
  ASSUME NEW st, NEW who, NEW readyAt, DOMAIN st = Tables, DOMAIN st.feed = FeedFields
  PROVE  LET t == ProviderStartUnbond(st, who, readyAt) IN
         /\ DOMAIN t = Tables
         /\ t.feed = st.feed
         /\ t.slots = st.slots
         /\ t.slotlog = st.slotlog
         /\ t.providers = [p \in Providers |-> IF p \in who THEN Unbonding(st.providers[p], readyAt)
                                                            ELSE st.providers[p]]
BY DEF ProviderStartUnbond, Tables

LEMMA UnbondingUnseated ==
  ASSUME NEW pr, NEW readyAt, DOMAIN pr = ProviderFields
  PROVE  /\ DOMAIN Unbonding(pr, readyAt) = ProviderFields
         /\ Unbonding(pr, readyAt).status = "unbonding"
         /\ Unbonding(pr, readyAt).slot = NoSlot
         /\ Unbonding(pr, readyAt).obligedFrom = pr.obligedFrom
BY DEF Unbonding, ProviderFields, NoProvider

\* The slots the providers of who sit in.
SeatsOf(st, who) == { s \in Slots : st.slots[s] \in who }

LEMMA ClearedAndGone ==
  ASSUME NEW st, NEW who \in SUBSET Providers, NEW cleared, NEW from, NEW readyAt, NEW emptied, NEW t,
         Shaped(st), cleared = SeatsOf(st, who),
         emptied = FeedClearSlots(st, cleared, from), t = ProviderStartUnbond(emptied, who, readyAt)
  PROVE  Unseats(t, st, who, from)
<1>1. /\ DOMAIN emptied = Tables
      /\ DOMAIN emptied.feed = FeedFields
      /\ emptied.providers = st.providers
      /\ emptied.slots = SeatsWithout(st.slots, cleared)
      /\ emptied.feed.activeCount = st.feed.activeCount - Cardinality(cleared)
      /\ emptied.feed.status = st.feed.status
      /\ SameCalendar(emptied.feed, st.feed)
      /\ emptied.slotlog = Vacated(st.slotlog, cleared, from)
  BY SlotsCleared
<1>2. /\ DOMAIN t = Tables
      /\ t.feed = emptied.feed
      /\ t.slots = emptied.slots
      /\ t.slotlog = emptied.slotlog
      /\ t.providers = [p \in Providers |-> IF p \in who THEN Unbonding(emptied.providers[p], readyAt)
                                                         ELSE emptied.providers[p]]
  BY <1>1, UnbondingStarted
<1>3. \A p \in Providers : /\ DOMAIN t.providers[p] = ProviderFields
                           /\ t.providers[p].obligedFrom = st.providers[p].obligedFrom
  BY <1>1, <1>2, UnbondingUnseated DEF Shaped
<1>4. \A p \in who : t.providers[p].status # "active" /\ t.providers[p].slot = NoSlot
  BY <1>1, <1>2, UnbondingUnseated DEF Shaped
<1>5. \A p \in Providers \ who : t.providers[p] = st.providers[p]
  BY <1>1, <1>2
<1>6. DOMAIN t.providers = Providers
  BY <1>2
<1>7. /\ t.slots = [s \in Slots |-> IF st.slots[s] \in who THEN NoOne ELSE st.slots[s]]
      /\ t.slotlog = LogSet(st.slotlog, { LogEntry(s, from, NoOne) : s \in { x \in Slots : st.slots[x] \in who } })
  BY <1>1, <1>2 DEF SeatsWithout, Vacated, SeatsOf
<1> QED
  BY <1>1, <1>2, <1>3, <1>4, <1>5, <1>6, <1>7 DEF Unseats, SeatsOf

LEMMA LeaveUnseats ==
  ASSUME NEW st, NEW who \in SUBSET Providers, Seated(st)
  PROVE  Unseats(Leave(st, who), st, who, ObligedFrom(st.feed))
<1> DEFINE cleared == { st.providers[p].slot : p \in { q \in who : st.providers[q].status = "active" } }
           from == ObligedFrom(st.feed)
           readyAt == now + Param.unbondPeriod
           emptied == FeedClearSlots(st, cleared, from)
           t == ProviderStartUnbond(emptied, who, readyAt)
<1>1. cleared = SeatsOf(st, who)
  BY SeatsOfRecord DEF SeatsOf
<1>2. Leave(st, who) = t
  BY DEF Leave
<1>3. Shaped(st)
  BY SeatedShaped
<1> HIDE DEF cleared, from, readyAt, emptied, t
<1>4. emptied = FeedClearSlots(st, cleared, from) /\ t = ProviderStartUnbond(emptied, who, readyAt)
  BY DEF emptied, t
<1>5. Unseats(t, st, who, from)
  BY <1>1, <1>3, <1>4, ClearedAndGone
<1> QED
  BY <1>2, <1>5 DEF from

\* Whoever leaves from the first round that is yet to begin leaves a sound seating.
LEMMA SeatsLeftNow ==
  ASSUME NEW st, NEW t, NEW gone \in SUBSET Providers, Seated(st), Unseats(t, st, gone, ObligedFrom(st.feed))
  PROVE  Seated(t)
<1> DEFINE from == ObligedFrom(st.feed)
<1>1. /\ from \in Nat /\ st.slots \in [Slots -> Providers \cup {NoOne}]
      /\ LogOf(st.slotlog, st.slots, st.providers, from)
  BY DEF Seated, Sat, Shaped, Ordered
<1>2. Passing => feed.lastFinalized < from
  <2>1. Passing => from = ObligedFrom(feed)
    BY SameStart DEF Seated, Fixed
  <2> QED
    BY <1>1, <2>1 DEF Passing
<1>3. Unseats(t, st, gone, from)
  OBVIOUS
<1> HIDE DEF from
<1>4. \A s \in Slots : st.slots[s] \in gone => st.providers[st.slots[s]].obligedFrom <= from
  BY <1>1, ConstantsAssumption DEF LogOf
<1>5. from <= ObligedFrom(st.feed)
  BY <1>1 DEF from
<1> QED
  BY <1>1, <1>2, <1>3, <1>4, <1>5, SeatsLeft

LEMMA LeaveKeepsSeats ==
  ASSUME NEW st, NEW who \in SUBSET Providers, Seated(st)
  PROVE  Seated(Leave(st, who))
<1>1. Unseats(Leave(st, who), st, who, ObligedFrom(st.feed))
  BY LeaveUnseats
<1> QED
  BY <1>1, SeatsLeftNow

LEMMA RetireKeepsSeats ==
  ASSUME NEW st, Seated(st)
  PROVE  Seated(Retire(st))
<1> DEFINE who == { p \in Providers : st.providers[p].status \in {"active", "jailed"} }
           t == Leave(st, who)
<1>1. Unseats(t, st, who, ObligedFrom(st.feed)) /\ Seated(t)
  BY LeaveUnseats, LeaveKeepsSeats
<1>2. \A s \in Slots : st.slots[s] # NoOne => st.slots[s] \in who
  BY DEF Seated, Sat, Shaped
<1> HIDE DEF who, t
<1>3. Occupied(t) = {}
  BY <1>1, <1>2 DEF Unseats, Occupied
<1>4. Seated(FeedSetStatus(t, "deprecated"))
  BY <1>1, <1>3, StatusSet DEF Unborn
<1> QED
  BY <1>4 DEF Retire, who, t

LEMMA AfterEmptyKeepsSeats ==
  ASSUME NEW st, Seated(st)
  PROVE  Seated(AfterEmpty(st))
<1>1. Seated(FeedPoolToFees(st))
  BY FeedPoolToFeesKeeps, SeatingKept, SeatedShaped
<1> QED
  BY <1>1, RetireKeepsSeats DEF AfterEmpty

LEMMA FundingStatusKeepsSeats ==
  ASSUME NEW st, Seated(st)
  PROVE  Seated(FundingStatus(st))
BY StatusSet DEF FundingStatus, Unborn

LEMMA CursorSet ==
  ASSUME NEW st, NEW id, Seated(st), Due(st, id)
  PROVE  Seated(FeedSetCursor(st, id))
<1> DEFINE t == FeedSetCursor(st, id)
<1>1. /\ DOMAIN t = Tables
      /\ DOMAIN t.feed = FeedFields
      /\ t.slots = st.slots
      /\ t.slotlog = st.slotlog
      /\ t.providers = st.providers
      /\ t.feed.activeCount = st.feed.activeCount
      /\ t.feed.status = st.feed.status
      /\ t.feed.startAt = st.feed.startAt
      /\ t.feed.lastFinalized = id
  BY DEF FeedSetCursor, Seated, Sat, Shaped, Tables, FeedFields, NoFeed
<1> HIDE DEF t
<1>2. Shaped(t) /\ Occupied(t) = Occupied(st)
  BY <1>1 DEF Seated, Sat, Shaped, Occupied
<1>3. ObligedFrom(t.feed) = ObligedFrom(st.feed)
  BY <1>1, SameStart
<1>4. Ordered(t, ObligedFrom(st.feed))
  BY <1>1 DEF Seated, Sat, Ordered, Due
<1>5. Sat(t)
  BY <1>1, <1>2, <1>3, <1>4 DEF Seated, Sat, Serving
<1>6. Fixed(t)
  BY <1>1 DEF Seated, Fixed
<1>7. Seated(t)
  BY <1>5, <1>6 DEF Seated
<1> QED
  BY <1>7 DEF t

LEMMA SkipKeepsSeats ==
  ASSUME NEW st, NEW id, Seated(st), Due(st, id)
  PROVE  Seated(Skip(st, id))
<1> DEFINE t == RoundFinalise(st, id, "skipped", "", 0)
           u == FeedSetCursor(t, id)
<1>1. SameSeating(t, st)
  BY RoundFinaliseKeeps, SeatedShaped
<1>2. Skip(st, id) = AfterEmpty(EmptyClosed(u))
  BY DEF Skip
<1> HIDE DEF t
<1>3. Seated(u)
  BY <1>1, SeatingKept, DueKept, CursorSet
<1> HIDE DEF u
<1>4. Seated(EmptyClosed(u))
  BY <1>3, EmptyClosedKeeps, SeatingKept, SeatedShaped
<1> QED
  BY <1>2, <1>4, AfterEmptyKeepsSeats

-----------------------------------------------------------------------------
(* The judgement of a round. *)

\* What one round does to a holder's record, short of a jailing, leaves its seat alone.
LEMMA JudgeKeepsSeat ==
  ASSUME NEW pr, NEW id, NEW submitted, NEW outlier, NEW funded, DOMAIN pr = ProviderFields
  PROVE  LET rec == Judge(pr, id, submitted, outlier, funded).rec IN
         /\ DOMAIN rec = ProviderFields
         /\ rec.status = pr.status
         /\ rec.slot = pr.slot
         /\ rec.obligedFrom = pr.obligedFrom
<1>1. /\ DOMAIN Strike(pr, id, outlier) = ProviderFields
      /\ Strike(pr, id, outlier).status = pr.status
      /\ Strike(pr, id, outlier).slot = pr.slot
      /\ Strike(pr, id, outlier).obligedFrom = pr.obligedFrom
  BY DEF Strike, ProviderFields, NoProvider
<1>2. ASSUME NEW m, DOMAIN m = ProviderFields, m.status = pr.status, m.slot = pr.slot,
             m.obligedFrom = pr.obligedFrom
      PROVE  /\ DOMAIN MissSlash(m).rec = ProviderFields
             /\ MissSlash(m).rec.status = pr.status
             /\ MissSlash(m).rec.slot = pr.slot
             /\ MissSlash(m).rec.obligedFrom = pr.obligedFrom
  <2> DEFINE e == IF EpochTurned(m)
                  THEN [m EXCEPT !.epochStart = now, !.missSlashedEpoch = 0, !.minorsEpoch = 0] ELSE m
  <2>1. DOMAIN e = ProviderFields /\ e.status = pr.status /\ e.slot = pr.slot /\ e.obligedFrom = pr.obligedFrom
    BY <1>2 DEF ProviderFields, NoProvider
  <2> HIDE DEF e
  <2> DEFINE amount == MissAmount(e.stake + e.missSlashedEpoch, e.missSlashedEpoch)
             taken == TakenFrom(e, amount)
             cut == [e EXCEPT !.stake = @ - taken.stake, !.unbondAmount = @ - taken.unbond,
                              !.missSlashedEpoch = @ + amount]
  <2>2. MissSlash(m).rec \in {e, cut}
    BY DEF MissSlash, e
  <2> HIDE DEF amount, taken
  <2>3. DOMAIN cut = ProviderFields /\ cut.status = pr.status /\ cut.slot = pr.slot /\ cut.obligedFrom = pr.obligedFrom
    BY <2>1 DEF ProviderFields, NoProvider
  <2> QED
    BY <2>1, <2>2, <2>3
<1> DEFINE missed == [pr EXCEPT !.consecutiveMisses = @ + 1]
<1>3. DOMAIN missed = ProviderFields /\ missed.status = pr.status /\ missed.slot = pr.slot /\ missed.obligedFrom = pr.obligedFrom
  BY DEF ProviderFields, NoProvider
<1> HIDE DEF missed
<1>4. Judge(pr, id, submitted, outlier, funded).rec
        \in {Strike(pr, id, outlier), MissSlash(missed).rec, missed}
  BY DEF Judge, missed
<1> QED
  BY <1>1, <1>2, <1>3, <1>4

LEMMA JailedUnseated ==
  ASSUME NEW pr, DOMAIN pr = ProviderFields
  PROVE  /\ DOMAIN Jailed(pr) = ProviderFields
         /\ Jailed(pr).status # "active"
         /\ Jailed(pr).slot = NoSlot
         /\ Jailed(pr).obligedFrom = pr.obligedFrom
<1> DEFINE reset == now - pr.jailingsSince >= JailingsWindow
           count == IF reset THEN 1 ELSE pr.jailings + 1
           j == [pr EXCEPT !.status = "jailed", !.slot = NoSlot, !.jailedAt = now, !.jailings = count,
                           !.jailingsSince = IF reset THEN now ELSE @]
<1>1. Jailed(pr) \in {j, Unbonding(j, now + Param.unbondPeriod)}
  BY DEF Jailed
<1> HIDE DEF reset, count
<1>2. DOMAIN j = ProviderFields /\ j.status = "jailed" /\ j.slot = NoSlot /\ j.obligedFrom = pr.obligedFrom
  BY DEF ProviderFields, NoProvider
<1> HIDE DEF j
<1> QED
  BY <1>1, <1>2, UnbondingUnseated

LEMMA JailedSat ==
  ASSUME NEW j, NEW seated, NEW submitted, Sentenced(j, seated, submitted).jailed
  PROVE  seated
BY DEF Sentenced, Sentence

LEMMA SentencedRecord ==
  ASSUME NEW j, NEW seated, NEW submitted, NEW v, DOMAIN j.rec = ProviderFields,
         v = Sentenced(j, seated, submitted)
  PROVE  /\ DOMAIN v.rec = ProviderFields
         /\ v.rec.obligedFrom = j.rec.obligedFrom
         /\ v.jailed => v.rec.status # "active" /\ v.rec.slot = NoSlot
         /\ ~v.jailed => v.rec.status = j.rec.status /\ v.rec.slot = j.rec.slot
<1> DEFINE leaves == seated /\ IsJailed(j.rec, submitted)
<1>1. v.rec = (IF ~leaves THEN j.rec ELSE Jailed(j.rec)) /\ v.jailed = ~~leaves
  BY DEF Sentenced, Sentence
<1>2. (v.rec = Jailed(j.rec) /\ v.jailed = TRUE) \/ (v.rec = j.rec /\ v.jailed = FALSE)
  <2>1. CASE leaves
    BY <1>1, <2>1
  <2>2. CASE ~leaves
    BY <1>1, <2>2
  <2> QED
    BY <2>1, <2>2
<1>3. /\ DOMAIN Jailed(j.rec) = ProviderFields
      /\ Jailed(j.rec).status # "active"
      /\ Jailed(j.rec).slot = NoSlot
      /\ Jailed(j.rec).obligedFrom = j.rec.obligedFrom
  BY JailedUnseated
<1> QED
  BY <1>2, <1>3

LEMMA LivenessKeepsSeats ==
  ASSUME NEW st, NEW id, NEW agg, NEW funded, Seated(st), Due(st, id)
  PROVE  Seated(Liveness(st, id, agg, funded)) /\ Due(Liveness(st, id, agg, funded), id)
<1> DEFINE
      holding == ObligedSlots(st, id)
      submitted == DOMAIN GetRound(st, id).subs
      owing == { ObligedHolder(st, s, id) : s \in holding }
      seat == [p \in owing |-> CHOOSE s \in holding : ObligedHolder(st, s, id) = p]
      verdict == Sentences(st, id, agg, funded, seat)
      jailing == { q \in owing : verdict[q].jailed }
      fromStake == SumFunction([p \in owing |-> verdict[p].fromStake])
      fromUnbond == SumFunction([p \in owing |-> verdict[p].fromUnbond])
      moved == SumFunction([p \in owing |-> verdict[p].moved])
      alert == SumFunction([p \in owing |-> MulBps(verdict[p].fromStake + verdict[p].fromUnbond, Param.alerterShareBps)])
      kept == fromStake + fromUnbond - alert
      judged == [st EXCEPT
        !.providers = [p \in Providers |-> IF p \in owing THEN verdict[p].rec ELSE st.providers[p]],
        !.feed.penaltyCarry = @ + kept,
        !.held.pools = @ + kept,
        !.held.stakes = @ - fromStake - moved,
        !.held.unbonding = @ - fromUnbond + moved]
      cleared == { seat[p] : p \in jailing }
      emptied == FeedClearSlots(judged, cleared, id + 1)
<1>1. Liveness(st, id, agg, funded) = Send(emptied, alert)
  <2>1. seat = SeatHeld(st, id) /\ DOMAIN seat = owing
    BY DEF SeatHeld
  <2> HIDE DEF seat, owing
  <2>2. Liveness(st, id, agg, funded) = Enforce(st, id, seat, verdict)
    BY <2>1 DEF Liveness, Judged
  <2> HIDE DEF verdict
  <2> QED
    BY <2>1, <2>2 DEF Enforce
<1>2. \A p \in owing : seat[p] \in holding /\ ObligedHolder(st, seat[p], id) = p
  OBVIOUS
<1>3. holding \subseteq Slots /\ NoOne \notin owing
  BY DEF ObligedSlots
<1>4. \A p \in owing : verdict[p] = Sentenced(Judge(st.providers[p], id, seat[p] \in submitted,
                                                  agg.ok /\ seat[p] \notin agg.eligible, funded),
                                            st.slots[seat[p]] = p, seat[p] \in submitted)
  <2>1. DOMAIN seat = owing
    OBVIOUS
  <2> HIDE DEF seat, owing
  <2> QED
    BY <2>1 DEF Sentences
<1>5. Shaped(st)
  BY SeatedShaped
<1> HIDE DEF holding, submitted, owing, seat, verdict
<1>6. \A p \in jailing : p \in owing /\ st.slots[seat[p]] = p
  <2> SUFFICES ASSUME NEW p \in jailing
               PROVE  p \in owing /\ st.slots[seat[p]] = p
    OBVIOUS
  <2> DEFINE answered == seat[p] \in submitted
             sits == st.slots[seat[p]] = p
             j == Judge(st.providers[p], id, answered, agg.ok /\ seat[p] \notin agg.eligible, funded)
  <2>1. verdict[p] = Sentenced(j, sits, answered)
    BY <1>4
  <2>2. verdict[p].jailed
    OBVIOUS
  <2> HIDE DEF j, answered, sits
  <2>3. sits
    BY <2>1, <2>2, JailedSat
  <2> QED
    BY <2>3 DEF sits
<1>7. jailing \subseteq Providers
  <2>1. \A p \in jailing : seat[p] \in Slots /\ p # NoOne
    BY <1>2, <1>3, <1>6
  <2> QED
    BY <1>5, <1>6, <2>1 DEF Shaped
<1>8. cleared = SeatsOf(st, jailing)
  <2> SUFFICES cleared = { s \in Slots : st.slots[s] \in jailing }
    BY DEF SeatsOf
  <2>1. ASSUME NEW s \in cleared PROVE s \in Slots /\ st.slots[s] \in jailing
    BY <1>2, <1>3, <1>6
  <2>2. ASSUME NEW s \in Slots, st.slots[s] \in jailing PROVE s \in cleared
    <3> DEFINE p == st.slots[s]
    <3>1. p \in Providers /\ p # NoOne
      BY <1>7, <2>2, ConstantsAssumption
    <3>2. st.providers[p].slot = s
      BY <3>1 DEF Seated, Sat
    <3>3. seat[p] \in Slots /\ st.slots[seat[p]] = p
      BY <1>2, <1>3, <1>6, <2>2
    <3>4. st.providers[p].slot = seat[p]
      BY <3>1, <3>3 DEF Seated, Sat
    <3> QED
      BY <2>2, <3>2, <3>4
  <2> QED
    BY <2>1, <2>2
<1>9. \A p \in Providers \cap owing :
        /\ DOMAIN verdict[p].rec = ProviderFields
        /\ verdict[p].rec.obligedFrom = st.providers[p].obligedFrom
        /\ p \in jailing => verdict[p].rec.status # "active" /\ verdict[p].rec.slot = NoSlot
        /\ p \notin jailing => /\ verdict[p].rec.status = st.providers[p].status
                               /\ verdict[p].rec.slot = st.providers[p].slot
  <2> SUFFICES ASSUME NEW p \in Providers \cap owing
               PROVE  /\ DOMAIN verdict[p].rec = ProviderFields
                      /\ verdict[p].rec.obligedFrom = st.providers[p].obligedFrom
                      /\ p \in jailing => verdict[p].rec.status # "active" /\ verdict[p].rec.slot = NoSlot
                      /\ p \notin jailing => /\ verdict[p].rec.status = st.providers[p].status
                                             /\ verdict[p].rec.slot = st.providers[p].slot
    OBVIOUS
  <2> DEFINE outlier == agg.ok /\ seat[p] \notin agg.eligible
             answered == seat[p] \in submitted
             sits == st.slots[seat[p]] = p
             j == Judge(st.providers[p], id, answered, outlier, funded)
  <2>1. verdict[p] = Sentenced(j, sits, answered)
    BY <1>4
  <2>2. p \in jailing <=> verdict[p].jailed
    OBVIOUS
  <2>3. DOMAIN st.providers[p] = ProviderFields
    BY <1>5 DEF Shaped
  <2> HIDE DEF outlier, answered, sits, jailing
  <2>4. /\ DOMAIN j.rec = ProviderFields
        /\ j.rec.status = st.providers[p].status
        /\ j.rec.slot = st.providers[p].slot
        /\ j.rec.obligedFrom = st.providers[p].obligedFrom
    BY <2>3, JudgeKeepsSeat
  <2> HIDE DEF j
  <2>5. DOMAIN j.rec = ProviderFields
    BY <2>4
  <2>6. /\ DOMAIN verdict[p].rec = ProviderFields
        /\ verdict[p].rec.obligedFrom = j.rec.obligedFrom
        /\ verdict[p].jailed => verdict[p].rec.status # "active" /\ verdict[p].rec.slot = NoSlot
        /\ ~verdict[p].jailed => verdict[p].rec.status = j.rec.status /\ verdict[p].rec.slot = j.rec.slot
    BY <2>1, <2>5, SentencedRecord
  <2> QED
    BY <2>2, <2>4, <2>6
<1> HIDE DEF jailing, kept, alert, moved, fromStake, fromUnbond, cleared
<1>10. /\ DOMAIN judged = Tables
       /\ DOMAIN judged.feed = FeedFields
       /\ judged.slots = st.slots
       /\ judged.slotlog = st.slotlog
       /\ judged.feed.activeCount = st.feed.activeCount
       /\ judged.feed.status = st.feed.status
       /\ SameCalendar(judged.feed, st.feed)
       /\ judged.providers = [p \in Providers |-> IF p \in owing THEN verdict[p].rec ELSE st.providers[p]]
  BY <1>5 DEF Shaped, Tables, FeedFields, NoFeed, SameCalendar
<1> HIDE DEF judged
<1>11. Shaped(judged)
  BY <1>5, <1>9, <1>10 DEF Shaped
<1>12. /\ DOMAIN emptied = Tables
       /\ DOMAIN emptied.feed = FeedFields
       /\ emptied.providers = judged.providers
       /\ emptied.slots = SeatsWithout(judged.slots, cleared)
       /\ emptied.slotlog = Vacated(judged.slotlog, cleared, id + 1)
       /\ emptied.feed.activeCount = judged.feed.activeCount - Cardinality(cleared)
       /\ emptied.feed.status = judged.feed.status
       /\ SameCalendar(emptied.feed, judged.feed)
  BY <1>11, SlotsCleared
<1> HIDE DEF emptied
<1>13. Unseats(emptied, st, jailing, id + 1)
  <2>1. \A p \in Providers : /\ DOMAIN emptied.providers[p] = ProviderFields
                             /\ emptied.providers[p].obligedFrom = st.providers[p].obligedFrom
    BY <1>9, <1>10, <1>11, <1>12 DEF Shaped
  <2>2. \A p \in jailing : emptied.providers[p].status # "active" /\ emptied.providers[p].slot = NoSlot
    BY <1>6, <1>7, <1>9, <1>10, <1>12
  <2>3. \A p \in Providers \ jailing : /\ emptied.providers[p].slot = st.providers[p].slot
                                       /\ emptied.providers[p].status = st.providers[p].status
    BY <1>9, <1>10, <1>12
  <2>4. DOMAIN emptied.providers = Providers
    BY <1>10, <1>12
  <2>5. SameCalendar(emptied.feed, st.feed)
    BY <1>10, <1>12 DEF SameCalendar
  <2>6. emptied.slots = [s \in Slots |-> IF st.slots[s] \in jailing THEN NoOne ELSE st.slots[s]]
    BY <1>8, <1>10, <1>12 DEF SeatsWithout, SeatsOf
  <2>7. emptied.slotlog = LogSet(st.slotlog, { LogEntry(s, id + 1, NoOne) : s \in { x \in Slots : st.slots[x] \in jailing } })
    BY <1>8, <1>10, <1>12 DEF Vacated, SeatsOf
  <2> QED
    BY <1>8, <1>10, <1>12, <2>1, <2>2, <2>3, <2>4, <2>5, <2>6, <2>7 DEF Unseats, SeatsOf
<1>14. \A s \in Slots : st.slots[s] \in jailing => st.providers[st.slots[s]].obligedFrom <= id + 1
  <2> SUFFICES ASSUME NEW s \in Slots, st.slots[s] \in jailing
               PROVE  st.providers[st.slots[s]].obligedFrom <= id + 1
    OBVIOUS
  <2>1. PICK p \in jailing : s = seat[p]
    BY <1>8 DEF SeatsOf, cleared
  <2>2. p \in owing /\ st.slots[s] = p /\ ObligedHolder(st, s, id) = p /\ p \in Providers
    BY <1>2, <1>6, <1>7, <2>1
  <2>3. st.providers[p].obligedFrom \in Nat /\ id \in Nat
    BY <2>2 DEF Seated, Sat, Ordered, Due
  <2>4. ~(st.providers[p].obligedFrom > id)
    BY <2>2, ConstantsAssumption DEF ObligedHolder
  <2> QED
    BY <2>2, <2>3, <2>4
<1>15. Seated(emptied)
  <2>1. id + 1 \in Nat /\ id + 1 <= ObligedFrom(st.feed)
    BY DEF Due, Seated, Sat, Ordered
  <2>2. Passing => feed.lastFinalized < id + 1
    BY DEF Passing, Due
  <2> QED
    BY <1>7, <1>13, <1>14, <2>1, <2>2, SeatsLeft
<1>16. Due(emptied, id)
  <2>1. emptied.feed.startAt = st.feed.startAt /\ emptied.feed.status = st.feed.status
    BY <1>13 DEF Unseats, SameCalendar
  <2>2. ObligedFrom(emptied.feed) = ObligedFrom(st.feed)
    BY <2>1, SameStart
  <2> QED
    BY <2>1, <2>2 DEF Due
<1>17. SameSeating(Send(emptied, alert), emptied)
  BY <1>15, SendKeeps, SeatedShaped
<1> QED
  BY <1>1, <1>15, <1>16, <1>17, SeatingKept, DueKept

LEMMA PromotedKeepsSeats ==
  ASSUME NEW st, NEW agg, Shaped(st)
  PROVE  SameSeating(Promoted(st, agg), st)
BY FeedPromoteFinalKeeps, SeatingSame DEF Promoted

LEMMA ClosedKeepsSeats ==
  ASSUME NEW st, NEW id, NEW agg, NEW tier, Seated(st), Due(st, id)
  PROVE  Seated(Closed(st, id, agg, tier))
<1> DEFINE
      empty == FeedSetCursor(RoundFinalise(st, id, "empty", tier, agg.value), id)
      full == FeedSetCursor(RoundFinalise(st, id, "aggregated", tier, agg.value), id)
      valued == FeedSetValue(full, id, agg.value, tier)
      zeroed == [valued EXCEPT !.feed.emptyStreak = 0]
<1>1. Closed(st, id, agg, tier) = IF tier = "empty" THEN EmptyClosed(empty) ELSE zeroed
  BY DEF Closed
<1>2. \A status : LET t == RoundFinalise(st, id, status, tier, agg.value) IN Seated(t) /\ Due(t, id)
  BY RoundFinaliseKeeps, SeatingKept, DueKept, SeatedShaped
<1>3. Seated(empty) /\ Seated(full)
  BY <1>2, CursorSet
<1> HIDE DEF empty, full
<1>4. Seated(EmptyClosed(empty))
  BY <1>3, EmptyClosedKeeps, SeatingKept, SeatedShaped
<1>5. Seated(valued)
  BY <1>3, FeedSetValueKeeps, SeatingKept, SeatedShaped
<1> HIDE DEF valued
<1>6. Seated(zeroed)
  BY <1>5, SkipFieldsKeep, SeatingKept, SeatedShaped
<1> QED
  BY <1>1, <1>4, <1>6

LEMMA SettledKeepsSeats ==
  ASSUME NEW st, NEW id, NEW agg, NEW tier, Seated(st), Due(st, id)
  PROVE  Seated(Settled(st, id, agg, tier))
<1> DEFINE
      paid == IF tier = "empty" THEN {} ELSE { ObligedHolder(st, s, id) : s \in agg.eligible }
      funded == st.feed.status = "active"
      judged == Liveness(st, id, agg, funded)
      payed == RoundPayout(judged, paid)
      closed == Closed(payed, id, agg, tier)
<1>1. Settled(st, id, agg, tier) = AfterEmpty(FundingStatus(closed))
  BY DEF Settled
<1> HIDE DEF paid, funded
<1>2. Seated(judged) /\ Due(judged, id)
  BY LivenessKeepsSeats
<1> HIDE DEF judged
<1>3. Seated(payed) /\ Due(payed, id)
  BY <1>2, RoundPayoutKeeps, SeatingKept, DueKept, SeatedShaped
<1> HIDE DEF payed
<1>4. Seated(closed)
  BY <1>3, ClosedKeepsSeats
<1> HIDE DEF closed
<1> QED
  BY <1>1, <1>4, FundingStatusKeepsSeats, AfterEmptyKeepsSeats

LEMMA FinaliseKeepsSeats ==
  ASSUME NEW st, NEW id, Seated(st), Due(st, id)
  PROVE  Seated(Finalise(st, id))
<1> DEFINE
      isOpen == GetRound(st, id).status = "open"
      first == GetRound(st, id)
      required == Require(st, isOpen)
      put == PutRound(required, id, first)
      agg == AggregateOf(put, id)
      promoted == Promoted(put, agg)
      tier == TierOf(promoted, agg, Cardinality(ObligedSlots(put, id)))
<1>1. Finalise(st, id) = Settled(promoted, id, agg, tier)
  BY DEF Finalise, FinaliseOnRecord, FinaliseAs
<1> HIDE DEF isOpen, first
<1>2. Seated(required) /\ Due(required, id)
  BY RequireKeeps, SeatingKept, DueKept, SeatedShaped
<1> HIDE DEF required
<1>3. Seated(put) /\ Due(put, id)
  BY <1>2, PutRoundKeeps, SeatingKept, DueKept, SeatedShaped
<1> HIDE DEF put, agg
<1>4. Seated(promoted) /\ Due(promoted, id)
  BY <1>3, PromotedKeepsSeats, SeatingKept, DueKept, SeatedShaped
<1> HIDE DEF promoted, tier
<1> QED
  BY <1>1, <1>4, SettledKeepsSeats

-----------------------------------------------------------------------------
(* The outcome of a dispute. *)

LEMMA SlashedRecord ==
  ASSUME NEW pr, NEW tier, NEW slash, DOMAIN pr = ProviderFields, slash = SlashProvider(pr, tier)
  PROVE  /\ DOMAIN slash.rec = ProviderFields
         /\ slash.rec.obligedFrom = pr.obligedFrom
         /\ slash.ejected \in BOOLEAN
         /\ slash.ejected => slash.rec.status = "unbonding" /\ slash.rec.slot = NoSlot
         /\ ~slash.ejected => slash.rec.status = pr.status /\ slash.rec.slot = pr.slot
<1> DEFINE bps == IF tier = "major" THEN Param.majorSlashBps ELSE Param.minorSlashBps
           amount == MulBps(pr.stake + pr.unbondAmount, bps)
           taken == TakenFrom(pr, amount)
           e == IF tier = "minor" /\ EpochTurned(pr)
                THEN [pr EXCEPT !.minorsEpoch = 0, !.missSlashedEpoch = 0, !.epochStart = now] ELSE pr
           cut == [e EXCEPT !.stake = @ - taken.stake, !.unbondAmount = @ - taken.unbond,
                            !.minorsEpoch = IF tier = "minor" THEN @ + 1 ELSE @]
           out == Unbonding(cut, now + Param.unbondPeriod)
           ejected == tier = "major" /\ pr.status \in {"active", "jailed"}
           nothing == pr.status = "none" \/ amount <= 0
<1>1. DOMAIN e = ProviderFields /\ e.status = pr.status /\ e.slot = pr.slot /\ e.obligedFrom = pr.obligedFrom
  BY DEF ProviderFields, NoProvider
<1>2. \/ slash.rec = pr /\ slash.ejected = FALSE
      \/ slash.rec = (IF ejected THEN out ELSE cut) /\ slash.ejected = ejected
  <2> HIDE DEF amount, taken, e, cut, out
  <2>1. CASE nothing
    BY <2>1 DEF SlashProvider, amount
  <2>2. CASE ~nothing
    <3>1. slash.rec = IF ejected THEN out ELSE cut
      BY <2>2 DEF SlashProvider, amount, taken, e, cut, out
    <3>2. slash.ejected = ejected
      BY <2>2 DEF SlashProvider, amount
    <3> QED
      BY <3>1, <3>2
  <2> QED
    BY <2>1, <2>2
<1> HIDE DEF amount, taken, e
<1>3. DOMAIN cut = ProviderFields /\ cut.status = pr.status /\ cut.slot = pr.slot /\ cut.obligedFrom = pr.obligedFrom
  BY <1>1 DEF ProviderFields, NoProvider
<1> HIDE DEF cut
<1>4. DOMAIN out = ProviderFields /\ out.status = "unbonding" /\ out.slot = NoSlot /\ out.obligedFrom = pr.obligedFrom
  BY <1>3, UnbondingUnseated
<1> HIDE DEF out, ejected
<1>5. ejected \in BOOLEAN
  BY DEF ejected
<1> QED
  BY <1>2, <1>3, <1>4, <1>5

LEMMA SlashAllKeepsSeats ==
  ASSUME NEW st, NEW who, NEW tier, Seated(st), NoOne \notin who
  PROVE  Seated(CarryOut(st, Slashes(st, who, tier)))
<1> DEFINE
      slash == Slashes(st, who, tier)
      out == { p \in who : slash[p].ejected }
      seated == { p \in out : st.providers[p].status = "active" }
      cleared == { s \in Slots : st.slots[s] \in seated /\ st.providers[st.slots[s]].slot = s }
      fromStake == SumFunction([p \in who |-> slash[p].fromStake])
      fromUnbond == SumFunction([p \in who |-> slash[p].fromUnbond])
      moved == SumFunction([p \in out |-> st.providers[p].stake - slash[p].fromStake])
      cut == [st EXCEPT !.providers = [p \in Providers |-> IF p \in who THEN slash[p].rec ELSE st.providers[p]],
                        !.held.stakes = @ - fromStake - moved,
                        !.held.unbonding = @ - fromUnbond + moved,
                        !.held.bonds = @ + fromStake + fromUnbond]
      from == ObligedFrom(st.feed)
      t == FeedClearSlots(cut, cleared, from)
      gone == out \cap Providers
<1>1. CarryOut(st, slash) = t
  <2>1. DOMAIN slash = who
    BY DEF Slashes
  <2> HIDE DEF slash
  <2> QED
    BY <2>1 DEF CarryOut
<1>2. Shaped(st)
  BY SeatedShaped
<1>3. \A p \in who \cap Providers :
        /\ DOMAIN slash[p].rec = ProviderFields
        /\ slash[p].rec.obligedFrom = st.providers[p].obligedFrom
        /\ slash[p].ejected \in BOOLEAN
        /\ slash[p].ejected => slash[p].rec.status = "unbonding" /\ slash[p].rec.slot = NoSlot
        /\ ~slash[p].ejected => slash[p].rec.status = st.providers[p].status
                                /\ slash[p].rec.slot = st.providers[p].slot
  BY <1>2, SlashedRecord DEF Shaped, Slashes
<1> HIDE DEF slash
<1>4. cleared = SeatsOf(st, gone)
  <2> SUFFICES cleared = { s \in Slots : st.slots[s] \in gone }
    BY DEF SeatsOf
  <2>1. ASSUME NEW s \in Slots, st.slots[s] \in gone
        PROVE  st.slots[s] \in seated /\ st.providers[st.slots[s]].slot = s
    <3>1. st.slots[s] # NoOne
      BY <2>1, ConstantsAssumption
    <3> QED
      BY <2>1, <3>1 DEF Seated, Sat
  <2>2. ASSUME NEW s \in Slots, st.slots[s] \in seated
        PROVE  st.slots[s] \in gone
    <3>1. st.slots[s] \in out /\ st.slots[s] # NoOne
      BY <2>2
    <3> QED
      BY <1>2, <3>1 DEF Shaped
  <2> QED
    BY <2>1, <2>2
<1> HIDE DEF fromStake, fromUnbond, moved, cleared, from, out
<1>5. /\ DOMAIN cut = Tables
      /\ cut.feed = st.feed
      /\ cut.slots = st.slots
      /\ cut.slotlog = st.slotlog
      /\ cut.providers = [p \in Providers |-> IF p \in who THEN slash[p].rec ELSE st.providers[p]]
  BY <1>2 DEF Shaped, Tables
<1> HIDE DEF cut
<1>6. Shaped(cut)
  BY <1>2, <1>3, <1>5 DEF Shaped
<1>7. /\ DOMAIN t = Tables
      /\ DOMAIN t.feed = FeedFields
      /\ t.providers = cut.providers
      /\ t.slots = SeatsWithout(cut.slots, cleared)
      /\ t.slotlog = Vacated(cut.slotlog, cleared, from)
      /\ t.feed.activeCount = cut.feed.activeCount - Cardinality(cleared)
      /\ t.feed.status = cut.feed.status
      /\ SameCalendar(t.feed, cut.feed)
  BY <1>6, SlotsCleared
<1> HIDE DEF t
<1>8. \A p \in gone : p \in who /\ p \in Providers /\ slash[p].ejected
  BY DEF out
<1>9. \A p \in Providers \ gone : p \in who => ~slash[p].ejected
  BY DEF out
<1> HIDE DEF gone
<1>10. Unseats(t, st, gone, from)
  <2>1. \A p \in Providers : /\ DOMAIN t.providers[p] = ProviderFields
                             /\ t.providers[p].obligedFrom = st.providers[p].obligedFrom
    BY <1>3, <1>5, <1>6, <1>7 DEF Shaped
  <2>2. \A p \in gone : t.providers[p].status # "active" /\ t.providers[p].slot = NoSlot
    BY <1>3, <1>5, <1>7, <1>8
  <2>3. \A p \in Providers \ gone : /\ t.providers[p].slot = st.providers[p].slot
                                    /\ t.providers[p].status = st.providers[p].status
    BY <1>3, <1>5, <1>7, <1>9
  <2>4. DOMAIN t.providers = Providers
    BY <1>5, <1>7
  <2>5. t.slots = [s \in Slots |-> IF st.slots[s] \in gone THEN NoOne ELSE st.slots[s]]
    BY <1>4, <1>5, <1>7 DEF SeatsWithout, SeatsOf
  <2>6. t.slotlog = LogSet(st.slotlog, { LogEntry(s, from, NoOne) : s \in { x \in Slots : st.slots[x] \in gone } })
    BY <1>4, <1>5, <1>7 DEF Vacated, SeatsOf
  <2> QED
    BY <1>4, <1>5, <1>7, <2>1, <2>2, <2>3, <2>4, <2>5, <2>6 DEF Unseats, SeatsOf
<1>11. gone \subseteq Providers
  BY <1>8
<1>12. Seated(t)
  <2>1. Unseats(t, st, gone, ObligedFrom(st.feed))
    BY <1>10 DEF from
  <2> QED
    BY <1>11, <2>1, SeatsLeftNow
<1> QED
  BY <1>1, <1>12 DEF slash

LEMMA RouteTakenKeeps ==
  ASSUME NEW st, NEW taken, Seated(st)
  PROVE  Seated(RouteTaken(st, taken))
<1> DEFINE
      toDisputer == MulBps(taken, Param.forfeitSplitWinnerBps)
      toVoters == MulBps(taken, Param.forfeitSplitVotersBps)
      released == BondRelease(st, toDisputer)
      paid == FundVoters(released, toVoters)
      rest == taken - toDisputer - toVoters
<1>1. RouteTaken(st, taken) = BondToFees(paid, rest)
  BY DEF RouteTaken
<1> HIDE DEF toDisputer, toVoters, rest
<1>2. Seated(released)
  BY BondReleaseKeeps, SeatingKept, SeatedShaped
<1> HIDE DEF released
<1>3. Seated(paid)
  BY <1>2, FundVotersKeeps, SeatingKept, SeatedShaped
<1> HIDE DEF paid
<1> QED
  BY <1>1, <1>3, BondToFeesKeeps, SeatingKept, SeatedShaped

LEMMA OverturnKeepsSeats ==
  ASSUME NEW st, NEW d, NEW tier, Seated(st)
  PROVE  Seated(Overturn(st, d, tier))
<1> DEFINE
      who == Refuted(st, d)
      slash == Slashes(st, who, tier)
      cut == CarryOut(st, slash)
      taken == TakenBy(slash)
      routed == RouteTaken(cut, taken)
      returned == BondRelease(routed, d.bond)
<1>1. Overturn(st, d, tier) = RoundOverturn(returned, d.round, d.proposedValue)
  BY DEF Overturn, OverturnWith
<1>2. NoOne \notin who
  BY DEF Refuted
<1> HIDE DEF who
<1>3. Seated(cut)
  BY <1>2, SlashAllKeepsSeats
<1> HIDE DEF cut, taken
<1>4. Seated(routed)
  BY <1>3, RouteTakenKeeps
<1> HIDE DEF routed
<1>5. Seated(returned)
  BY <1>4, BondReleaseKeeps, SeatingKept, SeatedShaped
<1> HIDE DEF returned
<1> QED
  BY <1>1, <1>5, RoundOverturnKeeps, SeatingKept, SeatedShaped

LEMMA ApplyKeepsSeats ==
  ASSUME NEW st, NEW n, NEW outcome, NEW tier, Seated(st)
  PROVE  Seated(Apply(st, n, outcome, tier))
<1> DEFINE
      d == st.disputes[n]
      can == CanApply(st, d)
      s0 == Require(st, can)
      s1 == SettleAppealBond(s0, d, outcome)
      s2 == Decide(s1, d, outcome, tier)
<1>1. Apply(st, n, outcome, tier) = Resolved(s2, n, outcome, tier)
  BY DEF Apply
<1> HIDE DEF d, can
<1>2. Seated(s0)
  BY RequireKeeps, SeatingKept, SeatedShaped
<1> HIDE DEF s0
<1>3. Seated(s1)
  BY <1>2, SettleAppealBondKeeps, SeatingKept, SeatedShaped
<1> HIDE DEF s1
<1>4. Seated(Uphold(s1, d)) /\ Seated(Void(s1, d)) /\ Seated(Require(s1, FALSE))
  BY <1>3, UpholdKeeps, VoidKeeps, RequireKeeps, SeatingKept, SeatedShaped
<1>5. Seated(Overturn(s1, d, tier))
  BY <1>3, OverturnKeepsSeats
<1>6. Seated(s2)
  BY <1>4, <1>5 DEF Decide
<1> HIDE DEF s2
<1>7. SameSeating(Resolved(s2, n, outcome, tier), s2)
  BY <1>6, SeatedShaped DEF Resolved, SameSeating, Shaped, Tables, FeedFields, NoFeed
<1> QED
  BY <1>1, <1>6, <1>7, SeatingKept

-----------------------------------------------------------------------------
(* Joining, returning, activation and deletion. *)

\* t is st with the record of p made that of an active provider of slot s, before the slot is assigned.
Prepared(t, st, p, s) ==
  /\ DOMAIN t = Tables
  /\ DOMAIN t.feed = FeedFields
  /\ DOMAIN t.providers = Providers
  /\ t.slots = st.slots
  /\ t.slotlog = st.slotlog
  /\ t.feed.activeCount = st.feed.activeCount
  /\ t.feed.status = st.feed.status
  /\ SameCalendar(t.feed, st.feed)
  /\ t.providers[p].status = "active" /\ t.providers[p].slot = s
  /\ t.providers[p].obligedFrom = ObligedFrom(st.feed)
  /\ \A q \in Providers : DOMAIN t.providers[q] = ProviderFields
  /\ \A q \in Providers \ {p} : /\ t.providers[q].status = st.providers[q].status
                                /\ t.providers[q].slot = st.providers[q].slot
                                /\ t.providers[q].obligedFrom = st.providers[q].obligedFrom

LEMMA SlotAssigned ==
  ASSUME NEW st, NEW t, NEW p, NEW s, NEW from, Prepared(t, st, p, s), from = ObligedFrom(st.feed)
  PROVE  Seats(FeedAssignSlot(t, s, p, from), st, p, s)
<1> DEFINE u == FeedAssignSlot(t, s, p, from)
           f == [t.feed EXCEPT !.activeCount = @ + 1]
<1>1. /\ DOMAIN u = Tables
      /\ u.feed = f
      /\ u.providers = t.providers
      /\ u.slots = [t.slots EXCEPT ![s] = p]
      /\ u.slotlog = LogSet(t.slotlog, {LogEntry(s, from, p)})
  BY DEF FeedAssignSlot, Require, Prepared, Tables
<1>2. /\ DOMAIN f = FeedFields
      /\ f.activeCount = t.feed.activeCount + 1
      /\ f.status = t.feed.status
      /\ SameCalendar(f, t.feed)
  BY DEF SameCalendar, Prepared, FeedFields, NoFeed
<1> HIDE DEF u, f
<1>3. SameCalendar(u.feed, st.feed)
  BY <1>1, <1>2 DEF Prepared, SameCalendar
<1>4. Seats(u, st, p, s)
  BY <1>1, <1>2, <1>3 DEF Seats, Prepared
<1> QED
  BY <1>4 DEF u

LEMMA NewProviderPrepared ==
  ASSUME NEW st, NEW p \in Providers, NEW stake, NEW s, NEW from, Shaped(st), from = ObligedFrom(st.feed)
  PROVE  Prepared(NewProvider(st, p, stake, s, from), st, p, s)
<1> DEFINE t == NewProvider(st, p, stake, s, from)
           rec == [NoProvider EXCEPT !.status = "active", !.slot = s, !.stake = stake, !.obligedFrom = from,
                                     !.epochStart = now, !.jailingsSince = now]
<1>1. DOMAIN rec = ProviderFields /\ rec.status = "active" /\ rec.slot = s /\ rec.obligedFrom = from
  BY DEF ProviderFields, NoProvider
<1>2. /\ DOMAIN t = Tables
      /\ t.feed = st.feed
      /\ t.slots = st.slots
      /\ t.slotlog = st.slotlog
      /\ t.providers = [st.providers EXCEPT ![p] = rec]
  BY DEF NewProvider, Inflow, Require, Shaped, Tables
<1> HIDE DEF t, rec
<1>3. Prepared(t, st, p, s)
  BY <1>1, <1>2 DEF Prepared, Shaped, SameCalendar
<1> QED
  BY <1>3 DEF t

LEMMA UnjailedPrepared ==
  ASSUME NEW st, NEW p \in Providers, NEW s, NEW from, Shaped(st), from = ObligedFrom(st.feed)
  PROVE  Prepared([st EXCEPT !.providers[p] = Unjailed(@, s, from)], st, p, s)
<1> DEFINE rec == Unjailed(st.providers[p], s, from)
           t == [st EXCEPT !.providers[p] = rec]
<1>1. DOMAIN rec = ProviderFields /\ rec.status = "active" /\ rec.slot = s /\ rec.obligedFrom = from
  BY DEF Unjailed, Shaped, ProviderFields, NoProvider
<1> HIDE DEF rec
<1>2. /\ DOMAIN t = Tables
      /\ t.feed = st.feed
      /\ t.slots = st.slots
      /\ t.slotlog = st.slotlog
      /\ t.providers = [st.providers EXCEPT ![p] = rec]
  BY DEF Shaped, Tables
<1> HIDE DEF t
<1>3. Prepared(t, st, p, s)
  BY <1>1, <1>2 DEF Prepared, Shaped, SameCalendar
<1> QED
  BY <1>3 DEF t, rec

\* A provider with no seat takes the least free slot of a feed that serves.
LEMMA SeatingAssigned ==
  ASSUME NEW st, NEW t, NEW p \in Providers, NEW from,
         Seated(st), st.providers[p].status # "active", Serving(st.feed), FreeSlots(st) # {},
         from = ObligedFrom(st.feed),
         Prepared(t, st, p, Min(FreeSlots(st)))
  PROVE  Seated(FeedAssignSlot(t, Min(FreeSlots(st)), p, from))
<1> DEFINE s == Min(FreeSlots(st))
<1>1. s \in Slots /\ st.slots[s] = NoOne
  BY FreeSlotTaken
<1> HIDE DEF s
<1>2. Prepared(t, st, p, s)
  BY DEF s
<1>3. Seats(FeedAssignSlot(t, s, p, from), st, p, s)
  BY ONLY <1>2, from = ObligedFrom(st.feed), SlotAssigned
<1>4. Seated(FeedAssignSlot(t, s, p, from))
  BY <1>1, <1>3, SeatTaken
<1> QED
  BY <1>4 DEF s

LEMMA ProviderDeleteKeepsSeats ==
  ASSUME NEW st, NEW p \in Providers, Seated(st), st.providers[p].status # "active"
  PROVE  Seated(ProviderDelete(st, p))
<1> DEFINE t == ProviderDelete(st, p)
           first == ObligedFrom(st.feed)
<1>1. /\ DOMAIN t = Tables
      /\ t.feed = st.feed
      /\ t.slots = st.slots
      /\ t.slotlog = st.slotlog
      /\ t.providers = [st.providers EXCEPT ![p] = NoProvider]
  BY DEF ProviderDelete, Require, Seated, Sat, Shaped, Tables
<1>2. /\ NoProvider.status = "none" /\ NoProvider.slot = NoSlot /\ NoProvider.obligedFrom = 0
      /\ DOMAIN NoProvider = ProviderFields
  BY DEF NoProvider, ProviderFields
<1> HIDE DEF t
<1>3. Shaped(t)
  BY <1>1, <1>2 DEF Seated, Sat, Shaped
<1>4. \A q \in Providers : /\ t.providers[q].status = "active" <=> st.providers[q].status = "active"
                           /\ t.providers[q].slot = st.providers[q].slot
                           /\ t.providers[q].obligedFrom \in Nat
  BY <1>1, <1>2 DEF Seated, Sat, Shaped, Ordered
<1>5. Occupied(t) = Occupied(st)
  BY <1>1 DEF Occupied
<1>6. \A s \in Slots : t.slots[s] # NoOne => st.slots[s] \in Providers /\ st.slots[s] # p
  BY <1>1 DEF Seated, Sat, Shaped
<1>7. \A s \in Slots : t.slots[s] # NoOne =>
        t.providers[st.slots[s]].obligedFrom = st.providers[st.slots[s]].obligedFrom
  BY <1>1, <1>6 DEF Seated, Sat, Shaped
<1>8. LogOf(t.slotlog, t.slots, t.providers, first)
  <2>1. LogOf(st.slotlog, st.slots, st.providers, first)
    BY DEF Seated, Sat, Ordered
  <2> HIDE DEF first
  <2> QED
    BY <1>1, <1>7, <2>1 DEF LogOf
<1>9. Ordered(t, first)
  BY <1>1, <1>4, <1>8 DEF Seated, Sat, Ordered
<1>10. Sat(t)
  BY <1>1, <1>3, <1>4, <1>5, <1>6, <1>9 DEF Seated, Sat
<1>11. Fixed(t)
  BY <1>1 DEF Seated, Fixed
<1>12. Seated(t)
  BY <1>10, <1>11 DEF Seated
<1> QED
  BY <1>12 DEF t

\* A feed that begins to serve has no seats and no log, and no round of it was finalised.
LEMMA FeedActivateKeepsSeats ==
  ASSUME NEW st, NEW startAt \in Nat, NEW drip, Seated(st), st.feed.status \in Unborn, ~feed.haveLast
  PROVE  Seated(FeedActivate(st, startAt, drip))
<1> DEFINE pre == st.feed.prepaid
           act == [st EXCEPT !.feed.status = "active", !.feed.startAt = startAt, !.feed.drip = drip,
                             !.feed.prepaid = 0, !.held.deposits = @ - pre]
           split == SplitSubscription(act, pre)
           pooled == [act EXCEPT !.feed.pool = @ + pre, !.held.pools = @ + pre]
           first == ObligedFrom(act.feed)
<1>1. FeedActivate(st, startAt, drip) \in {act, split, pooled}
  BY DEF FeedActivate
<1> HIDE DEF pre
<1>2. /\ DOMAIN act = Tables
      /\ DOMAIN act.feed = FeedFields
      /\ act.slots = st.slots
      /\ act.slotlog = st.slotlog
      /\ act.providers = st.providers
      /\ act.feed.activeCount = st.feed.activeCount
      /\ act.feed.status = "active"
      /\ act.feed.startAt = startAt
      /\ act.feed.haveLast = st.feed.haveLast
      /\ act.feed.lastFinalized = st.feed.lastFinalized
  BY DEF Seated, Sat, Shaped, Tables, FeedFields, NoFeed
<1> HIDE DEF act
<1>3. Shaped(act)
  BY <1>2 DEF Seated, Sat, Shaped
<1>4. Occupied(act) = Occupied(st) /\ Serving(act.feed)
  BY <1>2 DEF Occupied, Serving
<1>5. first \in Nat
  BY <1>2, ObligedFromNat DEF Seated, Sat
<1>6. Occupied(act) = {} /\ act.slotlog = {} /\ ~act.feed.haveLast
  BY <1>2, <1>4 DEF Seated, Sat, Ordered, Serving, Unborn
<1> HIDE DEF first
<1>7. LogOf({}, act.slots, act.providers, first)
  <2>1. \A s \in Slots : act.slots[s] = NoOne
    BY <1>6 DEF Occupied
  <2>2. Apart({})
    BY EmptyLog DEF Apart
  <2> QED
    BY <2>1, <2>2, EmptyLog DEF LogOf
<1>8. Ordered(act, first)
  BY <1>2, <1>5, <1>6, <1>7 DEF Seated, Sat, Ordered, Unborn
<1>9. Sat(act)
  BY <1>2, <1>3, <1>4, <1>8 DEF Seated, Sat, first
<1>10. Seated(act)
  BY <1>9 DEF Seated, Fixed, Passing
<1>11. Seated(split)
  BY <1>3, <1>10, SplitSubscriptionKeeps, SeatingKept
<1>12. SameSeating(pooled, act)
  BY <1>3 DEF SameSeating, Shaped, Tables, FeedFields, NoFeed
<1> QED
  BY <1>1, <1>10, <1>11, <1>12, SeatingKept

LEMMA ActivateKeepsSeats ==
  ASSUME NEW st, Seated(st), st.feed.status \in Unborn, ~feed.haveLast
  PROVE  Seated(Activate(st))
<1> DEFINE
      startAt == IF Recurs THEN (now - (now % Spec0.interval)) + Spec0.interval ELSE Spec0.resolveAt
      drip == IF Recurs THEN DripFor(st.feed.subscriptionPrice) ELSE 0
      early == Recurs \/ Spec0.resolveAt > now
      timely == Require(st, early)
      act == FeedActivate(timely, startAt, drip)
<1>1. Activate(st) = DepositRefund(act)
  BY DEF Activate
<1>2. startAt \in Nat
  <2>1. Spec0.resolveAt \in Nat /\ Spec0.interval \in Nat /\ Spec0.interval >= 1 /\ now \in Nat
    BY TimesAssumption, ConstantsAssumption DEF Seated, Sat
  <2> DEFINE n == Spec0.interval
  <2>2. n \in Nat /\ n >= 1
    BY <2>1
  <2> HIDE DEF n
  <2>3. (now - (now % n)) + n \in Nat
    BY <2>1, <2>2
  <2> QED
    BY <2>1, <2>3 DEF n
<1> HIDE DEF startAt, drip, early
<1>3. SameSeating(timely, st)
  BY RequireKeeps, SeatedShaped
<1> HIDE DEF timely
<1>4. Seated(timely) /\ timely.feed.status \in Unborn
  BY <1>3, SeatingKept DEF SameSeating
<1>5. Seated(act)
  BY <1>2, <1>4, FeedActivateKeepsSeats
<1> HIDE DEF act
<1> QED
  BY <1>1, <1>5, DepositRefundKeeps, SeatingKept, SeatedShaped

\* A feed begun anew: its log begins with who sits now, and they owe its round.
LEMMA ReopenKeepsSeats ==
  ASSUME NEW st, NEW at \in Nat, Sat(st), Serving(st.feed)
  PROVE  /\ Sat(FeedResetForReopen(st, at))
         /\ ~FeedResetForReopen(st, at).feed.haveLast
<1> DEFINE t == FeedResetForReopen(st, at)
           f == [st.feed EXCEPT !.startAt = at, !.reopened = TRUE, !.haveLast = FALSE, !.lastFinalized = 0,
                                !.haveValue = FALSE, !.lastTier = "", !.emptyStreak = 0]
           first == ObligedFrom(f)
           log == { LogEntry(s, 0, st.slots[s]) : s \in { x \in Slots : st.slots[x] # NoOne } }
<1>1. /\ DOMAIN t = Tables /\ t.feed = f /\ t.slots = st.slots /\ t.slotlog = log
      /\ t.providers = [p \in Providers |->
           LET pr == st.providers[p] IN
           IF pr.status = "none" THEN pr
           ELSE [pr EXCEPT !.obligedFrom = IF pr.status = "active" THEN 0 ELSE 1]]
  BY DEF FeedResetForReopen, Sat, Shaped, Tables
<1>2. /\ DOMAIN f = FeedFields
      /\ f.activeCount = st.feed.activeCount /\ f.status = st.feed.status
      /\ f.startAt = at /\ f.haveLast = FALSE /\ f.lastFinalized = 0
  BY DEF Sat, Shaped, FeedFields, NoFeed
<1> HIDE DEF t, f
<1>3. \A p \in Providers : /\ DOMAIN t.providers[p] = ProviderFields
                           /\ t.providers[p].status = st.providers[p].status
                           /\ t.providers[p].slot = st.providers[p].slot
                           /\ t.providers[p].obligedFrom \in Nat
                           /\ st.providers[p].status = "active" => t.providers[p].obligedFrom = 0
  <2> SUFFICES ASSUME NEW p \in Providers
               PROVE  /\ DOMAIN t.providers[p] = ProviderFields
                      /\ t.providers[p].status = st.providers[p].status
                      /\ t.providers[p].slot = st.providers[p].slot
                      /\ t.providers[p].obligedFrom \in Nat
                      /\ st.providers[p].status = "active" => t.providers[p].obligedFrom = 0
    OBVIOUS
  <2> DEFINE pr == st.providers[p]
  <2>1. t.providers[p] = IF pr.status = "none" THEN pr
                         ELSE [pr EXCEPT !.obligedFrom = IF pr.status = "active" THEN 0 ELSE 1]
    BY <1>1
  <2>2. DOMAIN pr = ProviderFields /\ pr.obligedFrom \in Nat
    BY DEF Sat, Shaped, Ordered
  <2> HIDE DEF pr
  <2>3. /\ DOMAIN t.providers[p] = ProviderFields
        /\ t.providers[p].status = pr.status
        /\ t.providers[p].slot = pr.slot
        /\ t.providers[p].obligedFrom \in Nat
        /\ pr.status = "active" => t.providers[p].obligedFrom = 0
    BY <2>1, <2>2 DEF ProviderFields, NoProvider
  <2> QED
    BY <2>3 DEF pr
<1>4. Shaped(t) /\ Occupied(t) = Occupied(st)
  BY <1>1, <1>2, <1>3 DEF Sat, Shaped, Occupied
<1>5. first \in Nat
  BY <1>2, ObligedFromNat DEF Sat
<1>6. \A s \in Slots : st.slots[s] # NoOne =>
        st.slots[s] \in Providers /\ st.providers[st.slots[s]].status = "active" /\ st.providers[st.slots[s]].slot = s
  BY DEF Sat, Shaped
<1>7. LogOf(log, st.slots, t.providers, first)
  <2>1. \A s, x \in Slots : st.slots[s] # NoOne /\ st.slots[s] = st.slots[x] => s = x
    BY <1>6
  <2>2. \A s \in Slots : st.slots[s] # NoOne => t.providers[st.slots[s]].obligedFrom = 0
    <3> SUFFICES ASSUME NEW s \in Slots, st.slots[s] # NoOne
                 PROVE  t.providers[st.slots[s]].obligedFrom = 0
      OBVIOUS
    <3>1. st.slots[s] \in Providers /\ st.providers[st.slots[s]].status = "active"
      BY <1>6
    <3> DEFINE p == st.slots[s]
    <3>2. p \in Providers /\ st.providers[p].status = "active"
      BY <3>1
    <3> HIDE DEF p
    <3>3. t.providers[p].obligedFrom = 0
      BY <1>3, <3>2
    <3> QED
      BY <3>3 DEF p
  <2>3. st.slots \in [Slots -> Providers \cup {NoOne}]
    BY DEF Sat, Shaped
  <2> HIDE DEF first
  <2> QED
    BY <1>5, <2>1, <2>2, <2>3, LogBegun
<1> HIDE DEF first, log
<1>8. Ordered(t, first)
  <2>1. t.feed.status \notin Unborn
    BY <1>1, <1>2 DEF Serving, Unborn
  <2>2. /\ t.feed.startAt \in Nat /\ t.feed.lastFinalized \in Nat /\ t.feed.haveLast = FALSE
        /\ t.slots = st.slots /\ t.slotlog = log
    BY <1>1, <1>2
  <2> QED
    <3>1. \A p \in Providers : t.providers[p].obligedFrom \in Nat
      BY <1>3
    <3>2. LogOf(t.slotlog, t.slots, t.providers, first)
      BY <1>7, <2>2
    <3> QED
      BY <1>5, <2>1, <2>2, <3>1, <3>2 DEF Ordered
<1>9. Sat(t)
  <2>1. t.slots = st.slots
    BY <1>1
  <2>2. \A s \in Slots : t.slots[s] # NoOne =>
          t.providers[t.slots[s]].status = "active" /\ t.providers[t.slots[s]].slot = s
    BY ONLY <1>3, <1>6, <2>1
  <2>3. \A p \in Providers :
          IF st.providers[p].status = "active"
          THEN st.providers[p].slot \in Slots /\ st.slots[st.providers[p].slot] = p
          ELSE st.providers[p].slot = NoSlot
    BY DEF Sat
  <2>4. \A p \in Providers :
          IF t.providers[p].status = "active"
          THEN t.providers[p].slot \in Slots /\ t.slots[t.providers[p].slot] = p
          ELSE t.providers[p].slot = NoSlot
    BY ONLY <1>3, <2>1, <2>3
  <2>5. t.feed.activeCount = Cardinality(Occupied(t))
    BY <1>1, <1>2, <1>4 DEF Sat
  <2>6. Serving(t.feed)
    BY <1>1, <1>2 DEF Serving
  <2>7. first = ObligedFrom(t.feed) /\ now \in Nat
    BY <1>1 DEF first, Sat
  <2> QED
    BY ONLY <1>4, <1>8, <2>2, <2>4, <2>5, <2>6, <2>7 DEF Sat
<1>10. ~t.feed.haveLast
  BY <1>1, <1>2
<1> QED
  BY <1>9, <1>10 DEF t

-----------------------------------------------------------------------------
(* The actions. *)

Seating == Sat(Store)

\* The step of HoldersOfRecordFixed.
HoldersKept ==
  (feed.haveLast /\ feed'.haveLast /\ feed'.status # "pruned") =>
    \A s \in Slots : \A id \in 0 .. feed.lastFinalized :
      SlotHolderAt(slotlog', s, id) = SlotHolderAt(slotlog, s, id)

SeatedNext == Seating' /\ HoldersKept

LEMMA StoreShaped ==
  ASSUME Seating
  PROVE  /\ Seated(Store) /\ Shaped(Store)
         /\ Store.feed = feed /\ Store.slots = slots /\ Store.providers = providers
         /\ Store.slotlog = slotlog
<1>1. Store.feed = feed /\ Store.slotlog = slotlog
  BY DEF Store
<1>2. Fixed(Store)
  BY <1>1 DEF Fixed
<1> QED
  BY <1>2, SatShaped DEF Seating, Seated, Store

\* Tables that are sound become the next state.
LEMMA CommittedSat ==
  ASSUME NEW st, Sat(st), Commit(st)
  PROVE  Seating'
<1>1. /\ DOMAIN Store' = Tables
      /\ Store'.feed = st.feed
      /\ Store'.slots = st.slots
      /\ Store'.slotlog = st.slotlog
      /\ Store'.providers = st.providers
      /\ now' = now
  BY DEF Store, Commit, Tables
<1>2. ObligedFrom(Store.feed)' = ObligedFrom(st.feed)
  BY <1>1 DEF ObligedFrom, Started, Sched, Recurring, OneOff, Current
<1> DEFINE t == Store'
           first == ObligedFrom(st.feed)
<1>3. Shaped(t) /\ Occupied(t) = Occupied(st)
  BY <1>1 DEF Sat, Shaped, Occupied
<1>4. Ordered(t, first) /\ now' \in Nat
  BY <1>1 DEF Sat, Ordered
<1>5. /\ \A s \in Slots : t.slots[s] # NoOne =>
           t.providers[t.slots[s]].status = "active" /\ t.providers[t.slots[s]].slot = s
      /\ \A p \in Providers :
           IF t.providers[p].status = "active"
           THEN t.providers[p].slot \in Slots /\ t.slots[t.providers[p].slot] = p
           ELSE t.providers[p].slot = NoSlot
      /\ t.feed.activeCount = Cardinality(Occupied(t))
      /\ ~Serving(t.feed) => Occupied(t) = {}
  BY <1>1, <1>3 DEF Sat
<1> QED
  BY <1>2, <1>3, <1>4, <1>5 DEF Seating, Sat

LEMMA Committed ==
  ASSUME NEW st, Seating, Seated(st), Commit(st)
  PROVE  SeatedNext
<1>1. Seating'
  BY CommittedSat DEF Seated
<1>2. feed.haveLast => Passing
  <2>1. Ordered(Store, ObligedFrom(feed)) /\ Store.feed = feed
    BY StoreShaped DEF Seating, Sat
  <2> QED
    BY <2>1 DEF Ordered, Passing
<1>3. HoldersKept
  BY <1>2 DEF Seated, Fixed, HoldersKept, Commit
<1> QED
  BY <1>1, <1>3 DEF SeatedNext

LEMMA ProviderOpsKeepSeats ==
  ASSUME Seating, ProviderOps
  PROVE  SeatedNext
<1>1. PICK p \in Providers :
        Register(p) \/ TopUp(p) \/ RequestUnbond(p) \/ ForceUnbond(p) \/ Withdraw(p) \/ Unjail(p) \/ ClaimRewards(p)
  BY DEF ProviderOps
<1>2. CASE Register(p)
  <2> DEFINE s == Min(FreeSlots(Store))
             from == ObligedFrom(feed)
  <2>1. /\ Serving(feed) /\ providers[p].status = "none" /\ FreeSlots(Store) # {}
        /\ \E sent : Commit(FeedAssignSlot(NewProvider(Receive(Store, sent), p, sent, s, from), s, p, from))
    BY <1>2 DEF Register
  <2>2. PICK sent : Commit(FeedAssignSlot(NewProvider(Receive(Store, sent), p, sent, s, from), s, p, from))
    BY <2>1
  <2> DEFINE st == Receive(Store, sent)
  <2>3. SameSeating(st, Store) /\ Seated(st)
    BY StoreShaped, ReceiveKeeps, SeatingKept
  <2>4. Serving(st.feed) /\ st.providers[p].status # "active" /\ FreeSlots(st) = FreeSlots(Store)
    BY <2>1, <2>3, StoreShaped DEF SameSeating, Serving, FreeSlots
  <2>6. from = ObligedFrom(st.feed)
    BY <2>3, StoreShaped, SameStart DEF SameSeating
  <2> HIDE DEF st, from
  <2>5. Seated(FeedAssignSlot(NewProvider(st, p, sent, s, from), s, p, from))
    <3>1. Prepared(NewProvider(st, p, sent, s, from), st, p, s)
      <4> HIDE DEF s
      <4> QED
        BY <2>3, <2>6, SeatedShaped, NewProviderPrepared
    <3>2. Prepared(NewProvider(st, p, sent, s, from), st, p, Min(FreeSlots(st)))
      BY <2>4, <3>1
    <3> QED
      BY <2>1, <2>3, <2>4, <2>6, <3>2, SeatingAssigned
  <2> QED
    BY <2>2, <2>5, Committed DEF st
<1>3. CASE TopUp(p)
  <2>1. Seated(ProviderAddStake(Receive(Store, Overpay), p, Overpay))
    BY StoreShaped, ReceiveKeeps, ProviderAddStakeKeeps, SeatingKept, SeatedShaped
  <2> QED
    BY <1>3, <2>1, Committed DEF TopUp
<1>4. CASE RequestUnbond(p) \/ ForceUnbond(p)
  <2>1. Seated(Leave(Store, {p}))
    BY StoreShaped, LeaveKeepsSeats
  <2> QED
    BY <1>4, <2>1, Committed DEF RequestUnbond, ForceUnbond
<1>5. CASE Withdraw(p)
  <2> DEFINE unbonded == ProviderPayUnbonded(Store, p)
             settled == RewardPay(unbonded, p)
  <2>1. SameSeating(unbonded, Store) /\ Seated(unbonded)
    BY StoreShaped, ProviderPayUnbondedKeeps, SeatingKept
  <2> HIDE DEF unbonded
  <2>2. SameSeating(settled, unbonded) /\ Seated(settled)
    BY <2>1, SeatedShaped, RewardPayKeeps, SeatingKept
  <2> HIDE DEF settled
  <2>3. settled.providers[p].status # "active"
    BY <1>5, <2>1, <2>2, StoreShaped DEF Withdraw, SameSeating
  <2>4. Seated(ProviderDelete(settled, p))
    BY <2>2, <2>3, ProviderDeleteKeepsSeats
  <2> QED
    BY <1>5, <2>4, Committed DEF Withdraw, settled, unbonded
<1>6. CASE Unjail(p)
  <2> DEFINE s == Min(FreeSlots(Store))
             from == ObligedFrom(feed)
             st == [Store EXCEPT !.providers[p] = Unjailed(@, s, from)]
  <2>1. /\ Serving(feed) /\ providers[p].status = "jailed" /\ FreeSlots(Store) # {}
        /\ Commit(FeedAssignSlot(st, s, p, from))
    BY <1>6 DEF Unjail
  <2>2. Serving(Store.feed) /\ Store.providers[p].status # "active"
    BY <2>1, StoreShaped
  <2>5. from = ObligedFrom(Store.feed)
    BY StoreShaped
  <2>3. Prepared(st, Store, p, s)
    <3> HIDE DEF s, from
    <3> QED
      BY <2>5, StoreShaped, UnjailedPrepared
  <2> HIDE DEF st, from
  <2>4. Seated(FeedAssignSlot(st, s, p, from))
    BY <2>1, <2>2, <2>3, <2>5, StoreShaped, SeatingAssigned
  <2> QED
    BY <2>1, <2>4, Committed
<1>7. CASE ClaimRewards(p)
  <2>1. Seated(RewardPay(Store, p))
    BY StoreShaped, RewardPayKeeps, SeatingKept
  <2> QED
    BY <1>7, <2>1, Committed DEF ClaimRewards
<1> QED
  BY <1>1, <1>2, <1>3, <1>4, <1>5, <1>6, <1>7

\* A round that has begun, past the cursor.
LEMMA DueBegun ==
  ASSUME Seating, NEW id \in Nat, Serving(feed), Exists(Sched(feed), id, now),
         feed.haveLast => id > feed.lastFinalized
  PROVE  Due(Store, id)
<1>1. Store.feed = feed /\ feed.startAt \in Nat /\ now \in Nat
  BY StoreShaped DEF Seating, Sat, Ordered
<1>2. id < ObligedFrom(feed)
  BY <1>1, BegunIsOwed
<1> QED
  BY <1>1, <1>2 DEF Due, Serving, Unborn

LEMMA NextIsDue ==
  ASSUME Seating, NEW id, Serving(feed), IsNext(id), Exists(Sched(feed), id, now)
  PROVE  Due(Store, id)
<1>1. Store.feed = feed /\ feed.lastFinalized \in Nat
  BY StoreShaped DEF Seating, Sat, Ordered
<1>2. id \in Nat /\ (feed.haveLast => id > feed.lastFinalized)
  BY <1>1 DEF IsNext, NextRound
<1> QED
  BY <1>2, DueBegun

LEMMA ClosedExists ==
  ASSUME Seating, NEW id \in Nat, IsClosed(Sched(feed), id, now), IsOneOff(Sched(feed)) => id = 0
  PROVE  Exists(Sched(feed), id, now)
<1> DEFINE start == feed.startAt
           window == Spec0.submitWindow
           n == Spec0.interval
<1>1. start \in Nat /\ now \in Nat /\ window \in Nat /\ n \in Nat
  BY StoreShaped, TimesAssumption, ConstantsAssumption DEF Seating, Sat, Ordered
<1>2. CASE Recurs
  <2>1. now >= start + id * n + window /\ Sched(feed) = Recurring(start, n, window)
    BY <1>2 DEF Sched, Recurring, IsClosed, CloseAt, OpenAt
  <2> HIDE DEF start, window, n
  <2>2. id * n \in Nat
    BY <1>1
  <2>3. now >= start + id * n
    BY <1>1, <2>1, <2>2
  <2> QED
    BY <2>1, <2>3 DEF Recurring, Exists, OpenAt
<1>3. CASE ~Recurs
  <2>1. Sched(feed) = OneOff(start, window)
    BY <1>3 DEF Sched
  <2> HIDE DEF start, window, n
  <2>2. id = 0 /\ now >= start + id * 0 + window
    BY <2>1 DEF OneOff, IsOneOff, IsClosed, CloseAt, OpenAt
  <2> QED
    BY <1>1, <2>1, <2>2 DEF OneOff, Exists, OpenAt
<1> QED
  BY <1>2, <1>3

LEMMA RoundOpsKeepSeats ==
  ASSUME Seating, RoundOps
  PROVE  SeatedNext
<1>1. \A id : Due(Store, id) => Seated(Finalise(Store, id)) /\ Seated(Skip(Store, id))
  BY StoreShaped, FinaliseKeepsSeats, SkipKeepsSeats
<1>2. ASSUME NEW p, NEW id \in OpenedRounds, NEW v, Submit(p, id, v)
      PROVE  SeatedNext
  <2> DEFINE rd == GetRound(Store, id)
             s == providers[p].slot
             subs == [x \in DOMAIN rd.subs \cup {s} |-> IF x = s THEN v ELSE rd.subs[x]]
             answered == [rd EXCEPT !.subs = subs]
             submitted == PutRound(Store, id, answered)
  <2>1. Commit(IF AllSubmitted(submitted, id) /\ IsNext(id) THEN Finalise(submitted, id) ELSE submitted)
    BY <1>2 DEF Submit, Submitted, Answered, Completes
  <2>2. id \in Nat
    BY DEF OpenedRounds
  <2>3. Due(Store, id)
    BY <1>2, <2>2, DueBegun DEF Submit, MaySubmit, MayAnswer
  <2> HIDE DEF answered
  <2>4. Seated(submitted) /\ Due(submitted, id)
    BY <2>3, StoreShaped, PutRoundKeeps, SeatingKept, DueKept
  <2> HIDE DEF submitted
  <2>5. Seated(Finalise(submitted, id))
    BY <2>4, FinaliseKeepsSeats
  <2> QED
    BY <2>1, <2>4, <2>5, Committed
<1>3. ASSUME NEW id, Finalize(id)
      PROVE  SeatedNext
  <2>1. Due(Store, id)
    BY <1>3, NextIsDue DEF Finalize
  <2> QED
    BY <1>1, <1>3, <2>1, Committed DEF Finalize
<1>4. CASE CatchUp
  <2>1. Serving(feed)
    BY <1>4 DEF CatchUp
  <2>2. PICK id \in Finalisable(Sched(feed), feed.haveLast, feed.lastFinalized, now, 1) :
          Commit(IF id \in DOMAIN rounds THEN Finalise(Store, id) ELSE Skip(Store, id))
    BY <1>4 DEF CatchUp
  <2>3. feed.lastFinalized \in Nat
    BY StoreShaped DEF Seating, Sat, Ordered
  <2>4. IsNext(id) /\ id \in Nat /\ IsClosed(Sched(feed), id, now) /\ (IsOneOff(Sched(feed)) => id = 0)
    <3>1. NextRound(feed.haveLast, feed.lastFinalized) \in Nat
      BY <2>3 DEF NextRound
    <3> QED
      BY <2>2, <3>1 DEF Finalisable, IsNext
  <2>5. Due(Store, id)
    BY <2>1, <2>4, ClosedExists, NextIsDue
  <2> QED
    BY <1>1, <2>2, <2>5, Committed
<1> QED
  BY <1>2, <1>3, <1>4 DEF RoundOps

LEMMA DisputeOpsKeepSeats ==
  ASSUME Seating, DisputeOps
  PROVE  SeatedNext
<1>1. ASSUME NEW acct, NEW id, NEW proposed, NEW tier, Dispute(acct, id, proposed, tier)
      PROVE  SeatedNext
  <2> DEFINE bond == DisputeBond
             n == Len(disputes) + 1
             inRow == IF now - feed.lastDisputeAt >= Param.disputeEscalationWindow THEN 0 ELSE feed.disputesInRow
  <2>1. PICK sent :
          LET paid == CreditExcess(Receive(Store, sent), acct, sent, bond)
              marked == RoundMarkDisputed(NewDispute(paid, id, bond, proposed, tier), id, n)
          IN Commit([marked EXCEPT !.feed.openDisputes = @ + 1, !.feed.disputesInRow = inRow + 1,
                                   !.feed.lastDisputeAt = now])
    BY <1>1 DEF Dispute
  <2> DEFINE received == Receive(Store, sent)
             paid == CreditExcess(received, acct, sent, bond)
             opened == NewDispute(paid, id, bond, proposed, tier)
             marked == RoundMarkDisputed(opened, id, n)
             counted == [marked EXCEPT !.feed.openDisputes = @ + 1, !.feed.disputesInRow = inRow + 1,
                                       !.feed.lastDisputeAt = now]
  <2>2. Commit(counted)
    BY <2>1
  <2> HIDE DEF bond, n, inRow
  <2>3. Seated(received)
    BY StoreShaped, ReceiveKeeps, SeatingKept
  <2> HIDE DEF received
  <2>4. Seated(paid)
    BY <2>3, CreditExcessKeeps, SeatingKept, SeatedShaped
  <2> HIDE DEF paid
  <2>5. Seated(opened)
    BY <2>4, NewDisputeKeeps, SeatingKept, SeatedShaped
  <2> HIDE DEF opened
  <2>6. Seated(marked)
    BY <2>5, RoundMarkDisputedKeeps, SeatingKept, SeatedShaped
  <2> HIDE DEF marked
  <2>7. SameSeating(counted, marked)
    BY <2>6, SeatedShaped, DisputeCountersKeep
  <2> HIDE DEF counted
  <2> QED
    BY <2>2, <2>6, <2>7, SeatingKept, Committed
<1>2. ASSUME NEW acct, NEW d, Appeal(acct, d)
      PROVE  SeatedNext
  <2> DEFINE bond == disputes[d].bond * Param.appealBondMultiple
  <2>1. PICK sent :
          LET st == Inflow(CreditExcess(Receive(Store, sent), acct, sent, bond), bond) IN
          Commit([st EXCEPT !.disputes[d].status = "appealed", !.disputes[d].appealBond = bond,
                            !.disputes[d].ballotRound = 2, !.disputes[d].ballotEnds = now + BallotPeriod[2],
                            !.held.bonds = @ + bond])
    BY ZenonT(30), <1>2 DEF Appeal
  <2> DEFINE received == Receive(Store, sent)
             paid == CreditExcess(received, acct, sent, bond)
             st == Inflow(paid, bond)
             appealed == [st EXCEPT !.disputes[d].status = "appealed", !.disputes[d].appealBond = bond,
                                    !.disputes[d].ballotRound = 2, !.disputes[d].ballotEnds = now + BallotPeriod[2],
                                    !.held.bonds = @ + bond]
  <2>2. Commit(appealed)
    BY <2>1
  <2> HIDE DEF bond
  <2>3. Seated(received)
    BY StoreShaped, ReceiveKeeps, SeatingKept
  <2> HIDE DEF received
  <2>4. Seated(paid)
    BY <2>3, CreditExcessKeeps, SeatingKept, SeatedShaped
  <2> HIDE DEF paid
  <2>5. Seated(st)
    BY <2>4, InflowKeeps, SeatingKept, SeatedShaped
  <2> HIDE DEF st
  <2>6. SameSeating(appealed, st)
    BY <2>5, SeatedShaped DEF SameSeating, Shaped, Tables
  <2> HIDE DEF appealed
  <2> QED
    BY <2>2, <2>5, <2>6, SeatingKept, Committed
<1>3. ASSUME NEW n, ResolveDispute(n)
      PROVE  SeatedNext
  <2>1. \A outcome, tier : Seated(Apply(Store, n, outcome, tier))
    BY StoreShaped, ApplyKeepsSeats
  <2>2. CASE ResolveOpen(n)
    <3>1. PICK b : Commit(IF b.outcome = "ROLL"
              THEN [Store EXCEPT !.disputes[n].status = "appealed", !.disputes[n].ballotRound = 2,
                                 !.disputes[n].ballotEnds = now + BallotPeriod[2]]
              ELSE [Store EXCEPT !.disputes[n].status = "decided", !.disputes[n].outcome = b.outcome,
                                 !.disputes[n].firstOutcome = b.outcome, !.disputes[n].tierDecided = b.tier,
                                 !.disputes[n].decidedAt = now])
      BY <2>2 DEF ResolveOpen
    <3> DEFINE st == Store
               rolled == [st EXCEPT !.disputes[n].status = "appealed", !.disputes[n].ballotRound = 2,
                                    !.disputes[n].ballotEnds = now + BallotPeriod[2]]
               decided == [st EXCEPT !.disputes[n].status = "decided", !.disputes[n].outcome = b.outcome,
                                     !.disputes[n].firstOutcome = b.outcome, !.disputes[n].tierDecided = b.tier,
                                     !.disputes[n].decidedAt = now]
    <3>2. Commit(rolled) \/ Commit(decided)
      BY <3>1
    <3>3. Seated(st) /\ Shaped(st)
      BY StoreShaped
    <3> HIDE DEF st
    <3>4. SameSeating(rolled, st) /\ SameSeating(decided, st)
      BY <3>3 DEF SameSeating, Shaped, Tables
    <3> HIDE DEF rolled, decided
    <3> QED
      BY <3>2, <3>3, <3>4, SeatingKept, Committed
  <2>3. CASE ResolveDecided(n)
    BY <2>1, <2>3, Committed DEF ResolveDecided
  <2>4. CASE ResolveAppealed(n)
    BY <2>1, <2>4, Committed DEF ResolveAppealed
  <2> QED
    BY <1>3, <2>2, <2>3, <2>4 DEF ResolveDispute
<1>4. ASSUME NEW resolveAt \in (now + ResolveLead.min) .. (now + ResolveLead.max), ReopenOneOff(resolveAt)
      PROVE  SeatedNext
  <2>1. resolveAt \in Nat
    BY StoreShaped, TimesAssumption DEF Seating, Sat
  <2>2. Sat(FeedResetForReopen(Store, resolveAt)) /\ ~FeedResetForReopen(Store, resolveAt).feed.haveLast
    BY <1>4, <2>1, StoreShaped, ReopenKeepsSeats DEF ReopenOneOff, Seating
  <2>3. Commit(FeedResetForReopen(Store, resolveAt))
    BY <1>4 DEF ReopenOneOff
  <2>4. ~feed'.haveLast
    BY <2>2, <2>3 DEF Commit
  <2>5. Seating'
    BY <2>2, <2>3, CommittedSat
  <2> QED
    BY <2>4, <2>5 DEF SeatedNext, HoldersKept
<1> QED
  BY <1>1, <1>2, <1>3, <1>4 DEF DisputeOps

\* A feed with nobody seated may lose every provider record.
LEMMA SettleProvidersKeepsSeats ==
  ASSUME NEW st, NEW ready, Sat(st), Occupied(st) = {}
  PROVE  /\ Sat(SettleProviders(st, ready))
         /\ Occupied(SettleProviders(st, ready)) = {}
<1> DEFINE
      rewards == SumFunction([p \in Providers |-> st.providers[p].rewards])
      paid == SumFunction([p \in ready |-> st.providers[p].unbondAmount])
      t == [st EXCEPT !.providers = [p \in Providers |-> NoProvider],
                      !.held.rewards = @ - rewards, !.held.feesPending = @ + rewards,
                      !.held.unbonding = @ - paid]
      first == ObligedFrom(st.feed)
<1>1. SettleProviders(st, ready) = Send(t, paid)
  BY DEF SettleProviders
<1> HIDE DEF rewards, paid
<1>2. /\ DOMAIN t = Tables
      /\ t.feed = st.feed
      /\ t.slots = st.slots
      /\ t.slotlog = st.slotlog
      /\ t.providers = [p \in Providers |-> NoProvider]
  BY DEF Sat, Shaped, Tables
<1>3. /\ NoProvider.status = "none" /\ NoProvider.slot = NoSlot /\ NoProvider.obligedFrom = 0
      /\ DOMAIN NoProvider = ProviderFields
  BY DEF NoProvider, ProviderFields
<1> HIDE DEF t
<1>4. Shaped(t)
  BY <1>2, <1>3 DEF Sat, Shaped
<1>5. Occupied(t) = {} /\ Occupied(t) = Occupied(st)
  BY <1>2 DEF Occupied
<1>6. \A s \in Slots : t.slots[s] = NoOne
  BY <1>5 DEF Occupied
<1>7. t.feed.activeCount = Cardinality(Occupied(t))
  BY <1>2, <1>5 DEF Sat
<1>8. LogOf(t.slotlog, t.slots, t.providers, first)
  <2>1. LogOf(st.slotlog, st.slots, st.providers, first)
    BY DEF Sat, Ordered
  <2> HIDE DEF first
  <2> QED
    BY <1>2, <1>6, <2>1 DEF LogOf
<1>9. Ordered(t, first)
  BY <1>2, <1>3, <1>8 DEF Sat, Ordered
<1>10. Sat(t)
  BY <1>2, <1>3, <1>4, <1>5, <1>6, <1>7, <1>9 DEF Sat
<1>11. SameSeating(Send(t, paid), t)
  BY <1>4, SendKeeps
<1> QED
  BY <1>1, <1>5, <1>10, <1>11, SatKept DEF SameSeating, Occupied

LEMMA RepricedKeeps ==
  ASSUME NEW st, NEW a, NEW b, NEW c, NEW d, NEW e, NEW f, NEW g, Shaped(st)
  PROVE  SameSeating([st EXCEPT
            !.feed.subscriberPrice = a, !.feed.subscriptionPrice = b, !.feed.providerMinStake = c,
            !.feed.toleranceBps = d, !.feed.quarantineBps = e, !.feed.disputeWindow = f,
            !.feed.drip = g], st)
<1> DEFINE h == [st.feed EXCEPT !.subscriberPrice = a, !.subscriptionPrice = b, !.providerMinStake = c,
                                !.toleranceBps = d, !.quarantineBps = e, !.disputeWindow = f, !.drip = g]
           t == [st EXCEPT
                   !.feed.subscriberPrice = a, !.feed.subscriptionPrice = b, !.feed.providerMinStake = c,
                   !.feed.toleranceBps = d, !.feed.quarantineBps = e, !.feed.disputeWindow = f,
                   !.feed.drip = g]
<1>1. /\ DOMAIN t = Tables /\ t.feed = h /\ t.slots = st.slots /\ t.slotlog = st.slotlog
      /\ t.providers = st.providers
  BY DEF Shaped, Tables
<1>2. /\ DOMAIN h = FeedFields /\ h.activeCount = st.feed.activeCount /\ h.status = st.feed.status
      /\ h.startAt = st.feed.startAt /\ h.haveLast = st.feed.haveLast /\ h.lastFinalized = st.feed.lastFinalized
  BY DEF Shaped, FeedFields, NoFeed
<1> HIDE DEF t, h
<1>3. SameSeating(t, st)
  BY <1>1, <1>2 DEF SameSeating, Shaped
<1> QED
  BY <1>3 DEF t

\* A feed with nobody seated may lose its log.
LEMMA PrunedKeepsSeats ==
  ASSUME NEW st, Sat(st), Occupied(st) = {}
  PROVE  LET t == [st EXCEPT !.feed.status = "pruned", !.slotlog = {}] IN
         Sat(t) /\ t.feed.status = "pruned"
<1> DEFINE t == [st EXCEPT !.feed.status = "pruned", !.slotlog = {}]
           first == ObligedFrom(st.feed)
<1>1. /\ DOMAIN t = Tables
      /\ DOMAIN t.feed = FeedFields
      /\ t.slots = st.slots
      /\ t.slotlog = {}
      /\ t.providers = st.providers
      /\ t.feed.activeCount = st.feed.activeCount
      /\ t.feed.status = "pruned"
      /\ SameCalendar(t.feed, st.feed)
  BY DEF Sat, Shaped, Tables, FeedFields, NoFeed, SameCalendar
<1> HIDE DEF t
<1>2. Shaped(t)
  BY <1>1 DEF Sat, Shaped
<1>3. Occupied(t) = {} /\ Occupied(t) = Occupied(st)
  BY <1>1 DEF Occupied
<1>4. ObligedFrom(t.feed) = first
  BY <1>1, SameStart DEF SameCalendar
<1>5. LogOf(t.slotlog, t.slots, t.providers, first)
  <2>1. \A s \in Slots : t.slots[s] = NoOne
    BY <1>3 DEF Occupied
  <2>2. Apart({})
    BY EmptyLog DEF Apart
  <2> HIDE DEF first
  <2> QED
    BY <1>1, <2>1, <2>2, EmptyLog DEF LogOf
<1>6. Ordered(t, first)
  BY <1>1, <1>5 DEF Sat, Ordered, SameCalendar, Unborn
<1>7. Sat(t)
  BY <1>1, <1>2, <1>3, <1>4, <1>6 DEF Sat
<1>8. Sat(t) /\ t.feed.status = "pruned"
  BY <1>1, <1>7
<1> QED
  BY <1>8 DEF t

LEMMA UnbornHasNoLast ==
  ASSUME Seating, feed.status \in Unborn
  PROVE  ~feed.haveLast
BY StoreShaped DEF Seating, Sat, Ordered

LEMMA FeedOpsKeepSeats ==
  ASSUME Seating, FeedOps
  PROVE  SeatedNext
<1>1. CASE ProposeFeed
  <2> DEFINE st == FeedSetStatus(Store, "proposed")
  <2>1. Seated(st)
    <3>1. Occupied(Store) = {} /\ Store.feed.status \in Unborn
      BY <1>1, StoreShaped DEF ProposeFeed, Seating, Sat, Serving, Unborn
    <3> QED
      BY <3>1, StoreShaped, StatusSet
  <2>4. st.feed.status \in Unborn
    <3>1. DOMAIN Store = Tables /\ DOMAIN Store.feed = FeedFields
      BY StoreShaped DEF Shaped
    <3> QED
      BY <3>1 DEF FeedSetStatus, Tables, FeedFields, NoFeed, Unborn
  <2>5. ~feed.haveLast
    BY <1>1, UnbornHasNoLast DEF ProposeFeed, Unborn
  <2>2. CASE Spec0.fromRealm
    <3> DEFINE filed == CreditSpendOnFeed(st, Proposer, Param.feedDeposit, Funding)
    <3>1. Commit(IF ~Recurs /\ Spec0.trusted THEN Activate(filed) ELSE filed)
      BY <1>1, <2>2 DEF ProposeFeed
    <3> HIDE DEF st
    <3>2. SameSeating(filed, st) /\ Seated(filed)
      BY <2>1, CreditSpendOnFeedKeeps, SeatingKept, SeatedShaped
    <3> HIDE DEF filed
    <3>3. Seated(Activate(filed))
      BY <2>4, <2>5, <3>2, ActivateKeepsSeats DEF SameSeating
    <3> QED
      BY <3>1, <3>2, <3>3, Committed
  <2>3. CASE ~Spec0.fromRealm
    <3>1. PICK sent : Commit(CreditSpendOnFeed(CreditDeposit(Receive(st, sent), Proposer, sent),
                                               Proposer, Param.feedDeposit, sent - Param.feedDeposit))
      BY <1>1, <2>3 DEF ProposeFeed
    <3> DEFINE received == Receive(st, sent)
               deposited == CreditDeposit(received, Proposer, sent)
               rest == sent - Param.feedDeposit
    <3> HIDE DEF st
    <3>2. Seated(received)
      BY <2>1, ReceiveKeeps, SeatingKept, SeatedShaped
    <3> HIDE DEF received
    <3>3. Seated(deposited)
      BY <3>2, CreditDepositKeeps, SeatingKept, SeatedShaped
    <3> HIDE DEF deposited, rest
    <3>4. Seated(CreditSpendOnFeed(deposited, Proposer, Param.feedDeposit, rest))
      BY <3>3, CreditSpendOnFeedKeeps, SeatingKept, SeatedShaped
    <3> QED
      BY <3>1, <3>4, Committed DEF deposited, received, rest
  <2> QED
    BY <2>2, <2>3
<1>2. CASE ActivateFeed
  <2>1. Store.feed.status \in Unborn /\ ~feed.haveLast
    BY <1>2, StoreShaped, UnbornHasNoLast DEF ActivateFeed, Unborn
  <2>2. Seated(Activate(Store))
    BY <2>1, StoreShaped, ActivateKeepsSeats
  <2> QED
    BY <1>2, <2>2, Committed DEF ActivateFeed
<1>3. ASSUME NEW spam, DeprecateFeed(spam)
      PROVE  SeatedNext
  <2> DEFINE refunded == IF feed.status # "proposed" THEN Store
                         ELSE IF spam THEN DepositToFees(Store) ELSE DepositRefund(Store)
             swept == IF Recurs THEN FeedPoolToFees(refunded) ELSE FeedPoolRefund(refunded)
  <2>1. Commit(Retire(swept))
    BY <1>3 DEF DeprecateFeed
  <2>2. Seated(DepositToFees(Store)) /\ Seated(DepositRefund(Store)) /\ Seated(Store)
    BY StoreShaped, DepositToFeesKeeps, DepositRefundKeeps, SeatingKept
  <2>3. Seated(refunded)
    BY <2>2
  <2> HIDE DEF refunded
  <2>4. Seated(FeedPoolToFees(refunded)) /\ Seated(FeedPoolRefund(refunded))
    BY <2>3, FeedPoolToFeesKeeps, FeedPoolRefundKeeps, SeatingKept, SeatedShaped
  <2>5. Seated(swept)
    BY <2>4
  <2> HIDE DEF swept
  <2> QED
    BY <2>1, <2>5, RetireKeepsSeats, Committed
<1>4. ASSUME NEW u, UpdateFeed(u)
      PROVE  SeatedNext
  <2> DEFINE drip == IF Recurs /\ u.subscriptionPrice # feed.subscriptionPrice
                     THEN DripFor(u.subscriptionPrice) ELSE Store.feed.drip
             t == [Store EXCEPT
                     !.feed.subscriberPrice = u.subscriberPrice, !.feed.subscriptionPrice = u.subscriptionPrice,
                     !.feed.providerMinStake = u.providerMinStake, !.feed.toleranceBps = u.toleranceBps,
                     !.feed.quarantineBps = u.quarantineBps, !.feed.disputeWindow = u.disputeWindow,
                     !.feed.drip = drip]
  <2>1. Commit(t)
    BY <1>4 DEF UpdateFeed, Store
  <2> HIDE DEF drip
  <2>2. Seated(t)
    <3>1. Shaped(Store)
      BY StoreShaped
    <3>2. SameSeating(t, Store)
      BY <3>1, RepricedKeeps
    <3>3. Seated(Store)
      BY StoreShaped
    <3> HIDE DEF t
    <3> QED
      BY ONLY <3>2, <3>3, SeatingKept
  <2> HIDE DEF t
  <2> QED
    BY <2>1, <2>2, Committed
<1>5. ASSUME NEW maxRounds, PruneRounds(maxRounds)
      PROVE  SeatedNext
  <2> DEFINE st == FeedPromoteFinal(Store)
  <2>1. \E next : Commit(DropRounds(st, next))
    BY <1>5 DEF PruneRounds, Pruned
  <2>2. PICK next : Commit(DropRounds(st, next))
    BY <2>1
  <2>3. Seated(st)
    BY StoreShaped, FeedPromoteFinalKeeps, SeatingKept
  <2> HIDE DEF st
  <2>4. Seated(DropRounds(st, next))
    BY <2>3, DropRoundsKeeps, SeatingKept, SeatedShaped
  <2> QED
    BY <2>2, <2>4, Committed
<1>6. CASE PruneFeed
  <2> DEFINE ready == { p \in Providers : providers[p].status = "unbonding" /\ now >= providers[p].unbondReadyAt }
             settled == SettleProviders(Store, ready)
             swept == FeedPoolToFees(settled)
             empty == {swept.feed.pool, swept.feed.penaltyCarry, swept.feed.deposit, swept.feed.prepaid} = {0}
             checked == Require(swept, empty)
  <2>1. RetentionPassed /\ Commit([checked EXCEPT !.feed.status = "pruned", !.slotlog = {}])
    BY <1>6 DEF PruneFeed
  <2>2. Sat(Store) /\ Occupied(Store) = {}
    BY <2>1, StoreShaped DEF RetentionPassed, Seating, Sat, Serving
  <2> HIDE DEF ready
  <2>3. Sat(settled) /\ Occupied(settled) = {}
    BY <2>2, SettleProvidersKeepsSeats
  <2> HIDE DEF settled
  <2>4. SameSeating(swept, settled) /\ Sat(swept)
    BY <2>3, FeedPoolToFeesKeeps, SatKept, SatShaped
  <2> HIDE DEF swept, empty
  <2>5. SameSeating(checked, swept) /\ Sat(checked)
    BY <2>4, RequireKeeps, SatKept, SatShaped
  <2> HIDE DEF checked
  <2>6. Occupied(checked) = {}
    BY <2>3, <2>4, <2>5 DEF Occupied, SameSeating
  <2> DEFINE pruned == [checked EXCEPT !.feed.status = "pruned", !.slotlog = {}]
  <2>7. Sat(pruned) /\ pruned.feed.status = "pruned"
    BY <2>5, <2>6, PrunedKeepsSeats
  <2>8. Commit(pruned)
    BY <2>1
  <2> HIDE DEF pruned
  <2>9. Seating'
    BY <2>7, <2>8, CommittedSat
  <2>10. feed'.status = "pruned"
    BY <2>7, <2>8 DEF Commit
  <2> QED
    BY <2>9, <2>10 DEF SeatedNext, HoldersKept
<1> QED
  BY <1>1, <1>2, <1>3, <1>4, <1>5, <1>6 DEF FeedOps

LEMMA FundingOpsKeepSeats ==
  ASSUME Seating, FundingOps
  PROVE  SeatedNext
<1>1. \A sent : Seated(Receive(Store, sent))
  BY StoreShaped, ReceiveKeeps, SeatingKept
<1>2. \A sent, amount : Seated(SponsorPay(Receive(Store, sent), amount))
  BY <1>1, SponsorPayKeeps, SeatingKept, SeatedShaped
<1>3. ASSUME NEW st, Seated(st)
      PROVE  Seated(FeedSetStatus(st, "active")) /\ Seated(Resubscribed(st))
  BY <1>3, StatusSet DEF Resubscribed, Unborn
<1>4. CASE Sponsor
  <2>1. PICK sent : LET paid == SponsorPay(Receive(Store, sent), sent) IN
                    Commit(IF feed.status = "unfunded" THEN FeedSetStatus(paid, "active") ELSE paid)
    BY <1>4 DEF Sponsor
  <2> QED
    BY <1>2, <1>3, <2>1, Committed
<1>5. CASE SubscribeRealm
  <2>1. PICK sent : Commit(Resubscribed(SponsorPay(Receive(Store, sent), sent)))
    BY <1>5 DEF SubscribeRealm
  <2> QED
    BY <1>2, <1>3, <2>1, Committed
<1>12. CASE SubscribeFree
  BY <1>3, <1>12, StoreShaped, Committed DEF SubscribeFree
<1>6. CASE FundBounty
  <2>1. PICK sent : Commit(BountyIn(Receive(Store, sent), sent))
    BY <1>6 DEF FundBounty
  <2>2. Seated(BountyIn(Receive(Store, sent), sent))
    BY <1>1, BountyInKeeps, SeatingKept, SeatedShaped
  <2> QED
    BY <2>1, <2>2, Committed
<1>7. CASE ForwardFees
  <2> DEFINE st == [Store EXCEPT !.held.feesPending = 0]
  <2>1. SameSeating(st, Store)
    BY StoreShaped DEF SameSeating, Shaped, Tables
  <2>2. Seated(st)
    BY <2>1, StoreShaped, SeatingKept
  <2>3. Commit(Send(st, held.feesPending))
    BY <1>7 DEF ForwardFees
  <2> HIDE DEF st
  <2>4. Seated(Send(st, held.feesPending))
    BY <2>2, SendKeeps, SeatingKept, SeatedShaped
  <2> QED
    BY <2>3, <2>4, Committed
<1>8. CASE PlainTransfer
  BY <1>1, <1>8, Committed DEF PlainTransfer
<1>9. ASSUME NEW acct, SubscribeFromCredit(acct)
      PROVE  SeatedNext
  <2> DEFINE price == feed.subscriberPrice
             spent == CreditSpend(Store, acct, price)
             split == SplitSubscription(spent, price)
  <2>1. Commit(Resubscribed(split))
    BY <1>9 DEF SubscribeFromCredit
  <2> HIDE DEF price
  <2>2. Seated(spent)
    BY StoreShaped, CreditSpendKeeps, SeatingKept
  <2> HIDE DEF spent
  <2>3. Seated(split)
    BY <2>2, SplitSubscriptionKeeps, SeatingKept, SeatedShaped
  <2> HIDE DEF split
  <2> QED
    BY <1>3, <2>1, <2>3, Committed
<1>10. ASSUME NEW acct, DepositFor(acct)
       PROVE  SeatedNext
  <2>1. PICK sent : Commit(CreditDeposit(Receive(Store, sent), acct, sent))
    BY <1>10 DEF DepositFor
  <2>2. Seated(CreditDeposit(Receive(Store, sent), acct, sent))
    BY <1>1, CreditDepositKeeps, SeatingKept, SeatedShaped
  <2> QED
    BY <2>1, <2>2, Committed
<1>11. ASSUME NEW acct, WithdrawCredit(acct)
       PROVE  SeatedNext
  <2>1. Seated(CreditWithdraw(Store, acct, credits[acct]))
    BY StoreShaped, CreditWithdrawKeeps, SeatingKept
  <2> QED
    BY <1>11, <2>1, Committed DEF WithdrawCredit
<1> QED
  BY <1>4, <1>5, <1>6, <1>7, <1>8, <1>9, <1>10, <1>11, <1>12 DEF FundingOps

-----------------------------------------------------------------------------

LEMMA InitSeats ==
  ASSUME Init
  PROVE  Seating
<1> DEFINE t == NewStore
<1>1. /\ DOMAIN t = Tables
      /\ t.feed = NoFeed
      /\ t.slots = [s \in Slots |-> NoOne]
      /\ t.slotlog = {}
      /\ t.providers = [p \in Providers |-> NoProvider]
  BY DEF NewStore, Tables
<1>2. /\ Store.feed = t.feed /\ Store.slots = t.slots /\ Store.slotlog = t.slotlog
      /\ Store.providers = t.providers /\ DOMAIN Store = Tables
  BY DEF Init, Installed, Store, Tables
<1> HIDE DEF t
<1>3. /\ NoProvider.status = "none" /\ NoProvider.slot = NoSlot /\ NoProvider.obligedFrom = 0
      /\ DOMAIN NoProvider = ProviderFields
      /\ NoFeed.activeCount = 0 /\ NoFeed.startAt = 0 /\ NoFeed.lastFinalized = 0 /\ NoFeed.haveLast = FALSE
      /\ DOMAIN NoFeed = FeedFields
  BY DEF NoProvider, ProviderFields, NoFeed, FeedFields
<1> DEFINE u == Store
           first == ObligedFrom(u.feed)
<1>4. /\ DOMAIN u = Tables /\ u.feed = NoFeed /\ u.slots = [s \in Slots |-> NoOne] /\ u.slotlog = {}
      /\ u.providers = [p \in Providers |-> NoProvider]
  BY <1>1, <1>2
<1> HIDE DEF u
<1>5. Shaped(u) /\ Occupied(u) = {}
  BY <1>3, <1>4 DEF Shaped, Occupied
<1>6. Cardinality(Occupied(u)) = 0
  BY <1>5, FS_EmptySet
<1>7. now \in Nat
  BY DEF Init
<1>8. first \in Nat
  BY <1>3, <1>4, <1>7, ObligedFromNat
<1>9. LogOf(u.slotlog, u.slots, u.providers, first)
  <2>1. Apart({})
    BY EmptyLog DEF Apart
  <2> HIDE DEF first
  <2> QED
    BY <1>4, <2>1, EmptyLog DEF LogOf
<1> HIDE DEF first
<1>10. Ordered(u, first)
  BY <1>3, <1>4, <1>8, <1>9 DEF Ordered
<1>11. Sat(u)
  BY <1>3, <1>4, <1>5, <1>6, <1>7, <1>10 DEF Sat, first
<1> QED
  BY <1>11 DEF Seating, u

\* Time passes, and rounds begin: the log tells of them what it tells of the last.
LEMMA TickSeats ==
  ASSUME Seating, now' = now + 1, UNCHANGED tables
  PROVE  Seating'
<1> DEFINE t == Store
           first == ObligedFrom(feed)
           next == ObligedFrom(feed)'
<1>1. Store' = Store /\ feed' = feed
  BY DEF Store, tables
<1>2. t.feed = feed /\ feed.startAt \in Nat /\ now \in Nat
  BY StoreShaped DEF Seating, Sat, Ordered
<1>3. first <= next /\ next \in Nat /\ first \in Nat
  BY <1>1, <1>2, ObligedGrows, ObligedFromNat
<1>4. Sat(t) /\ Ordered(t, first) /\ t.slots \in [Slots -> Providers \cup {NoOne}]
  BY <1>2 DEF Seating, Sat, Shaped
<1>5. ObligedFrom(Store.feed)' = next
  <2>1. Store'.feed = feed'
    BY <1>1, <1>2
  <2> QED
    BY <2>1 DEF ObligedFrom, Started, Sched, Recurring, OneOff, Current
<1> HIDE DEF first, next
<1>6. Ordered(t, next)
  <2>1. LogOf(t.slotlog, t.slots, t.providers, next)
    BY <1>3, <1>4, LogLater DEF Ordered
  <2> QED
    BY <1>3, <1>4, <2>1 DEF Ordered
<1>7. now' \in Nat
  BY <1>2
<1> HIDE DEF t
<1>8. Store' = t
  BY <1>1 DEF t
<1> QED
  BY <1>4, <1>5, <1>6, <1>7, <1>8 DEF Seating, Sat

LEMMA StepSeated ==
  ASSUME Seating, [Next]_vars
  PROVE  SeatedNext
<1>1. ASSUME UNCHANGED tables
      PROVE  HoldersKept
  BY <1>1 DEF HoldersKept, tables
<1>2. CASE Tick
  BY <1>1, <1>2, TickSeats DEF Tick, SeatedNext
<1>3. CASE UNCHANGED vars
  <2>1. UNCHANGED tables /\ now' = now
    BY <1>3 DEF vars
  <2>2. Store' = Store
    BY <2>1 DEF Store, tables
  <2>3. Commit(Store)
    BY <2>1 DEF Commit, Store, tables
  <2>4. Seating'
    BY <2>3, CommittedSat DEF Seating
  <2> QED
    BY <1>1, <2>1, <2>4 DEF SeatedNext
<1> QED
  BY <1>2, <1>3, ProviderOpsKeepSeats, RoundOpsKeepSeats, DisputeOpsKeepSeats, FeedOpsKeepSeats,
     FundingOpsKeepSeats
  DEF Next

LEMMA StepSeats ==
  ASSUME Seating, [Next]_vars
  PROVE  Seating'
BY StepSeated DEF SeatedNext

\* The invariant, and what every step keeps.
LEMMA SeatsRecorded == Spec => []Seating /\ [][HoldersKept]_vars
<1>1. Init => Seating
  BY InitSeats
<1>2. Seating /\ [Next]_vars => Seating'
  BY StepSeats
<1>3. Seating /\ [Next]_vars => [HoldersKept]_vars
  BY StepSeated DEF SeatedNext
<1> QED
  BY <1>1, <1>2, <1>3, PTL DEF Spec

LEMMA SeatingIsSeatsOK ==
  ASSUME Seating
  PROVE  SeatsOK
BY DEF Seating, Sat, Occupied, SeatsOK, Store

LEMMA SeatingIsOneSeatPerRound ==
  ASSUME Seating
  PROVE  OneSeatPerRound
<1>1. Apart(slotlog) /\ now \in Nat
  BY StoreShaped DEF Seating, Sat, Ordered, LogOf
<1> SUFFICES ASSUME NEW id \in 0 .. now, NEW s \in ObligedSlots(Store, id), NEW t \in ObligedSlots(Store, id),
                    ObligedHolder(Store, s, id) = ObligedHolder(Store, t, id)
             PROVE  s = t
  BY DEF OneSeatPerRound
<1>2. id \in Nat /\ s \in Slots /\ t \in Slots
  BY <1>1 DEF ObligedSlots
<1>3. /\ SlotHolderAt(slotlog, s, id) = ObligedHolder(Store, s, id)
      /\ SlotHolderAt(slotlog, t, id) = ObligedHolder(Store, t, id)
      /\ ObligedHolder(Store, s, id) # NoOne
  BY StoreShaped DEF ObligedSlots, ObligedHolder
<1> QED
  BY <1>1, <1>2, <1>3 DEF Apart

LEMMA SeatingIsReopenedOwed ==
  ASSUME Seating
  PROVE  ReopenedRoundOwedBySeated
<1> SUFFICES ASSUME now < feed.startAt, NEW s \in Slots
             PROVE  ObligedHolder(Store, s, 0) = slots[s]
  BY DEF ReopenedRoundOwedBySeated
<1>1. /\ Store.feed = feed /\ Store.slots = slots /\ Store.providers = providers /\ Store.slotlog = slotlog
      /\ feed.startAt \in Nat /\ now \in Nat /\ slots[s] \in Providers \cup {NoOne}
  BY StoreShaped DEF Seating, Sat, Shaped, Ordered
<1>2. ObligedFrom(feed) = 0
  BY <1>1 DEF ObligedFrom, Started, Sched, Recurring, OneOff
<1>3. LogOf(slotlog, slots, providers, 0)
  BY <1>1, <1>2 DEF Seating, Sat, Ordered
<1>4. SlotHolderAt(slotlog, s, 0) = slots[s]
  BY <1>3 DEF LogOf
<1>5. slots[s] # NoOne => providers[slots[s]].status = "active" /\ ~(providers[slots[s]].obligedFrom > 0)
  <2> SUFFICES ASSUME slots[s] # NoOne
               PROVE  providers[slots[s]].status = "active" /\ ~(providers[slots[s]].obligedFrom > 0)
    OBVIOUS
  <2>1. providers[slots[s]].status = "active"
    BY <1>1 DEF Seating, Sat
  <2>2. providers[slots[s]].obligedFrom <= 0 /\ providers[slots[s]].obligedFrom \in Nat
    BY <1>1, <1>3 DEF LogOf, Seating, Sat, Ordered
  <2> QED
    BY <2>1, <2>2
<1> QED
  BY <1>1, <1>4, <1>5 DEF ObligedHolder

\* The views of the seating agree in every reachable state, whatever the providers, the slots
\* and the parameters: an active provider sits in the slot its record names, every occupied
\* slot is an active provider's, the feed counts them, and a feed that serves nothing has
\* nobody seated.
THEOREM SeatsAlwaysOK == Spec => []SeatsOK
<1>1. Seating => SeatsOK
  BY SeatingIsSeatsOK
<1> QED
  BY <1>1, SeatsRecorded, PTL

\* Nobody owes a round twice, however often the slots changed hands and one-off feeds were
\* reopened: the slots of record of a round have different holders.
THEOREM HolderOwesOnce == Spec => []OneSeatPerRound
<1>1. Seating => OneSeatPerRound
  BY SeatingIsOneSeatPerRound
<1> QED
  BY <1>1, SeatsRecorded, PTL

\* The round a one-off feed is reopened for is owed by those who sit when it is reopened, or sit
\* down before it begins, and by nobody else.
THEOREM ReopenedOwedBySeated == Spec => []ReopenedRoundOwedBySeated
<1>1. Seating => ReopenedRoundOwedBySeated
  BY SeatingIsReopenedOwed
<1> QED
  BY <1>1, SeatsRecorded, PTL

\* No seating, leaving, jailing or ejection changes who held a slot for a finalised round, of
\* whatever calendar and whatever the order of the calls.
THEOREM HoldersStayOnRecord == Spec => HoldersOfRecordFixed
<1>1. [HoldersKept]_vars => [HoldersKept]_vars
  OBVIOUS
<1> QED
  BY SeatsRecorded, PTL DEF HoldersOfRecordFixed, HoldersKept

=============================================================================
