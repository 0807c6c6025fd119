----------------------------- MODULE CoinProofs -----------------------------
(***************************************************************************)
(* The coins of the core realm, for every set of providers and accounts    *)
(* and every value of the parameters; and that no panic stops a handler    *)
(* that must go through, which follows from them.                          *)
(*                                                                         *)
(* A handler composes operators that each move some coins.  For each there *)
(* is a lemma that says that the books still agree with the records (but   *)
(* for the bonds, which a resolution takes apart piece by piece), how much *)
(* of what the realm has beyond its books was booked or paid out, and how  *)
(* much left the bonds.  A handler adds them up.                           *)
(***************************************************************************)
EXTENDS RoundProofs

Categories == DOMAIN NothingHeld

\* What a provider's record may hold: amounts, and no stake once it unbonds.
Purse(pr) ==
  /\ DOMAIN pr = ProviderFields
  /\ pr.stake \in Nat /\ pr.unbondAmount \in Nat /\ pr.rewards \in Nat /\ pr.missSlashedEpoch \in Nat
  /\ pr.status \in {"none", "active", "jailed", "unbonding"}
  /\ pr.status = "unbonding" => pr.stake = 0
  /\ pr.status = "none" => pr.stake = 0 /\ pr.unbondAmount = 0 /\ pr.rewards = 0

FeedAmounts(f) ==
  /\ DOMAIN f = FeedFields
  /\ f.deposit \in Nat /\ f.prepaid \in Nat /\ f.pool \in Nat /\ f.penaltyCarry \in Nat /\ f.drip \in Nat
  /\ f.subscriberPrice \in Nat /\ f.subscriptionPrice \in Nat /\ f.providerMinStake \in Nat
  /\ f.disputesInRow \in Nat

HeldAmounts(h) ==
  /\ DOMAIN h = Categories
  /\ h.stakes \in Int /\ h.unbonding \in Int /\ h.credits \in Int /\ h.pools \in Int /\ h.rewards \in Int
  /\ h.bonds \in Int /\ h.feesPending \in Nat /\ h.deposits \in Int

Amounts(st) ==
  /\ DOMAIN st = Tables
  /\ FeedAmounts(st.feed)
  /\ DOMAIN st.providers = Providers
  /\ \A p \in Providers : Purse(st.providers[p])
  /\ st.credits \in [Accounts -> Nat]
  /\ HeldAmounts(st.held)
  /\ st.balance \in Int

StakesOf(ps) == SumFunction([p \in Providers |-> ps[p].stake])
UnbondsOf(ps) == SumFunction([p \in Providers |-> ps[p].unbondAmount])
RewardsOf(ps) == SumFunction([p \in Providers |-> ps[p].rewards])

\* The books agree with the records, but for the bonds.
Booked(st) ==
  /\ Amounts(st)
  /\ st.held.stakes = StakesOf(st.providers)
  /\ st.held.unbonding = UnbondsOf(st.providers)
  /\ st.held.rewards = RewardsOf(st.providers)
  /\ st.held.credits = SumFunction(st.credits)
  /\ st.held.pools = st.feed.pool + st.feed.penaltyCarry
  /\ st.held.deposits = st.feed.deposit + st.feed.prepaid

\* What the realm has beyond its books.
Spare(st) == st.balance - HeldTotal(st.held)

\* From st to t, x coins of what was beyond the books were booked or left, and b of the bonds.
Moves(t, st, x, b) ==
  /\ Booked(t)
  /\ t.disputes = st.disputes
  /\ Spare(t) = Spare(st) - x
  /\ t.held.bonds = st.held.bonds - b

\* No provider's record appears or goes away.
SameMembers(t, st) ==
  \A p \in Providers : t.providers[p].status = "none" <=> st.providers[p].status = "none"

-----------------------------------------------------------------------------
(* Moves add up. *)

LEMMA HeldIsInt ==
  ASSUME NEW h, HeldAmounts(h)
  PROVE  HeldTotal(h) \in Int
BY DEF HeldAmounts, HeldTotal

LEMMA SpareIsInt ==
  ASSUME NEW st, Booked(st)
  PROVE  Spare(st) \in Int /\ st.held.bonds \in Int
BY HeldIsInt DEF Booked, Amounts, HeldAmounts, Spare

LEMMA MovesAdd ==
  ASSUME NEW st, NEW t, NEW u, NEW x \in Int, NEW y \in Int, NEW b \in Int, NEW c \in Int,
         Booked(st), Moves(t, st, x, b), Moves(u, t, y, c)
  PROVE  Moves(u, st, x + y, b + c)
BY SpareIsInt DEF Moves

LEMMA MovesNothing ==
  ASSUME NEW st, Booked(st)
  PROVE  Moves(st, st, 0, 0)
BY SpareIsInt DEF Moves

\* What a step of a handler leaves alone, if it moves no coins.
LEMMA SameMoney ==
  ASSUME NEW st, NEW t, Booked(st), DOMAIN t = Tables, DOMAIN t.feed = FeedFields,
         t.feed.deposit = st.feed.deposit, t.feed.prepaid = st.feed.prepaid, t.feed.pool = st.feed.pool,
         t.feed.penaltyCarry = st.feed.penaltyCarry, t.feed.drip \in Nat,
         t.feed.subscriberPrice \in Nat, t.feed.subscriptionPrice \in Nat, t.feed.providerMinStake \in Nat,
         t.feed.disputesInRow \in Nat,
         t.providers = st.providers, t.credits = st.credits, t.held = st.held, t.balance = st.balance,
         t.disputes = st.disputes
  PROVE  Moves(t, st, 0, 0)
<1>1. FeedAmounts(t.feed)
  BY DEF Booked, Amounts, FeedAmounts
<1>2. Amounts(t)
  BY <1>1 DEF Booked, Amounts
<1>3. Booked(t)
  BY <1>2 DEF Booked
<1> QED
  BY <1>3, SpareIsInt DEF Moves, Spare

-----------------------------------------------------------------------------
(* Shares. *)

LEMMA TimesOrder ==
  ASSUME NEW a \in Nat, NEW b \in Nat, NEW c \in Nat, b <= c
  PROVE  a * b \in Nat /\ a * b <= a * c
OBVIOUS

\* An amount in parts of Bps, and the whole parts of amounts that are at most r of them.
LEMMA WholeAndRest ==
  ASSUME NEW a \in Nat, NEW q, NEW r, q = a \div Bps, r = a % Bps
  PROVE  q \in Nat /\ r \in Nat /\ a = Bps * q + r
<1>1. q \in Nat
  BY DEF Bps
<1>2. r \in Nat
  BY DEF Bps
<1>3. r = a - Bps * q
  BY DEF Bps
<1>4. a = Bps * q + r
  BY ONLY a \in Nat, <1>1, <1>2, <1>3 DEF Bps
<1> QED
  BY ONLY <1>1, <1>2, <1>4

LEMMA InBps ==
  ASSUME NEW n \in 0 .. Bps
  PROVE  n \in Nat /\ n <= Bps /\ Bps \in Nat
BY DEF Bps

LEMMA WholeParts ==
  ASSUME NEW v \in Nat, NEW w \in Nat, NEW r \in Nat, v + w <= r * Bps
  PROVE  v \div Bps \in Nat /\ w \div Bps \in Nat /\ v \div Bps + w \div Bps <= r
<1> DEFINE k == v \div Bps
           l == w \div Bps
           m == v % Bps
           n == w % Bps
<1>1. k = v \div Bps /\ l = w \div Bps /\ m = v % Bps /\ n = w % Bps
  OBVIOUS
<1> HIDE DEF k, l, m, n
<1>2. k \in Nat /\ m \in Nat /\ v = Bps * k + m
  BY ONLY v \in Nat, <1>1, WholeAndRest
<1>3. l \in Nat /\ n \in Nat /\ w = Bps * l + n
  BY ONLY w \in Nat, <1>1, WholeAndRest
<1>4. k + l <= r
  BY <1>2, <1>3 DEF Bps
<1> QED
  BY ONLY <1>1, <1>2, <1>3, <1>4

LEMMA TimesSum ==
  ASSUME NEW q \in Nat, NEW x \in Nat, NEW y \in Nat
  PROVE  q * x \in Nat /\ q * y \in Nat /\ q * x + q * y = q * (x + y)
OBVIOUS

LEMMA ShareOfAmount ==
  ASSUME NEW a \in Nat, NEW bps \in 0 .. Bps
  PROVE  MulBps(a, bps) \in Nat /\ MulBps(a, bps) <= a
<1> DEFINE q == a \div Bps
           r == a % Bps
           w == r * bps
<1>1. q \in Nat /\ r \in Nat /\ a = Bps * q + r
  <2>1. q = a \div Bps /\ r = a % Bps
    OBVIOUS
  <2> HIDE DEF q, r
  <2> QED
    BY ONLY a \in Nat, <2>1, WholeAndRest
<1>2. bps \in Nat /\ Bps \in Nat /\ bps <= Bps /\ r \in Nat
  <2> HIDE DEF q, r
  <2> QED
    BY ONLY bps \in 0 .. Bps, <1>1, InBps
<1>3. w \in Nat /\ w <= r * Bps
  <2> HIDE DEF r
  <2> QED
    BY ONLY <1>2, TimesOrder
<1>4. w \div Bps \in Nat /\ w \div Bps <= r
  <2> HIDE DEF w, r
  <2>1. w + 0 <= r * Bps
    BY ONLY <1>2, <1>3 DEF Bps
  <2>2. w \div Bps \in Nat /\ 0 \div Bps \in Nat /\ w \div Bps + 0 \div Bps <= r
    BY ONLY <1>2, <1>3, <2>1, WholeParts
  <2> DEFINE k == w \div Bps
             l == 0 \div Bps
  <2>3. k \in Nat /\ l \in Nat /\ k + l <= r
    BY <2>2
  <2> HIDE DEF k, l
  <2>4. k \in Nat /\ k <= r
    BY ONLY <1>2, <2>3
  <2> QED
    BY ONLY <2>4 DEF k
<1>5. q * bps \in Nat /\ q * bps <= q * Bps
  <2> HIDE DEF q
  <2> QED
    BY ONLY <1>2, <1>1, TimesOrder
<1>6. MulBps(a, bps) = q * bps + w \div Bps
  BY DEF MulBps
<1> DEFINE x == q * bps
           y == w \div Bps
<1> HIDE DEF w
<1>7. x \in Nat /\ x <= q * 10000 /\ y \in Nat /\ y <= r /\ MulBps(a, bps) = x + y
  <2>1. x \in Nat /\ x <= q * Bps /\ y \in Nat /\ y <= r /\ MulBps(a, bps) = x + y
    BY ONLY <1>4, <1>5, <1>6
  <2> HIDE DEF x, y, q, r
  <2> QED
    BY ONLY <2>1 DEF Bps
<1> HIDE DEF q, r, x, y
<1>8. q \in Nat /\ r \in Nat /\ a = 10000 * q + r
  BY ONLY <1>2, <1>1 DEF Bps
<1> QED
  BY <1>7, <1>8

-----------------------------------------------------------------------------
(* Coins. *)

LEMMA RequireMoves ==
  ASSUME NEW st, NEW cond, Booked(st)
  PROVE  Moves(Require(st, cond), st, 0, 0)
<1>1. /\ DOMAIN Require(st, cond) = Tables
      /\ Require(st, cond).feed = st.feed /\ Require(st, cond).providers = st.providers
      /\ Require(st, cond).credits = st.credits /\ Require(st, cond).held = st.held
      /\ Require(st, cond).balance = st.balance /\ Require(st, cond).disputes = st.disputes
  BY DEF Require, Booked, Amounts, Tables
<1> QED
  BY <1>1, SameMoney DEF Booked, Amounts, FeedAmounts

LEMMA InflowMoves ==
  ASSUME NEW st, NEW amount, Booked(st)
  PROVE  Moves(Inflow(st, amount), st, 0, 0)
BY RequireMoves DEF Inflow

LEMMA ReceiveMoves ==
  ASSUME NEW st, NEW sent \in Int, Booked(st)
  PROVE  Moves(Receive(st, sent), st, -sent, 0)
BY HeldIsInt DEF Receive, Moves, Spare, Booked, Amounts, Tables, HeldAmounts

LEMMA SendMoves ==
  ASSUME NEW st, NEW amount \in Nat, Booked(st)
  PROVE  Moves(Send(st, amount), st, amount, 0)
BY HeldIsInt DEF Send, Require, Moves, Spare, Booked, Amounts, Tables, HeldAmounts

\* One account's credit changes, and the books with it.
LEMMA CreditChanged ==
  ASSUME NEW st, NEW t, NEW acct \in Accounts, NEW amount \in Int, Booked(st),
         st.credits[acct] + amount \in Nat,
         DOMAIN t = Tables, t.feed = st.feed, t.providers = st.providers, t.disputes = st.disputes,
         t.balance = st.balance, t.credits = [st.credits EXCEPT ![acct] = @ + amount],
         t.held = [st.held EXCEPT !.credits = @ + amount]
  PROVE  Moves(t, st, amount, 0)
<1>1. t.credits \in [Accounts -> Nat] /\ SumFunction(t.credits) = SumFunction(st.credits) + amount
  <2>1. st.credits \in [Accounts -> Int] /\ t.credits \in [Accounts -> Int] /\ t.credits \in [Accounts -> Nat]
    BY DEF Booked, Amounts
  <2>2. \A a \in Accounts \ {acct} : t.credits[a] = st.credits[a]
    BY DEF Booked, Amounts
  <2>3. t.credits[acct] = st.credits[acct] + amount
    BY DEF Booked, Amounts
  <2>4. SumFunction(t.credits) = SumFunction(st.credits) - st.credits[acct] + t.credits[acct]
    BY <2>1, <2>2, SumChange, AmountsAssumption
  <2>5. SumFunction(st.credits) \in Int
    BY <2>1, SumType, AmountsAssumption
  <2> QED
    BY <2>1, <2>3, <2>4, <2>5
<1>2. /\ HeldAmounts(t.held)
      /\ t.held.credits = st.held.credits + amount
      /\ t.held.stakes = st.held.stakes /\ t.held.unbonding = st.held.unbonding
      /\ t.held.rewards = st.held.rewards /\ t.held.pools = st.held.pools /\ t.held.bonds = st.held.bonds
      /\ t.held.deposits = st.held.deposits /\ t.held.feesPending = st.held.feesPending
  BY DEF Booked, Amounts, HeldAmounts, Categories, NothingHeld
<1>3. Amounts(t)
  BY <1>1, <1>2 DEF Booked, Amounts
<1>4. Booked(t)
  BY <1>1, <1>2, <1>3 DEF Booked
<1>5. Spare(t) = Spare(st) - amount
  BY <1>2 DEF Spare, HeldTotal, HeldAmounts, Booked, Amounts
<1> QED
  BY <1>2, <1>4, <1>5, SpareIsInt DEF Moves

LEMMA CreditDepositMoves ==
  ASSUME NEW st, NEW acct \in Accounts, NEW amount \in Nat, Booked(st)
  PROVE  Moves(CreditDeposit(st, acct, amount), st, amount, 0)
<1> DEFINE t == CreditDeposit(st, acct, amount)
<1>1. /\ DOMAIN t = Tables
      /\ t.feed = st.feed /\ t.providers = st.providers /\ t.disputes = st.disputes /\ t.balance = st.balance
      /\ t.credits = [st.credits EXCEPT ![acct] = @ + amount]
      /\ t.held = [st.held EXCEPT !.credits = @ + amount]
  BY DEF CreditDeposit, Inflow, Require, Booked, Amounts, Tables
<1>2. st.credits[acct] + amount \in Nat /\ amount \in Int
  BY DEF Booked, Amounts
<1> HIDE DEF t
<1>3. Moves(t, st, amount, 0)
  BY <1>1, <1>2, CreditChanged, ZenonT(60)
<1> QED
  BY <1>3 DEF t

LEMMA CreditSpendMoves ==
  ASSUME NEW st, NEW acct \in Accounts, NEW amount \in Nat, Booked(st), amount <= st.credits[acct]
  PROVE  Moves(CreditSpend(st, acct, amount), st, -amount, 0)
<1> DEFINE t == CreditSpend(st, acct, amount)
<1>1. /\ DOMAIN t = Tables
      /\ t.feed = st.feed /\ t.providers = st.providers /\ t.disputes = st.disputes /\ t.balance = st.balance
      /\ t.credits = [st.credits EXCEPT ![acct] = @ - amount]
      /\ t.held = [st.held EXCEPT !.credits = @ - amount]
  BY DEF CreditSpend, Require, Booked, Amounts, Tables
<1>2. st.credits[acct] + -amount \in Nat
  BY DEF Booked, Amounts
<1>3. /\ t.credits = [st.credits EXCEPT ![acct] = @ + -amount]
      /\ t.held = [st.held EXCEPT !.credits = @ + -amount]
  BY <1>1 DEF Booked, Amounts, HeldAmounts
<1> HIDE DEF t
<1>4. Moves(t, st, -amount, 0)
  BY <1>1, <1>2, <1>3, CreditChanged
<1> QED
  BY <1>4 DEF t

LEMMA CreditWithdrawMoves ==
  ASSUME NEW st, NEW acct \in Accounts, NEW amount \in Nat, Booked(st), amount <= st.credits[acct]
  PROVE  Moves(CreditWithdraw(st, acct, amount), st, 0, 0)
<1> DEFINE t == CreditSpend(st, acct, amount)
<1>1. Moves(t, st, -amount, 0)
  BY CreditSpendMoves
<1> HIDE DEF t
<1>2. Moves(Send(t, amount), t, amount, 0)
  BY <1>1, SendMoves DEF Moves
<1>3. Moves(Send(t, amount), st, -amount + amount, 0 + 0)
  BY <1>1, <1>2, MovesAdd
<1> QED
  BY <1>3 DEF CreditWithdraw, t

LEMMA CreditExcessMoves ==
  ASSUME NEW st, NEW acct \in Accounts, NEW sent \in Nat, NEW asked \in Nat, Booked(st), asked <= sent
  PROVE  Moves(CreditExcess(st, acct, sent, asked), st, sent - asked, 0)
BY CreditDepositMoves, MovesNothing DEF CreditExcess

LEMMA PayProposerMoves ==
  ASSUME NEW st, NEW amount \in Nat, Booked(st)
  PROVE  Moves(PayProposer(st, amount), st, amount, 0)
<1> DEFINE t == [st EXCEPT !.credits[Proposer] = @ + amount, !.held.credits = @ + amount]
<1>1. /\ DOMAIN t = Tables
      /\ t.feed = st.feed /\ t.providers = st.providers /\ t.disputes = st.disputes /\ t.balance = st.balance
      /\ t.credits = [st.credits EXCEPT ![Proposer] = @ + amount]
      /\ t.held = [st.held EXCEPT !.credits = @ + amount]
  BY DEF Booked, Amounts, Tables
<1>2. Proposer \in Accounts /\ st.credits[Proposer] + amount \in Nat
  BY ConstantsAssumption DEF Booked, Amounts
<1> HIDE DEF t
<1>3. Moves(t, st, amount, 0)
  BY <1>1, <1>2, CreditChanged
<1> QED
  BY <1>3, SendMoves DEF PayProposer, t

LEMMA SplitSubscriptionMoves ==
  ASSUME NEW st, NEW amount \in Nat, Booked(st)
  PROVE  Moves(SplitSubscription(st, amount), st, amount, 0)
<1> DEFINE t == SplitSubscription(st, amount)
           share == MulBps(amount, Param.feeSplitProvidersBps)
<1>1. share \in Nat /\ share <= amount
  BY ShareOfAmount, AmountsAssumption
<1>2. /\ DOMAIN t = Tables
      /\ t.providers = st.providers /\ t.disputes = st.disputes /\ t.credits = st.credits
      /\ t.balance = st.balance
      /\ t.feed = [st.feed EXCEPT !.pool = @ + share]
      /\ t.held = [st.held EXCEPT !.pools = @ + share, !.feesPending = @ + (amount - share)]
  BY DEF SplitSubscription, Booked, Amounts, Tables
<1> HIDE DEF t, share
<1>3. /\ DOMAIN t.held = Categories
      /\ t.held.stakes = st.held.stakes
      /\ t.held.unbonding = st.held.unbonding
      /\ t.held.credits = st.held.credits
      /\ t.held.pools = st.held.pools + share
      /\ t.held.rewards = st.held.rewards
      /\ t.held.bonds = st.held.bonds
      /\ t.held.feesPending = st.held.feesPending + (amount - share)
      /\ t.held.deposits = st.held.deposits
  BY <1>2 DEF Booked, Amounts, HeldAmounts, Categories, NothingHeld
<1>4. /\ FeedAmounts(t.feed)
      /\ t.feed.deposit = st.feed.deposit
      /\ t.feed.prepaid = st.feed.prepaid
      /\ t.feed.pool = st.feed.pool + share
      /\ t.feed.penaltyCarry = st.feed.penaltyCarry
  BY <1>1, <1>2 DEF Booked, Amounts, FeedAmounts, FeedFields, NoFeed
<1>5. Booked(t)
  BY <1>1, <1>2, <1>3, <1>4 DEF Booked, Amounts, HeldAmounts, FeedAmounts
<1>6. Moves(t, st, amount, 0)
  BY <1>1, <1>2, <1>3, <1>4, <1>5 DEF Moves, Spare, HeldTotal, Booked, Amounts, HeldAmounts
<1> QED
  BY <1>6 DEF t

LEMMA SponsorPayMoves ==
  ASSUME NEW st, NEW amount \in Nat, Booked(st)
  PROVE  Moves(SponsorPay(st, amount), st, amount, 0)
<1> DEFINE t == Inflow(st, amount)
<1>1. Moves(t, st, 0, 0)
  BY InflowMoves
<1> HIDE DEF t
<1>2. Moves(SplitSubscription(t, amount), t, amount, 0)
  BY <1>1, SplitSubscriptionMoves DEF Moves
<1>3. Moves(SplitSubscription(t, amount), st, 0 + amount, 0 + 0)
  BY <1>1, <1>2, MovesAdd
<1> QED
  BY <1>3 DEF SponsorPay, t

LEMMA PoolFilledMoves ==
  ASSUME NEW st, NEW amount \in Nat, Booked(st)
  PROVE  Moves([st EXCEPT !.feed.pool = @ + amount, !.held.pools = @ + amount], st, amount, 0)
<1> DEFINE t == [st EXCEPT !.feed.pool = @ + amount, !.held.pools = @ + amount]
<1>1. /\ DOMAIN t = Tables
      /\ t.providers = st.providers /\ t.disputes = st.disputes /\ t.credits = st.credits
      /\ t.balance = st.balance
      /\ t.feed = [st.feed EXCEPT !.pool = @ + amount]
      /\ t.held = [st.held EXCEPT !.pools = @ + amount]
  BY DEF Booked, Amounts, Tables
<1> HIDE DEF t
<1>2. /\ DOMAIN t.held = Categories
      /\ t.held.stakes = st.held.stakes
      /\ t.held.unbonding = st.held.unbonding
      /\ t.held.credits = st.held.credits
      /\ t.held.pools = st.held.pools + amount
      /\ t.held.rewards = st.held.rewards
      /\ t.held.bonds = st.held.bonds
      /\ t.held.feesPending = st.held.feesPending
      /\ t.held.deposits = st.held.deposits
  BY <1>1 DEF Booked, Amounts, HeldAmounts, Categories, NothingHeld
<1>3. /\ FeedAmounts(t.feed)
      /\ t.feed.deposit = st.feed.deposit
      /\ t.feed.prepaid = st.feed.prepaid
      /\ t.feed.pool = st.feed.pool + amount
      /\ t.feed.penaltyCarry = st.feed.penaltyCarry
  BY <1>1 DEF Booked, Amounts, FeedAmounts, FeedFields, NoFeed
<1>4. Booked(t)
  BY <1>1, <1>2, <1>3 DEF Booked, Amounts, HeldAmounts, FeedAmounts
<1>5. Moves(t, st, amount, 0)
  BY <1>1, <1>2, <1>4 DEF Moves, Spare, HeldTotal, Booked, Amounts, HeldAmounts
<1> QED
  BY <1>5 DEF t

LEMMA BountyInMoves ==
  ASSUME NEW st, NEW amount \in Nat, Booked(st)
  PROVE  Moves(BountyIn(st, amount), st, amount, 0)
<1> DEFINE t == Inflow(st, amount)
<1>1. Moves(t, st, 0, 0)
  BY InflowMoves
<1> HIDE DEF t
<1>2. Moves(BountyIn(st, amount), t, amount, 0)
  BY <1>1, PoolFilledMoves DEF Moves, BountyIn, t
<1>3. Moves(BountyIn(st, amount), st, 0 + amount, 0 + 0)
  BY <1>1, <1>2, MovesAdd
<1> QED
  BY <1>3

LEMMA FeedPoolToFeesMoves ==
  ASSUME NEW st, Booked(st)
  PROVE  Moves(FeedPoolToFees(st), st, 0, 0)
<1> DEFINE t == FeedPoolToFees(st)
           amount == st.feed.pool + st.feed.penaltyCarry
<1>1. amount \in Nat /\ amount = st.feed.pool + st.feed.penaltyCarry
  BY DEF Booked, Amounts, FeedAmounts
<1>2. /\ DOMAIN t = Tables
      /\ t.providers = st.providers /\ t.disputes = st.disputes /\ t.credits = st.credits
      /\ t.balance = st.balance
      /\ t.feed = [st.feed EXCEPT !.pool = 0, !.penaltyCarry = 0]
      /\ t.held = [st.held EXCEPT !.pools = @ - amount, !.feesPending = @ + amount]
  BY DEF FeedPoolToFees, Booked, Amounts, Tables
<1> HIDE DEF t, amount
<1>3. /\ DOMAIN t.held = Categories
      /\ t.held.stakes = st.held.stakes
      /\ t.held.unbonding = st.held.unbonding
      /\ t.held.credits = st.held.credits
      /\ t.held.pools = st.held.pools - amount
      /\ t.held.rewards = st.held.rewards
      /\ t.held.bonds = st.held.bonds
      /\ t.held.feesPending = st.held.feesPending + amount
      /\ t.held.deposits = st.held.deposits
  BY <1>2 DEF Booked, Amounts, HeldAmounts, Categories, NothingHeld
<1>4. /\ FeedAmounts(t.feed)
      /\ t.feed.deposit = st.feed.deposit
      /\ t.feed.prepaid = st.feed.prepaid
      /\ t.feed.pool = 0
      /\ t.feed.penaltyCarry = 0
  BY <1>1, <1>2 DEF Booked, Amounts, FeedAmounts, FeedFields, NoFeed
<1>5. Booked(t)
  BY <1>1, <1>2, <1>3, <1>4 DEF Booked, Amounts, HeldAmounts, FeedAmounts
<1>6. Moves(t, st, 0, 0)
  BY <1>1, <1>2, <1>3, <1>5 DEF Moves, Spare, HeldTotal, Booked, Amounts, HeldAmounts
<1> QED
  BY <1>6 DEF t

LEMMA FeedPoolRefundMoves ==
  ASSUME NEW st, Booked(st)
  PROVE  Moves(FeedPoolRefund(st), st, 0, 0)
<1> DEFINE amount == st.feed.pool + st.feed.penaltyCarry
           t == [st EXCEPT !.feed.pool = 0, !.feed.penaltyCarry = 0,
                           !.held.pools = @ - amount]
<1>1. amount \in Nat /\ amount = st.feed.pool + st.feed.penaltyCarry
  BY DEF Booked, Amounts, FeedAmounts
<1>2. /\ DOMAIN t = Tables
      /\ t.providers = st.providers /\ t.disputes = st.disputes /\ t.credits = st.credits
      /\ t.balance = st.balance
      /\ t.feed = [st.feed EXCEPT !.pool = 0, !.penaltyCarry = 0]
      /\ t.held = [st.held EXCEPT !.pools = @ - amount]
  BY DEF Booked, Amounts, Tables
<1> HIDE DEF t, amount
<1>3. /\ DOMAIN t.held = Categories
      /\ t.held.stakes = st.held.stakes
      /\ t.held.unbonding = st.held.unbonding
      /\ t.held.credits = st.held.credits
      /\ t.held.pools = st.held.pools - amount
      /\ t.held.rewards = st.held.rewards
      /\ t.held.bonds = st.held.bonds
      /\ t.held.feesPending = st.held.feesPending
      /\ t.held.deposits = st.held.deposits
  BY <1>2 DEF Booked, Amounts, HeldAmounts, Categories, NothingHeld
<1>4. /\ FeedAmounts(t.feed)
      /\ t.feed.deposit = st.feed.deposit
      /\ t.feed.prepaid = st.feed.prepaid
      /\ t.feed.pool = 0
      /\ t.feed.penaltyCarry = 0
  BY <1>1, <1>2 DEF Booked, Amounts, FeedAmounts, FeedFields, NoFeed
<1>5. Booked(t)
  BY <1>1, <1>2, <1>3, <1>4 DEF Booked, Amounts, HeldAmounts, FeedAmounts
<1>6. Moves(t, st, -amount, 0)
  BY <1>1, <1>2, <1>3, <1>5 DEF Moves, Spare, HeldTotal, Booked, Amounts, HeldAmounts
<1>7. Moves(PayProposer(t, amount), t, amount, 0)
  BY <1>1, <1>6, PayProposerMoves DEF Moves
<1>8. Moves(PayProposer(t, amount), st, -amount + amount, 0 + 0)
  BY <1>1, <1>6, <1>7, MovesAdd
<1>9. Moves(PayProposer(t, amount), st, 0, 0)
  BY <1>1, <1>8
<1> QED
  BY <1>1, <1>9, MovesNothing DEF FeedPoolRefund, t, amount

LEMMA DepositRefundMoves ==
  ASSUME NEW st, Booked(st)
  PROVE  Moves(DepositRefund(st), st, 0, 0)
<1> DEFINE amount == st.feed.deposit + st.feed.prepaid
           t == [st EXCEPT !.feed.deposit = 0, !.feed.prepaid = 0,
                           !.held.deposits = @ - amount]
<1>1. amount \in Nat /\ amount = st.feed.deposit + st.feed.prepaid
  BY DEF Booked, Amounts, FeedAmounts
<1>2. /\ DOMAIN t = Tables
      /\ t.providers = st.providers /\ t.disputes = st.disputes /\ t.credits = st.credits
      /\ t.balance = st.balance
      /\ t.feed = [st.feed EXCEPT !.deposit = 0, !.prepaid = 0]
      /\ t.held = [st.held EXCEPT !.deposits = @ - amount]
  BY DEF Booked, Amounts, Tables
<1> HIDE DEF t, amount
<1>3. /\ DOMAIN t.held = Categories
      /\ t.held.stakes = st.held.stakes
      /\ t.held.unbonding = st.held.unbonding
      /\ t.held.credits = st.held.credits
      /\ t.held.pools = st.held.pools
      /\ t.held.rewards = st.held.rewards
      /\ t.held.bonds = st.held.bonds
      /\ t.held.feesPending = st.held.feesPending
      /\ t.held.deposits = st.held.deposits - amount
  BY <1>2 DEF Booked, Amounts, HeldAmounts, Categories, NothingHeld
<1>4. /\ FeedAmounts(t.feed)
      /\ t.feed.deposit = 0
      /\ t.feed.prepaid = 0
      /\ t.feed.pool = st.feed.pool
      /\ t.feed.penaltyCarry = st.feed.penaltyCarry
  BY <1>1, <1>2 DEF Booked, Amounts, FeedAmounts, FeedFields, NoFeed
<1>5. Booked(t)
  BY <1>1, <1>2, <1>3, <1>4 DEF Booked, Amounts, HeldAmounts, FeedAmounts
<1>6. Moves(t, st, -amount, 0)
  BY <1>1, <1>2, <1>3, <1>5 DEF Moves, Spare, HeldTotal, Booked, Amounts, HeldAmounts
<1>7. Moves(PayProposer(t, amount), t, amount, 0)
  BY <1>1, <1>6, PayProposerMoves DEF Moves
<1>8. Moves(PayProposer(t, amount), st, -amount + amount, 0 + 0)
  BY <1>1, <1>6, <1>7, MovesAdd
<1>9. Moves(PayProposer(t, amount), st, 0, 0)
  BY <1>1, <1>8
<1> QED
  BY <1>1, <1>9, MovesNothing DEF DepositRefund, t, amount

LEMMA DepositToFeesMoves ==
  ASSUME NEW st, Booked(st)
  PROVE  Moves(DepositToFees(st), st, 0, 0)
<1> DEFINE dep == st.feed.deposit
           pre == st.feed.prepaid
           t == [st EXCEPT !.feed.deposit = 0, !.feed.prepaid = 0,
                           !.held.deposits = @ - dep - pre, !.held.feesPending = @ + dep]
<1>1. dep \in Nat /\ pre \in Nat /\ dep = st.feed.deposit /\ pre = st.feed.prepaid
  BY DEF Booked, Amounts, FeedAmounts
<1>2. /\ DOMAIN t = Tables
      /\ t.providers = st.providers /\ t.disputes = st.disputes /\ t.credits = st.credits
      /\ t.balance = st.balance
      /\ t.feed = [st.feed EXCEPT !.deposit = 0, !.prepaid = 0]
      /\ t.held = [st.held EXCEPT !.deposits = @ - dep - pre, !.feesPending = @ + dep]
  BY DEF Booked, Amounts, Tables
<1> HIDE DEF t, dep, pre
<1>3. /\ DOMAIN t.held = Categories
      /\ t.held.stakes = st.held.stakes
      /\ t.held.unbonding = st.held.unbonding
      /\ t.held.credits = st.held.credits
      /\ t.held.pools = st.held.pools
      /\ t.held.rewards = st.held.rewards
      /\ t.held.bonds = st.held.bonds
      /\ t.held.feesPending = st.held.feesPending + dep
      /\ t.held.deposits = st.held.deposits - dep - pre
  BY <1>2 DEF Booked, Amounts, HeldAmounts, Categories, NothingHeld
<1>4. /\ FeedAmounts(t.feed)
      /\ t.feed.deposit = 0
      /\ t.feed.prepaid = 0
      /\ t.feed.pool = st.feed.pool
      /\ t.feed.penaltyCarry = st.feed.penaltyCarry
  BY <1>1, <1>2 DEF Booked, Amounts, FeedAmounts, FeedFields, NoFeed
<1>5. Booked(t)
  BY <1>1, <1>2, <1>3, <1>4 DEF Booked, Amounts, HeldAmounts, FeedAmounts
<1>6. Moves(t, st, -pre, 0)
  BY <1>1, <1>2, <1>3, <1>5 DEF Moves, Spare, HeldTotal, Booked, Amounts, HeldAmounts
<1>7. Moves(PayProposer(t, pre), t, pre, 0)
  BY <1>1, <1>6, PayProposerMoves DEF Moves
<1>8. Moves(PayProposer(t, pre), st, -pre + pre, 0 + 0)
  BY <1>1, <1>6, <1>7, MovesAdd
<1>9. Moves(PayProposer(t, pre), st, 0, 0)
  BY <1>1, <1>8
<1> QED
  BY <1>1, <1>9, MovesNothing DEF DepositToFees, t, dep, pre

LEMMA DepositFiledMoves ==
  ASSUME NEW st, NEW deposit \in Nat, NEW funding \in Nat, Booked(st)
  PROVE  Moves([st EXCEPT !.feed.deposit = @ + deposit, !.feed.prepaid = @ + funding,
                            !.held.deposits = @ + deposit + funding], st, deposit + funding, 0)
<1> DEFINE t == [st EXCEPT !.feed.deposit = @ + deposit, !.feed.prepaid = @ + funding,
                            !.held.deposits = @ + deposit + funding]
<1>1. /\ DOMAIN t = Tables
      /\ t.providers = st.providers /\ t.disputes = st.disputes /\ t.credits = st.credits
      /\ t.balance = st.balance
      /\ t.feed = [st.feed EXCEPT !.deposit = @ + deposit, !.prepaid = @ + funding]
      /\ t.held = [st.held EXCEPT !.deposits = @ + deposit + funding]
  BY DEF Booked, Amounts, Tables
<1> HIDE DEF t
<1>2. /\ DOMAIN t.held = Categories
      /\ t.held.stakes = st.held.stakes
      /\ t.held.unbonding = st.held.unbonding
      /\ t.held.credits = st.held.credits
      /\ t.held.pools = st.held.pools
      /\ t.held.rewards = st.held.rewards
      /\ t.held.bonds = st.held.bonds
      /\ t.held.feesPending = st.held.feesPending
      /\ t.held.deposits = st.held.deposits + deposit + funding
  BY <1>1 DEF Booked, Amounts, HeldAmounts, Categories, NothingHeld
<1>3. /\ FeedAmounts(t.feed)
      /\ t.feed.deposit = st.feed.deposit + deposit
      /\ t.feed.prepaid = st.feed.prepaid + funding
      /\ t.feed.pool = st.feed.pool
      /\ t.feed.penaltyCarry = st.feed.penaltyCarry
  BY <1>1 DEF Booked, Amounts, FeedAmounts, FeedFields, NoFeed
<1>4. Booked(t)
  BY <1>1, <1>2, <1>3 DEF Booked, Amounts, HeldAmounts, FeedAmounts
<1>5. Moves(t, st, deposit + funding, 0)
  BY <1>1, <1>2, <1>4 DEF Moves, Spare, HeldTotal, Booked, Amounts, HeldAmounts
<1> QED
  BY <1>5 DEF t

LEMMA CreditSpendOnFeedMoves ==
  ASSUME NEW st, NEW acct \in Accounts, NEW deposit \in Nat, NEW funding \in Nat, Booked(st),
         deposit + funding <= st.credits[acct]
  PROVE  Moves(CreditSpendOnFeed(st, acct, deposit, funding), st, 0, 0)
<1> DEFINE x == deposit + funding
           t == CreditSpend(st, acct, x)
           u == [t EXCEPT !.feed.deposit = @ + deposit, !.feed.prepaid = @ + funding,
                          !.held.deposits = @ + deposit + funding]
<1>1. x \in Nat /\ x = deposit + funding
  OBVIOUS
<1>2. CreditSpendOnFeed(st, acct, deposit, funding) = u
  BY DEF CreditSpendOnFeed
<1>3. Moves(t, st, -x, 0)
  BY CreditSpendMoves
<1> HIDE DEF t
<1>4. Moves(u, t, x, 0)
  BY <1>3, DepositFiledMoves DEF Moves
<1> HIDE DEF x, u
<1>5. Moves(u, st, -x + x, 0 + 0)
  BY <1>1, <1>3, <1>4, MovesAdd
<1> QED
  BY <1>1, <1>2, <1>5

LEMMA EscrowReleasedMoves ==
  ASSUME NEW st, NEW startAt, NEW drip \in Nat, Booked(st)
  PROVE  Moves([st EXCEPT !.feed.status = "active", !.feed.startAt = startAt, !.feed.drip = drip,
                            !.feed.prepaid = 0, !.held.deposits = @ - st.feed.prepaid], st, -st.feed.prepaid, 0)
<1> DEFINE t == [st EXCEPT !.feed.status = "active", !.feed.startAt = startAt, !.feed.drip = drip,
                            !.feed.prepaid = 0, !.held.deposits = @ - st.feed.prepaid]
<1>1. /\ DOMAIN t = Tables
      /\ t.providers = st.providers /\ t.disputes = st.disputes /\ t.credits = st.credits
      /\ t.balance = st.balance
      /\ t.feed = [st.feed EXCEPT !.status = "active", !.startAt = startAt, !.drip = drip, !.prepaid = 0]
      /\ t.held = [st.held EXCEPT !.deposits = @ - st.feed.prepaid]
  BY DEF Booked, Amounts, Tables
<1> HIDE DEF t
<1>2. /\ DOMAIN t.held = Categories
      /\ t.held.stakes = st.held.stakes
      /\ t.held.unbonding = st.held.unbonding
      /\ t.held.credits = st.held.credits
      /\ t.held.pools = st.held.pools
      /\ t.held.rewards = st.held.rewards
      /\ t.held.bonds = st.held.bonds
      /\ t.held.feesPending = st.held.feesPending
      /\ t.held.deposits = st.held.deposits - st.feed.prepaid
  BY <1>1 DEF Booked, Amounts, HeldAmounts, Categories, NothingHeld
<1>3. /\ FeedAmounts(t.feed)
      /\ t.feed.deposit = st.feed.deposit
      /\ t.feed.prepaid = 0
      /\ t.feed.pool = st.feed.pool
      /\ t.feed.penaltyCarry = st.feed.penaltyCarry
  BY <1>1 DEF Booked, Amounts, FeedAmounts, FeedFields, NoFeed
<1>4. Booked(t)
  BY <1>1, <1>2, <1>3 DEF Booked, Amounts, HeldAmounts, FeedAmounts
<1>5. Moves(t, st, -st.feed.prepaid, 0)
  BY <1>1, <1>2, <1>4 DEF Moves, Spare, HeldTotal, Booked, Amounts, HeldAmounts, FeedAmounts
<1> QED
  BY <1>5 DEF t

LEMMA FeedActivateMoves ==
  ASSUME NEW st, NEW startAt, NEW drip \in Nat, Booked(st)
  PROVE  Moves(FeedActivate(st, startAt, drip), st, 0, 0)
<1> DEFINE pre == st.feed.prepaid
           act == [st EXCEPT !.feed.status = "active", !.feed.startAt = startAt, !.feed.drip = drip,
                             !.feed.prepaid = 0, !.held.deposits = @ - pre]
           funded == [act EXCEPT !.feed.pool = @ + pre, !.held.pools = @ + pre]
<1>1. pre \in Nat
  BY DEF Booked, Amounts, FeedAmounts
<1>2. Moves(act, st, -pre, 0)
  BY EscrowReleasedMoves
<1>3. FeedActivate(st, startAt, drip)
        = IF pre = 0 THEN act ELSE IF Recurs THEN SplitSubscription(act, pre) ELSE funded
  BY DEF FeedActivate
<1> HIDE DEF act, pre
<1>4. Moves(SplitSubscription(act, pre), act, pre, 0)
  BY <1>1, <1>2, SplitSubscriptionMoves DEF Moves
<1>5. Moves(funded, act, pre, 0)
  BY <1>1, <1>2, PoolFilledMoves DEF Moves
<1> HIDE DEF funded
<1>6. Moves(SplitSubscription(act, pre), st, -pre + pre, 0 + 0)
  BY <1>1, <1>2, <1>4, MovesAdd
<1>7. Moves(funded, st, -pre + pre, 0 + 0)
  BY <1>1, <1>2, <1>5, MovesAdd
<1> QED
  BY <1>1, <1>2, <1>3, <1>6, <1>7

-----------------------------------------------------------------------------
(* Bonds. *)

LEMMA BondsTakenMoves ==
  ASSUME NEW st, NEW amount \in Int, Booked(st)
  PROVE  Moves([st EXCEPT !.held.bonds = @ - amount], st, -amount, amount)
<1> DEFINE t == [st EXCEPT !.held.bonds = @ - amount]
<1>1. /\ DOMAIN t = Tables
      /\ t.providers = st.providers /\ t.disputes = st.disputes /\ t.credits = st.credits
      /\ t.balance = st.balance
      /\ t.feed = st.feed
      /\ t.held = [st.held EXCEPT !.bonds = @ - amount]
  BY DEF Booked, Amounts, Tables
<1> HIDE DEF t
<1>2. /\ DOMAIN t.held = Categories
      /\ t.held.stakes = st.held.stakes
      /\ t.held.unbonding = st.held.unbonding
      /\ t.held.credits = st.held.credits
      /\ t.held.pools = st.held.pools
      /\ t.held.rewards = st.held.rewards
      /\ t.held.bonds = st.held.bonds - amount
      /\ t.held.feesPending = st.held.feesPending
      /\ t.held.deposits = st.held.deposits
  BY <1>1 DEF Booked, Amounts, HeldAmounts, Categories, NothingHeld
<1>3. /\ FeedAmounts(t.feed)
      /\ t.feed.deposit = st.feed.deposit
      /\ t.feed.prepaid = st.feed.prepaid
      /\ t.feed.pool = st.feed.pool
      /\ t.feed.penaltyCarry = st.feed.penaltyCarry
  BY <1>1 DEF Booked, Amounts, FeedAmounts, FeedFields, NoFeed
<1>4. Booked(t)
  BY <1>1, <1>2, <1>3 DEF Booked, Amounts, HeldAmounts, FeedAmounts
<1>5. Moves(t, st, -amount, amount)
  BY <1>1, <1>2, <1>4 DEF Moves, Spare, HeldTotal, Booked, Amounts, HeldAmounts
<1> QED
  BY <1>5 DEF t

LEMMA BondReleaseMoves ==
  ASSUME NEW st, NEW amount \in Nat, Booked(st)
  PROVE  Moves(BondRelease(st, amount), st, 0, amount)
<1> DEFINE r == Require(st, amount <= st.held.bonds)
           t == [r EXCEPT !.held.bonds = @ - amount]
<1>1. Moves(r, st, 0, 0)
  BY RequireMoves
<1>2. BondRelease(st, amount) = IF amount > 0 THEN Send(t, amount) ELSE st
  BY DEF BondRelease
<1> HIDE DEF r
<1>3. Moves(t, r, -amount, amount)
  BY <1>1, BondsTakenMoves DEF Moves
<1> HIDE DEF t
<1>4. Moves(t, st, 0 + -amount, 0 + amount)
  BY <1>1, <1>3, MovesAdd
<1>5. Moves(Send(t, amount), t, amount, 0)
  BY <1>3, SendMoves DEF Moves
<1>6. Moves(Send(t, amount), st, (0 + -amount) + amount, (0 + amount) + 0)
  BY <1>4, <1>5, MovesAdd
<1> QED
  BY <1>2, <1>6, MovesNothing

LEMMA FundVotersMoves ==
  ASSUME NEW st, NEW amount \in Nat, Booked(st)
  PROVE  Moves(FundVoters(st, amount), st, 0, amount)
BY BondReleaseMoves DEF FundVoters

LEMMA BondsToPoolMoves ==
  ASSUME NEW st, NEW amount \in Nat, Booked(st)
  PROVE  Moves([st EXCEPT !.held.bonds = @ - amount, !.feed.penaltyCarry = @ + amount, !.held.pools = @ + amount], st, 0, amount)
<1> DEFINE t == [st EXCEPT !.held.bonds = @ - amount, !.feed.penaltyCarry = @ + amount, !.held.pools = @ + amount]
<1>1. /\ DOMAIN t = Tables
      /\ t.providers = st.providers /\ t.disputes = st.disputes /\ t.credits = st.credits
      /\ t.balance = st.balance
      /\ t.feed = [st.feed EXCEPT !.penaltyCarry = @ + amount]
      /\ t.held = [st.held EXCEPT !.bonds = @ - amount, !.pools = @ + amount]
  BY DEF Booked, Amounts, Tables
<1> HIDE DEF t
<1>2. /\ DOMAIN t.held = Categories
      /\ t.held.stakes = st.held.stakes
      /\ t.held.unbonding = st.held.unbonding
      /\ t.held.credits = st.held.credits
      /\ t.held.pools = st.held.pools + amount
      /\ t.held.rewards = st.held.rewards
      /\ t.held.bonds = st.held.bonds - amount
      /\ t.held.feesPending = st.held.feesPending
      /\ t.held.deposits = st.held.deposits
  BY <1>1 DEF Booked, Amounts, HeldAmounts, Categories, NothingHeld
<1>3. /\ FeedAmounts(t.feed)
      /\ t.feed.deposit = st.feed.deposit
      /\ t.feed.prepaid = st.feed.prepaid
      /\ t.feed.pool = st.feed.pool
      /\ t.feed.penaltyCarry = st.feed.penaltyCarry + amount
  BY <1>1 DEF Booked, Amounts, FeedAmounts, FeedFields, NoFeed
<1>4. Booked(t)
  BY <1>1, <1>2, <1>3 DEF Booked, Amounts, HeldAmounts, FeedAmounts
<1>5. Moves(t, st, 0, amount)
  BY <1>1, <1>2, <1>4 DEF Moves, Spare, HeldTotal, Booked, Amounts, HeldAmounts
<1> QED
  BY <1>5 DEF t

LEMMA BondToPoolMoves ==
  ASSUME NEW st, NEW amount \in Nat, Booked(st)
  PROVE  Moves(BondToPool(st, amount), st, 0, amount)
<1> DEFINE r == Require(st, amount <= st.held.bonds)
           t == [r EXCEPT !.held.bonds = @ - amount, !.feed.penaltyCarry = @ + amount, !.held.pools = @ + amount]
<1>1. Moves(r, st, 0, 0)
  BY RequireMoves
<1>2. BondToPool(st, amount) = IF amount > 0 THEN t ELSE st
  BY DEF BondToPool
<1> HIDE DEF r
<1>3. Moves(t, r, 0, amount)
  BY <1>1, BondsToPoolMoves DEF Moves
<1> HIDE DEF t
<1>4. Moves(t, st, 0 + 0, 0 + amount)
  BY <1>1, <1>3, MovesAdd
<1> QED
  BY <1>2, <1>4, MovesNothing

LEMMA BondsToFeesMoves ==
  ASSUME NEW st, NEW amount \in Nat, Booked(st)
  PROVE  Moves([st EXCEPT !.held.bonds = @ - amount, !.held.feesPending = @ + amount], st, 0, amount)
<1> DEFINE t == [st EXCEPT !.held.bonds = @ - amount, !.held.feesPending = @ + amount]
<1>1. /\ DOMAIN t = Tables
      /\ t.providers = st.providers /\ t.disputes = st.disputes /\ t.credits = st.credits
      /\ t.balance = st.balance
      /\ t.feed = st.feed
      /\ t.held = [st.held EXCEPT !.bonds = @ - amount, !.feesPending = @ + amount]
  BY DEF Booked, Amounts, Tables
<1> HIDE DEF t
<1>2. /\ DOMAIN t.held = Categories
      /\ t.held.stakes = st.held.stakes
      /\ t.held.unbonding = st.held.unbonding
      /\ t.held.credits = st.held.credits
      /\ t.held.pools = st.held.pools
      /\ t.held.rewards = st.held.rewards
      /\ t.held.bonds = st.held.bonds - amount
      /\ t.held.feesPending = st.held.feesPending + amount
      /\ t.held.deposits = st.held.deposits
  BY <1>1 DEF Booked, Amounts, HeldAmounts, Categories, NothingHeld
<1>3. /\ FeedAmounts(t.feed)
      /\ t.feed.deposit = st.feed.deposit
      /\ t.feed.prepaid = st.feed.prepaid
      /\ t.feed.pool = st.feed.pool
      /\ t.feed.penaltyCarry = st.feed.penaltyCarry
  BY <1>1 DEF Booked, Amounts, FeedAmounts, FeedFields, NoFeed
<1>4. Booked(t)
  BY <1>1, <1>2, <1>3 DEF Booked, Amounts, HeldAmounts, FeedAmounts
<1>5. Moves(t, st, 0, amount)
  BY <1>1, <1>2, <1>4 DEF Moves, Spare, HeldTotal, Booked, Amounts, HeldAmounts
<1> QED
  BY <1>5 DEF t

LEMMA BondToFeesMoves ==
  ASSUME NEW st, NEW amount \in Nat, Booked(st)
  PROVE  Moves(BondToFees(st, amount), st, 0, amount)
<1> DEFINE r == Require(st, amount <= st.held.bonds)
           t == [r EXCEPT !.held.bonds = @ - amount, !.held.feesPending = @ + amount]
<1>1. Moves(r, st, 0, 0)
  BY RequireMoves
<1>2. BondToFees(st, amount) = IF amount > 0 THEN t ELSE st
  BY DEF BondToFees
<1> HIDE DEF r
<1>3. Moves(t, r, 0, amount)
  BY <1>1, BondsToFeesMoves DEF Moves
<1> HIDE DEF t
<1>4. Moves(t, st, 0 + 0, 0 + amount)
  BY <1>1, <1>3, MovesAdd
<1> QED
  BY <1>2, <1>4, MovesNothing

-----------------------------------------------------------------------------
(* Providers. *)

Purses(ps) == DOMAIN ps = Providers /\ \A p \in Providers : Purse(ps[p])

LEMMA PurseSums ==
  ASSUME NEW ps, Purses(ps)
  PROVE  StakesOf(ps) \in Nat /\ UnbondsOf(ps) \in Nat /\ RewardsOf(ps) \in Nat
<1>1. /\ [p \in Providers |-> ps[p].stake] \in [Providers -> Nat]
      /\ [p \in Providers |-> ps[p].unbondAmount] \in [Providers -> Nat]
      /\ [p \in Providers |-> ps[p].rewards] \in [Providers -> Nat]
  BY DEF Purses, Purse
<1> QED
  BY <1>1, SumNat, ConstantsAssumption DEF StakesOf, UnbondsOf, RewardsOf

\* One record replaced.
LEMMA OnePurse ==
  ASSUME NEW ps, Purses(ps), NEW p \in Providers, NEW pr, Purse(pr), NEW qs, qs = [ps EXCEPT ![p] = pr]
  PROVE  /\ Purses(qs)
         /\ StakesOf(qs) = StakesOf(ps) - ps[p].stake + pr.stake
         /\ UnbondsOf(qs) = UnbondsOf(ps) - ps[p].unbondAmount + pr.unbondAmount
         /\ RewardsOf(qs) = RewardsOf(ps) - ps[p].rewards + pr.rewards
<1>1. Purses(qs) /\ qs[p] = pr /\ \A q \in Providers \ {p} : qs[q] = ps[q]
  BY DEF Purses
<1>2. IsFiniteSet(Providers)
  BY ConstantsAssumption
<1>3. StakesOf(qs) = StakesOf(ps) - ps[p].stake + pr.stake
  <2> DEFINE f == [q \in Providers |-> ps[q].stake]
             g == [q \in Providers |-> qs[q].stake]
  <2>1. f \in [Providers -> Int] /\ g \in [Providers -> Int] /\ \A q \in Providers \ {p} : g[q] = f[q]
    BY <1>1 DEF Purses, Purse
  <2>2. f[p] = ps[p].stake /\ g[p] = pr.stake /\ SumFunction(f) = StakesOf(ps) /\ SumFunction(g) = StakesOf(qs)
    BY <1>1 DEF StakesOf
  <2> HIDE DEF f, g
  <2> QED
    BY <1>2, <2>1, <2>2, SumChange
<1>4. UnbondsOf(qs) = UnbondsOf(ps) - ps[p].unbondAmount + pr.unbondAmount
  <2> DEFINE f == [q \in Providers |-> ps[q].unbondAmount]
             g == [q \in Providers |-> qs[q].unbondAmount]
  <2>1. f \in [Providers -> Int] /\ g \in [Providers -> Int] /\ \A q \in Providers \ {p} : g[q] = f[q]
    BY <1>1 DEF Purses, Purse
  <2>2. f[p] = ps[p].unbondAmount /\ g[p] = pr.unbondAmount /\ SumFunction(f) = UnbondsOf(ps)
        /\ SumFunction(g) = UnbondsOf(qs)
    BY <1>1 DEF UnbondsOf
  <2> HIDE DEF f, g
  <2> QED
    BY <1>2, <2>1, <2>2, SumChange
<1>5. RewardsOf(qs) = RewardsOf(ps) - ps[p].rewards + pr.rewards
  <2> DEFINE f == [q \in Providers |-> ps[q].rewards]
             g == [q \in Providers |-> qs[q].rewards]
  <2>1. f \in [Providers -> Int] /\ g \in [Providers -> Int] /\ \A q \in Providers \ {p} : g[q] = f[q]
    BY <1>1 DEF Purses, Purse
  <2>2. f[p] = ps[p].rewards /\ g[p] = pr.rewards /\ SumFunction(f) = RewardsOf(ps) /\ SumFunction(g) = RewardsOf(qs)
    BY <1>1 DEF RewardsOf
  <2> HIDE DEF f, g
  <2> QED
    BY <1>2, <2>1, <2>2, SumChange
<1> QED
  BY <1>1, <1>3, <1>4, <1>5

\* Records of providers and the books of their stakes, unbonds and rewards change together.
LEMMA ProviderMoneyChanged ==
  ASSUME NEW st, NEW t, NEW x \in Int, Booked(st),
         DOMAIN t = Tables, t.feed = st.feed, t.disputes = st.disputes, t.credits = st.credits,
         t.balance = st.balance, Purses(t.providers), DOMAIN t.held = Categories,
         t.held.stakes = StakesOf(t.providers), t.held.unbonding = UnbondsOf(t.providers),
         t.held.rewards = RewardsOf(t.providers),
         t.held.credits = st.held.credits, t.held.pools = st.held.pools, t.held.bonds = st.held.bonds,
         t.held.feesPending = st.held.feesPending, t.held.deposits = st.held.deposits,
         StakesOf(t.providers) + UnbondsOf(t.providers) + RewardsOf(t.providers)
           = StakesOf(st.providers) + UnbondsOf(st.providers) + RewardsOf(st.providers) + x
  PROVE  Moves(t, st, x, 0)
<1>1. HeldAmounts(t.held)
  BY PurseSums DEF Booked, Amounts, HeldAmounts
<1>2. Booked(t)
  BY <1>1 DEF Booked, Amounts, Purses
<1>3. Purses(st.providers)
  BY DEF Booked, Amounts, Purses
<1>4. Spare(t) = Spare(st) - x
  BY <1>1, <1>3, PurseSums DEF Spare, HeldTotal, Booked, Amounts, HeldAmounts
<1> QED
  BY <1>2, <1>4, SpareIsInt DEF Moves

LEMMA NewProviderMoves ==
  ASSUME NEW st, NEW p \in Providers, NEW stake \in Nat, NEW s, NEW from, Booked(st),
         st.providers[p].status = "none"
  PROVE  Moves(NewProvider(st, p, stake, s, from), st, stake, 0)
<1> DEFINE t == NewProvider(st, p, stake, s, from)
           pr == [NoProvider EXCEPT !.status = "active", !.slot = s, !.stake = stake, !.obligedFrom = from,
                                    !.epochStart = now, !.jailingsSince = now]
<1>1. /\ DOMAIN t = Tables
      /\ t.feed = st.feed /\ t.disputes = st.disputes /\ t.credits = st.credits /\ t.balance = st.balance
      /\ t.providers = [st.providers EXCEPT ![p] = pr]
      /\ t.held = [st.held EXCEPT !.stakes = @ + stake]
  BY DEF NewProvider, Inflow, Require, Booked, Amounts, Tables
<1>2. Purse(pr) /\ pr.stake = stake /\ pr.unbondAmount = 0 /\ pr.rewards = 0
  BY DEF Purse, NoProvider, ProviderFields
<1>3. Purses(st.providers) /\ st.providers[p].stake = 0 /\ st.providers[p].unbondAmount = 0 /\ st.providers[p].rewards = 0
  BY DEF Booked, Amounts, Purses, Purse
<1> HIDE DEF t, pr
<1>4. /\ Purses(t.providers)
      /\ StakesOf(t.providers) = StakesOf(st.providers) - 0 + stake
      /\ UnbondsOf(t.providers) = UnbondsOf(st.providers) - 0 + 0
      /\ RewardsOf(t.providers) = RewardsOf(st.providers) - 0 + 0
  BY <1>1, <1>2, <1>3, OnePurse
<1>5. /\ DOMAIN t.held = Categories
      /\ t.held.stakes = st.held.stakes + stake /\ t.held.unbonding = st.held.unbonding
      /\ t.held.rewards = st.held.rewards
      /\ t.held.credits = st.held.credits /\ t.held.pools = st.held.pools /\ t.held.bonds = st.held.bonds
      /\ t.held.feesPending = st.held.feesPending /\ t.held.deposits = st.held.deposits
  BY <1>1 DEF Booked, Amounts, HeldAmounts, Categories, NothingHeld
<1>6. /\ t.held.stakes = StakesOf(t.providers) /\ t.held.unbonding = UnbondsOf(t.providers)
      /\ t.held.rewards = RewardsOf(t.providers)
      /\ StakesOf(t.providers) + UnbondsOf(t.providers) + RewardsOf(t.providers)
           = StakesOf(st.providers) + UnbondsOf(st.providers) + RewardsOf(st.providers) + stake
      /\ stake \in Int
  BY <1>3, <1>4, <1>5, PurseSums DEF Booked
<1>7. Moves(t, st, stake, 0)
  BY <1>1, <1>4, <1>5, <1>6, ProviderMoneyChanged, ZenonT(60)
<1> QED
  BY <1>7 DEF t

\* One record replaced, and the books of what it holds changed by as much.
LEMMA OneRecordMoves ==
  ASSUME NEW st, NEW t, NEW p \in Providers, NEW pr, Purse(pr), NEW x \in Int, Booked(st),
         DOMAIN t = Tables, t.feed = st.feed, t.disputes = st.disputes, t.credits = st.credits,
         t.balance = st.balance, t.providers = [st.providers EXCEPT ![p] = pr], DOMAIN t.held = Categories,
         t.held.stakes = st.held.stakes - st.providers[p].stake + pr.stake,
         t.held.unbonding = st.held.unbonding - st.providers[p].unbondAmount + pr.unbondAmount,
         t.held.rewards = st.held.rewards - st.providers[p].rewards + pr.rewards,
         t.held.credits = st.held.credits, t.held.pools = st.held.pools, t.held.bonds = st.held.bonds,
         t.held.feesPending = st.held.feesPending, t.held.deposits = st.held.deposits,
         x = (pr.stake - st.providers[p].stake) + (pr.unbondAmount - st.providers[p].unbondAmount)
               + (pr.rewards - st.providers[p].rewards)
  PROVE  Moves(t, st, x, 0)
<1>1. Purses(st.providers) /\ Purse(st.providers[p])
  BY DEF Booked, Amounts, Purses
<1>2. /\ Purses(t.providers)
      /\ StakesOf(t.providers) = StakesOf(st.providers) - st.providers[p].stake + pr.stake
      /\ UnbondsOf(t.providers) = UnbondsOf(st.providers) - st.providers[p].unbondAmount + pr.unbondAmount
      /\ RewardsOf(t.providers) = RewardsOf(st.providers) - st.providers[p].rewards + pr.rewards
  BY <1>1, OnePurse
<1>3. /\ t.held.stakes = StakesOf(t.providers) /\ t.held.unbonding = UnbondsOf(t.providers)
      /\ t.held.rewards = RewardsOf(t.providers)
  BY <1>2 DEF Booked
<1>4. StakesOf(t.providers) + UnbondsOf(t.providers) + RewardsOf(t.providers)
        = StakesOf(st.providers) + UnbondsOf(st.providers) + RewardsOf(st.providers) + x
  BY <1>1, <1>2, PurseSums DEF Purse
<1> QED
  BY <1>2, <1>3, <1>4, ProviderMoneyChanged, ZenonT(60)

LEMMA ProviderAddStakeMoves ==
  ASSUME NEW st, NEW p \in Providers, NEW amount \in Nat, Booked(st),
         st.providers[p].status \in {"active", "jailed"}
  PROVE  Moves(ProviderAddStake(st, p, amount), st, amount, 0)
<1> DEFINE t == ProviderAddStake(st, p, amount)
           pr == [st.providers[p] EXCEPT !.stake = @ + amount]
<1>1. /\ DOMAIN t = Tables
      /\ t.feed = st.feed /\ t.disputes = st.disputes /\ t.credits = st.credits /\ t.balance = st.balance
      /\ t.providers = [st.providers EXCEPT ![p] = pr]
      /\ t.held = [st.held EXCEPT !.stakes = @ + amount]
  BY DEF ProviderAddStake, Inflow, Require, Booked, Amounts, Tables
<1>2. Purse(st.providers[p])
  BY DEF Booked, Amounts
<1>3. /\ Purse(pr) /\ pr.stake = st.providers[p].stake + amount
      /\ pr.unbondAmount = st.providers[p].unbondAmount /\ pr.rewards = st.providers[p].rewards
  BY <1>2 DEF Purse, NoProvider, ProviderFields
<1> HIDE DEF t, pr
<1>4. /\ DOMAIN t.held = Categories
      /\ t.held.stakes = st.held.stakes - st.providers[p].stake + pr.stake
      /\ t.held.unbonding = st.held.unbonding - st.providers[p].unbondAmount + pr.unbondAmount
      /\ t.held.rewards = st.held.rewards - st.providers[p].rewards + pr.rewards
      /\ t.held.credits = st.held.credits /\ t.held.pools = st.held.pools /\ t.held.bonds = st.held.bonds
      /\ t.held.feesPending = st.held.feesPending /\ t.held.deposits = st.held.deposits
  BY <1>1, <1>2, <1>3 DEF Booked, Amounts, HeldAmounts, Categories, NothingHeld, Purse
<1>5. amount = (pr.stake - st.providers[p].stake) + (pr.unbondAmount - st.providers[p].unbondAmount)
                 + (pr.rewards - st.providers[p].rewards) /\ amount \in Int
  BY <1>2, <1>3 DEF Purse
<1>6. Moves(t, st, amount, 0)
  BY <1>1, <1>3, <1>4, <1>5, OneRecordMoves, ZenonT(60)
<1> QED
  BY <1>6 DEF t

LEMMA ProviderPayUnbondedMoves ==
  ASSUME NEW st, NEW p \in Providers, Booked(st)
  PROVE  Moves(ProviderPayUnbonded(st, p), st, 0, 0)
<1> DEFINE amount == st.providers[p].unbondAmount
           t == [st EXCEPT !.providers[p].unbondAmount = 0, !.held.unbonding = @ - amount]
           pr == [st.providers[p] EXCEPT !.unbondAmount = 0]
<1>1. /\ DOMAIN t = Tables
      /\ t.feed = st.feed /\ t.disputes = st.disputes /\ t.credits = st.credits /\ t.balance = st.balance
      /\ t.providers = [st.providers EXCEPT ![p] = pr]
      /\ t.held = [st.held EXCEPT !.unbonding = @ - amount]
  BY DEF Booked, Amounts, Tables
<1>2. Purse(st.providers[p]) /\ amount = st.providers[p].unbondAmount
  BY DEF Booked, Amounts
<1>3. /\ Purse(pr) /\ pr.unbondAmount = 0 /\ pr.stake = st.providers[p].stake
      /\ pr.rewards = st.providers[p].rewards
  BY <1>2 DEF Purse, NoProvider, ProviderFields
<1> HIDE DEF t, pr, amount
<1>4. /\ DOMAIN t.held = Categories
      /\ t.held.stakes = st.held.stakes - st.providers[p].stake + pr.stake
      /\ t.held.unbonding = st.held.unbonding - st.providers[p].unbondAmount + pr.unbondAmount
      /\ t.held.rewards = st.held.rewards - st.providers[p].rewards + pr.rewards
      /\ t.held.credits = st.held.credits /\ t.held.pools = st.held.pools /\ t.held.bonds = st.held.bonds
      /\ t.held.feesPending = st.held.feesPending /\ t.held.deposits = st.held.deposits
  BY <1>1, <1>2, <1>3 DEF Booked, Amounts, HeldAmounts, Categories, NothingHeld, Purse
<1>5. /\ -amount = (pr.stake - st.providers[p].stake) + (pr.unbondAmount - st.providers[p].unbondAmount)
                     + (pr.rewards - st.providers[p].rewards)
      /\ -amount \in Int /\ amount \in Nat
  BY <1>2, <1>3 DEF Purse
<1>6. Moves(t, st, -amount, 0)
  BY <1>1, <1>3, <1>4, <1>5, OneRecordMoves, ZenonT(60)
<1>7. Moves(Send(t, amount), t, amount, 0)
  BY <1>5, <1>6, SendMoves DEF Moves
<1>8. Moves(Send(t, amount), st, -amount + amount, 0 + 0)
  BY <1>5, <1>6, <1>7, MovesAdd
<1>9. Moves(Send(t, amount), st, 0, 0)
  BY <1>5, <1>8
<1> QED
  BY <1>9 DEF ProviderPayUnbonded, t, amount

LEMMA RewardPayMoves ==
  ASSUME NEW st, NEW p \in Providers, Booked(st)
  PROVE  Moves(RewardPay(st, p), st, 0, 0)
<1> DEFINE amount == st.providers[p].rewards
           t == [st EXCEPT !.providers[p].rewards = 0, !.held.rewards = @ - amount]
           pr == [st.providers[p] EXCEPT !.rewards = 0]
<1>1. /\ DOMAIN t = Tables
      /\ t.feed = st.feed /\ t.disputes = st.disputes /\ t.credits = st.credits /\ t.balance = st.balance
      /\ t.providers = [st.providers EXCEPT ![p] = pr]
      /\ t.held = [st.held EXCEPT !.rewards = @ - amount]
  BY DEF Booked, Amounts, Tables
<1>2. Purse(st.providers[p]) /\ amount = st.providers[p].rewards
  BY DEF Booked, Amounts
<1>3. /\ Purse(pr) /\ pr.rewards = 0 /\ pr.stake = st.providers[p].stake
      /\ pr.unbondAmount = st.providers[p].unbondAmount
  BY <1>2 DEF Purse, NoProvider, ProviderFields
<1> HIDE DEF t, pr, amount
<1>4. /\ DOMAIN t.held = Categories
      /\ t.held.stakes = st.held.stakes - st.providers[p].stake + pr.stake
      /\ t.held.unbonding = st.held.unbonding - st.providers[p].unbondAmount + pr.unbondAmount
      /\ t.held.rewards = st.held.rewards - st.providers[p].rewards + pr.rewards
      /\ t.held.credits = st.held.credits /\ t.held.pools = st.held.pools /\ t.held.bonds = st.held.bonds
      /\ t.held.feesPending = st.held.feesPending /\ t.held.deposits = st.held.deposits
  BY <1>1, <1>2, <1>3 DEF Booked, Amounts, HeldAmounts, Categories, NothingHeld, Purse
<1>5. /\ -amount = (pr.stake - st.providers[p].stake) + (pr.unbondAmount - st.providers[p].unbondAmount)
                     + (pr.rewards - st.providers[p].rewards)
      /\ -amount \in Int /\ amount \in Nat
  BY <1>2, <1>3 DEF Purse
<1>6. Moves(t, st, -amount, 0)
  BY <1>1, <1>3, <1>4, <1>5, OneRecordMoves, ZenonT(60)
<1>7. Moves(Send(t, amount), t, amount, 0)
  BY <1>5, <1>6, SendMoves DEF Moves
<1>8. Moves(Send(t, amount), st, -amount + amount, 0 + 0)
  BY <1>5, <1>6, <1>7, MovesAdd
<1>9. Moves(Send(t, amount), st, 0, 0)
  BY <1>5, <1>8
<1> QED
  BY <1>9 DEF RewardPay, t, amount

LEMMA ProviderDeleteMoves ==
  ASSUME NEW st, NEW p \in Providers, Booked(st),
         st.providers[p].stake = 0, st.providers[p].unbondAmount = 0, st.providers[p].rewards = 0
  PROVE  Moves(ProviderDelete(st, p), st, 0, 0)
<1> DEFINE t == ProviderDelete(st, p)
           pr == NoProvider
<1>1. /\ DOMAIN t = Tables
      /\ t.feed = st.feed /\ t.disputes = st.disputes /\ t.credits = st.credits /\ t.balance = st.balance
      /\ t.providers = [st.providers EXCEPT ![p] = pr] /\ t.held = st.held
  BY DEF ProviderDelete, Require, Booked, Amounts, Tables
<1>2. Purse(pr) /\ pr.stake = 0 /\ pr.unbondAmount = 0 /\ pr.rewards = 0
  BY DEF Purse, NoProvider, ProviderFields
<1> HIDE DEF t, pr
<1>3. /\ DOMAIN t.held = Categories
      /\ t.held.stakes = st.held.stakes - st.providers[p].stake + pr.stake
      /\ t.held.unbonding = st.held.unbonding - st.providers[p].unbondAmount + pr.unbondAmount
      /\ t.held.rewards = st.held.rewards - st.providers[p].rewards + pr.rewards
      /\ t.held.credits = st.held.credits /\ t.held.pools = st.held.pools /\ t.held.bonds = st.held.bonds
      /\ t.held.feesPending = st.held.feesPending /\ t.held.deposits = st.held.deposits
  BY <1>1, <1>2 DEF Booked, Amounts, HeldAmounts, Categories, NothingHeld
<1>4. 0 = (pr.stake - st.providers[p].stake) + (pr.unbondAmount - st.providers[p].unbondAmount)
                 + (pr.rewards - st.providers[p].rewards) /\ 0 \in Int
  BY <1>2
<1>5. Moves(t, st, 0, 0)
  BY ONLY Booked(st), p \in Providers, <1>1, <1>2, <1>3, <1>4, OneRecordMoves, ZenonT(60)
<1> QED
  BY <1>5 DEF t

\* Records rewritten that hold what they held: nothing moves.
LEMMA SamePursesMove ==
  ASSUME NEW st, NEW t, Booked(st), DOMAIN t = Tables, FeedAmounts(t.feed),
         t.feed.deposit = st.feed.deposit, t.feed.prepaid = st.feed.prepaid, t.feed.pool = st.feed.pool,
         t.feed.penaltyCarry = st.feed.penaltyCarry,
         t.credits = st.credits, t.held = st.held, t.balance = st.balance, t.disputes = st.disputes,
         Purses(t.providers),
         \A p \in Providers : /\ t.providers[p].stake = st.providers[p].stake
                              /\ t.providers[p].unbondAmount = st.providers[p].unbondAmount
                              /\ t.providers[p].rewards = st.providers[p].rewards
  PROVE  Moves(t, st, 0, 0)
<1>1. /\ StakesOf(t.providers) = StakesOf(st.providers)
      /\ UnbondsOf(t.providers) = UnbondsOf(st.providers)
      /\ RewardsOf(t.providers) = RewardsOf(st.providers)
  BY DEF StakesOf, UnbondsOf, RewardsOf
<1>2. Booked(t)
  BY <1>1 DEF Booked, Amounts, Purses
<1> QED
  BY <1>2, SpareIsInt DEF Moves, Spare

\* g is f changed by d where it is defined.
ChangedBy(g, f, who, d) ==
  /\ who \in SUBSET Providers
  /\ f \in [Providers -> Int] /\ g \in [Providers -> Int] /\ d \in [who -> Int]
  /\ \A p \in Providers : g[p] = IF p \in who THEN f[p] + d[p] ELSE f[p]

LEMMA SomeProvidersMoved ==
  ASSUME NEW who, NEW f, NEW g, NEW d, ChangedBy(g, f, who, d)
  PROVE  SumFunction(g) = SumFunction(f) + SumFunction(d)
<1>1. IsFiniteSet(Providers)
  BY ConstantsAssumption
<1> QED
  BY <1>1, SumMoved DEF ChangedBy

\* Stake and unbond of the providers in who cut by a and b, and m of their stake set to unbond.
CutAndMoved(ps, qs, who, a, b, m) ==
  /\ \A p \in Providers : qs[p].stake = IF p \in who THEN ps[p].stake - a[p] - m[p] ELSE ps[p].stake
  /\ \A p \in Providers : qs[p].unbondAmount = IF p \in who THEN ps[p].unbondAmount - b[p] + m[p]
                                                        ELSE ps[p].unbondAmount
  /\ \A p \in Providers : qs[p].rewards = ps[p].rewards

LEMMA PursesMoved ==
  ASSUME NEW ps, NEW qs, Purses(ps), Purses(qs), NEW who \in SUBSET Providers,
         NEW a \in [who -> Int], NEW b \in [who -> Int], NEW m \in [who -> Int],
         CutAndMoved(ps, qs, who, a, b, m)
  PROVE  /\ SumFunction(a) \in Int /\ SumFunction(b) \in Int /\ SumFunction(m) \in Int
         /\ StakesOf(qs) = StakesOf(ps) - SumFunction(a) - SumFunction(m)
         /\ UnbondsOf(qs) = UnbondsOf(ps) - SumFunction(b) + SumFunction(m)
         /\ RewardsOf(qs) = RewardsOf(ps)
<1>1. IsFiniteSet(Providers) /\ IsFiniteSet(who)
  BY ConstantsAssumption, FS_Subset
<1>2. SumFunction(a) \in Int /\ SumFunction(b) \in Int /\ SumFunction(m) \in Int
  BY <1>1, SumType
<1>3. /\ StakesOf(qs) \in Int /\ UnbondsOf(qs) \in Int /\ StakesOf(ps) \in Int /\ UnbondsOf(ps) \in Int
  BY PurseSums
<1>4. StakesOf(qs) = StakesOf(ps) - SumFunction(a) - SumFunction(m)
  <2> DEFINE f == [p \in Providers |-> ps[p].stake]
             g == [p \in Providers |-> qs[p].stake]
             d == [p \in who |-> -a[p] - m[p]]
             na == [p \in who |-> -a[p]]
             z == [p \in who |-> 0]
  <2>1. /\ f \in [Providers -> Int] /\ g \in [Providers -> Int] /\ d \in [who -> Int]
        /\ na \in [who -> Int] /\ z \in [who -> Int]
    BY DEF Purses, Purse
  <2>2. \A p \in Providers : g[p] = IF p \in who THEN f[p] + d[p] ELSE f[p]
    BY DEF Purses, Purse, CutAndMoved
  <2>3. SumFunction(f) = StakesOf(ps) /\ SumFunction(g) = StakesOf(qs)
    BY DEF StakesOf
  <2>4. /\ \A p \in who : d[p] = na[p] - m[p]
        /\ \A p \in who : na[p] = z[p] - a[p]
        /\ \A p \in who : z[p] = 0
        /\ DOMAIN z = who
    OBVIOUS
  <2> HIDE DEF f, g, d, na, z
  <2>5. SumFunction(g) = SumFunction(f) + SumFunction(d)
    <3>1. ChangedBy(g, f, who, d)
      BY <2>1, <2>2 DEF ChangedBy
    <3> QED
      BY <3>1, SomeProvidersMoved
  <2>6. SumFunction(d) = SumFunction(na) - SumFunction(m)
    <3>1. d \in [who -> Int] /\ na \in [who -> Int] /\ IsFiniteSet(who)
      BY <1>1, <2>1
    <3>2. \A p \in who : d[p] = na[p] - m[p]
      BY <2>4
    <3> QED
      BY <3>1, <3>2, SumTake
  <2>7. SumFunction(na) = SumFunction(z) - SumFunction(a)
    BY <1>1, <2>1, <2>4, SumTake
  <2>8. SumFunction(z) = 0
    BY <1>1, <2>4, SumOfNothing
  <2> QED
    BY <1>2, <1>3, <2>3, <2>5, <2>6, <2>7, <2>8
<1>5. UnbondsOf(qs) = UnbondsOf(ps) - SumFunction(b) + SumFunction(m)
  <2> DEFINE f == [p \in Providers |-> ps[p].unbondAmount]
             g == [p \in Providers |-> qs[p].unbondAmount]
             d == [p \in who |-> m[p] - b[p]]
  <2>1. f \in [Providers -> Int] /\ g \in [Providers -> Int] /\ d \in [who -> Int]
    BY DEF Purses, Purse
  <2>2. \A p \in Providers : g[p] = IF p \in who THEN f[p] + d[p] ELSE f[p]
    BY DEF Purses, Purse, CutAndMoved
  <2>3. SumFunction(f) = UnbondsOf(ps) /\ SumFunction(g) = UnbondsOf(qs)
    BY DEF UnbondsOf
  <2>4. \A p \in who : d[p] = m[p] - b[p]
    OBVIOUS
  <2> HIDE DEF f, g, d
  <2>5. SumFunction(g) = SumFunction(f) + SumFunction(d)
    <3>1. ChangedBy(g, f, who, d)
      BY <2>1, <2>2 DEF ChangedBy
    <3> QED
      BY <3>1, SomeProvidersMoved
  <2>6. SumFunction(d) = SumFunction(m) - SumFunction(b)
    BY <1>1, <2>1, <2>4, SumTake
  <2> QED
    BY <1>2, <1>3, <2>3, <2>5, <2>6
<1>6. RewardsOf(qs) = RewardsOf(ps)
  BY DEF RewardsOf, CutAndMoved
<1> QED
  BY <1>2, <1>4, <1>5, <1>6

\* The records of who and the books cut and moved alike.
LEMMA RecordsMovedMoves ==
  ASSUME NEW st, NEW t, Booked(st), NEW who \in SUBSET Providers,
         NEW a \in [who -> Int], NEW b \in [who -> Int], NEW m \in [who -> Int],
         DOMAIN t = Tables, t.feed = st.feed, t.disputes = st.disputes, t.credits = st.credits,
         t.balance = st.balance, Purses(t.providers), DOMAIN t.held = Categories,
         t.held.stakes = st.held.stakes - SumFunction(a) - SumFunction(m),
         t.held.unbonding = st.held.unbonding - SumFunction(b) + SumFunction(m),
         t.held.rewards = st.held.rewards, t.held.credits = st.held.credits, t.held.pools = st.held.pools,
         t.held.bonds = st.held.bonds, t.held.feesPending = st.held.feesPending, t.held.deposits = st.held.deposits,
         CutAndMoved(st.providers, t.providers, who, a, b, m)
  PROVE  /\ Moves(t, st, -(SumFunction(a) + SumFunction(b)), 0)
         /\ SumFunction(a) \in Int /\ SumFunction(b) \in Int
<1>1. Purses(st.providers)
  BY DEF Booked, Amounts, Purses
<1> DEFINE ps == st.providers
           qs == t.providers
           A == SumFunction(a)
           B == SumFunction(b)
           M == SumFunction(m)
<1>2. /\ A \in Int /\ B \in Int /\ M \in Int
      /\ StakesOf(qs) = StakesOf(ps) - A - M
      /\ UnbondsOf(qs) = UnbondsOf(ps) - B + M
      /\ RewardsOf(qs) = RewardsOf(ps)
  BY <1>1, PursesMoved
<1>3. /\ t.held.stakes = st.held.stakes - A - M
      /\ t.held.unbonding = st.held.unbonding - B + M
      /\ Purses(ps) /\ Purses(qs)
  BY <1>1
<1> HIDE DEF A, B, M
<1>4. /\ t.held.stakes = StakesOf(qs) /\ t.held.unbonding = UnbondsOf(qs) /\ t.held.rewards = RewardsOf(qs)
      /\ StakesOf(qs) + UnbondsOf(qs) + RewardsOf(qs) = StakesOf(ps) + UnbondsOf(ps) + RewardsOf(ps) + -(A + B)
      /\ -(A + B) \in Int
  BY <1>2, <1>3, PurseSums DEF Booked
<1>5. Moves(t, st, -(A + B), 0)
  BY <1>4, ProviderMoneyChanged, ZenonT(60)
<1> QED
  BY <1>2, <1>5 DEF A, B

LEMMA UnbondingPurse ==
  ASSUME NEW pr, NEW readyAt, Purse(pr)
  PROVE  LET u == Unbonding(pr, readyAt) IN
         Purse(u) /\ u.status = "unbonding" /\ u.stake = 0 /\ u.unbondAmount = pr.unbondAmount + pr.stake
           /\ u.rewards = pr.rewards
BY DEF Unbonding, Purse, NoProvider, ProviderFields

LEMMA ProviderStartUnbondMoves ==
  ASSUME NEW st, NEW who \in SUBSET Providers, NEW readyAt, Booked(st)
  PROVE  Moves(ProviderStartUnbond(st, who, readyAt), st, 0, 0)
<1> DEFINE t == ProviderStartUnbond(st, who, readyAt)
           z == [p \in who |-> 0]
           m == [p \in who |-> st.providers[p].stake]
           moved == SumFunction(m)
<1>1. /\ DOMAIN t = Tables
      /\ t.feed = st.feed /\ t.disputes = st.disputes /\ t.credits = st.credits /\ t.balance = st.balance
      /\ t.providers = [p \in Providers |-> IF p \in who THEN Unbonding(st.providers[p], readyAt)
                                                          ELSE st.providers[p]]
      /\ t.held = [st.held EXCEPT !.stakes = @ - moved, !.unbonding = @ + moved]
  <2> HIDE DEF moved
  <2> QED
    BY DEF ProviderStartUnbond, Booked, Amounts, Tables, moved
<1>2. \A p \in Providers : Purse(st.providers[p])
  BY DEF Booked, Amounts
<1>3. z \in [who -> Int] /\ m \in [who -> Int] /\ \A p \in who : z[p] = 0 /\ m[p] = st.providers[p].stake
  BY <1>2 DEF Purse
<1>4. IsFiniteSet(who) /\ DOMAIN z = who
  BY ConstantsAssumption, FS_Subset
<1> HIDE DEF t, z, m
<1>5. SumFunction(z) = 0 /\ moved \in Int
  BY <1>3, <1>4, SumOfNothing, SumType
<1>6. \A p \in who : LET u == Unbonding(st.providers[p], readyAt) IN
        Purse(u) /\ u.stake = 0 /\ u.unbondAmount = st.providers[p].unbondAmount + st.providers[p].stake
           /\ u.rewards = st.providers[p].rewards
  BY <1>2, UnbondingPurse
<1>7. /\ Purses(t.providers)
      /\ \A p \in Providers : t.providers[p].stake = IF p \in who THEN st.providers[p].stake - z[p] - m[p]
                                                                  ELSE st.providers[p].stake
      /\ \A p \in Providers : t.providers[p].unbondAmount = IF p \in who THEN st.providers[p].unbondAmount - z[p] + m[p]
                                                                        ELSE st.providers[p].unbondAmount
      /\ \A p \in Providers : t.providers[p].rewards = st.providers[p].rewards
  <2> DEFINE Moved(p) == /\ Purse(t.providers[p])
                         /\ t.providers[p].stake = IF p \in who THEN st.providers[p].stake - z[p] - m[p]
                                                                ELSE st.providers[p].stake
                         /\ t.providers[p].unbondAmount = IF p \in who
                              THEN st.providers[p].unbondAmount - z[p] + m[p] ELSE st.providers[p].unbondAmount
                         /\ t.providers[p].rewards = st.providers[p].rewards
  <2>1. DOMAIN t.providers = Providers
    BY ONLY <1>1
  <2>2. ASSUME NEW p \in who PROVE Moved(p)
    <3>1. t.providers[p] = Unbonding(st.providers[p], readyAt)
      BY ONLY <1>1
    <3>2. /\ Purse(t.providers[p]) /\ t.providers[p].stake = 0
          /\ t.providers[p].unbondAmount = st.providers[p].unbondAmount + st.providers[p].stake
          /\ t.providers[p].rewards = st.providers[p].rewards
      BY ONLY <1>6, <3>1
    <3>3. st.providers[p].stake \in Nat /\ st.providers[p].unbondAmount \in Nat
      BY <1>2 DEF Purse
    <3>4. z[p] = 0 /\ m[p] = st.providers[p].stake
      BY ONLY <1>3
    <3> QED
      BY ONLY <3>2, <3>3, <3>4
  <2>3. ASSUME NEW p \in Providers, p \notin who PROVE Moved(p)
    <3>1. t.providers[p] = st.providers[p]
      BY ONLY <1>1, <2>3
    <3> QED
      BY ONLY <1>2, <2>3, <3>1
  <2>4. \A p \in Providers : Moved(p)
    BY ONLY <2>2, <2>3
  <2> QED
    BY ONLY <2>1, <2>4 DEF Purses
<1>8. /\ DOMAIN t.held = Categories
      /\ t.held.stakes = st.held.stakes - SumFunction(z) - SumFunction(m)
      /\ t.held.unbonding = st.held.unbonding - SumFunction(z) + SumFunction(m)
      /\ t.held.rewards = st.held.rewards /\ t.held.credits = st.held.credits /\ t.held.pools = st.held.pools
      /\ t.held.bonds = st.held.bonds /\ t.held.feesPending = st.held.feesPending
      /\ t.held.deposits = st.held.deposits
  <2> HIDE DEF moved
  <2>1. moved = SumFunction(m)
    BY DEF moved
  <2> QED
    BY <1>1, <1>5, <2>1 DEF Booked, Amounts, HeldAmounts, Categories, NothingHeld
<1>9. CutAndMoved(st.providers, t.providers, who, z, z, m)
  BY <1>7 DEF CutAndMoved
<1>10. Moves(t, st, -(SumFunction(z) + SumFunction(z)), 0)
  BY <1>1, <1>3, <1>7, <1>8, <1>9, RecordsMovedMoves
<1>11. Moves(t, st, 0, 0)
  BY <1>5, <1>10
<1> QED
  BY <1>11 DEF t

-----------------------------------------------------------------------------
(* What moves nothing. *)

LEMMA FeedSetStatusMoves ==
  ASSUME NEW st, NEW status, Booked(st)
  PROVE  Moves(FeedSetStatus(st, status), st, 0, 0)
<1> DEFINE t == FeedSetStatus(st, status)
<1>1. /\ DOMAIN t = Tables /\ DOMAIN t.feed = FeedFields
      /\ t.feed.deposit = st.feed.deposit /\ t.feed.prepaid = st.feed.prepaid /\ t.feed.pool = st.feed.pool
      /\ t.feed.penaltyCarry = st.feed.penaltyCarry /\ t.feed.drip \in Nat
      /\ t.feed.subscriberPrice \in Nat /\ t.feed.subscriptionPrice \in Nat /\ t.feed.providerMinStake \in Nat
      /\ t.feed.disputesInRow \in Nat
      /\ t.providers = st.providers /\ t.credits = st.credits /\ t.held = st.held /\ t.balance = st.balance
      /\ t.disputes = st.disputes
  BY DEF FeedSetStatus, Booked, Amounts, FeedAmounts, Tables, FeedFields, NoFeed
<1> HIDE DEF t
<1>2. Moves(t, st, 0, 0)
  BY <1>1, SameMoney, ZenonT(60)
<1> QED
  BY <1>2 DEF t

LEMMA FeedClearSlotsMoves ==
  ASSUME NEW st, NEW cleared, NEW from, Booked(st)
  PROVE  Moves(FeedClearSlots(st, cleared, from), st, 0, 0)
<1> DEFINE t == FeedClearSlots(st, cleared, from)
<1>1. /\ DOMAIN t = Tables /\ DOMAIN t.feed = FeedFields
      /\ t.feed.deposit = st.feed.deposit /\ t.feed.prepaid = st.feed.prepaid /\ t.feed.pool = st.feed.pool
      /\ t.feed.penaltyCarry = st.feed.penaltyCarry /\ t.feed.drip \in Nat
      /\ t.feed.subscriberPrice \in Nat /\ t.feed.subscriptionPrice \in Nat /\ t.feed.providerMinStake \in Nat
      /\ t.feed.disputesInRow \in Nat
      /\ t.providers = st.providers /\ t.credits = st.credits /\ t.held = st.held /\ t.balance = st.balance
      /\ t.disputes = st.disputes
  BY DEF FeedClearSlots, Require, Booked, Amounts, FeedAmounts, Tables, FeedFields, NoFeed
<1> HIDE DEF t
<1>2. Moves(t, st, 0, 0)
  BY <1>1, SameMoney, ZenonT(60)
<1> QED
  BY <1>2 DEF t

LEMMA FeedAssignSlotMoves ==
  ASSUME NEW st, NEW s, NEW p, NEW from, Booked(st)
  PROVE  Moves(FeedAssignSlot(st, s, p, from), st, 0, 0)
<1> DEFINE t == FeedAssignSlot(st, s, p, from)
<1>1. /\ DOMAIN t = Tables /\ DOMAIN t.feed = FeedFields
      /\ t.feed.deposit = st.feed.deposit /\ t.feed.prepaid = st.feed.prepaid /\ t.feed.pool = st.feed.pool
      /\ t.feed.penaltyCarry = st.feed.penaltyCarry /\ t.feed.drip \in Nat
      /\ t.feed.subscriberPrice \in Nat /\ t.feed.subscriptionPrice \in Nat /\ t.feed.providerMinStake \in Nat
      /\ t.feed.disputesInRow \in Nat
      /\ t.providers = st.providers /\ t.credits = st.credits /\ t.held = st.held /\ t.balance = st.balance
      /\ t.disputes = st.disputes
  BY DEF FeedAssignSlot, Require, Booked, Amounts, FeedAmounts, Tables, FeedFields, NoFeed
<1> HIDE DEF t
<1>2. Moves(t, st, 0, 0)
  BY <1>1, SameMoney, ZenonT(60)
<1> QED
  BY <1>2 DEF t

LEMMA PutRoundMoves ==
  ASSUME NEW st, NEW id, NEW rd, Booked(st)
  PROVE  Moves(PutRound(st, id, rd), st, 0, 0)
<1> DEFINE t == PutRound(st, id, rd)
<1>1. /\ DOMAIN t = Tables /\ DOMAIN t.feed = FeedFields
      /\ t.feed.deposit = st.feed.deposit /\ t.feed.prepaid = st.feed.prepaid /\ t.feed.pool = st.feed.pool
      /\ t.feed.penaltyCarry = st.feed.penaltyCarry /\ t.feed.drip \in Nat
      /\ t.feed.subscriberPrice \in Nat /\ t.feed.subscriptionPrice \in Nat /\ t.feed.providerMinStake \in Nat
      /\ t.feed.disputesInRow \in Nat
      /\ t.providers = st.providers /\ t.credits = st.credits /\ t.held = st.held /\ t.balance = st.balance
      /\ t.disputes = st.disputes
  BY DEF PutRound, Booked, Amounts, FeedAmounts, Tables, FeedFields, NoFeed
<1> HIDE DEF t
<1>2. Moves(t, st, 0, 0)
  BY <1>1, SameMoney, ZenonT(60)
<1> QED
  BY <1>2 DEF t

LEMMA RoundFinaliseMoves ==
  ASSUME NEW st, NEW id, NEW status, NEW tier, NEW value, Booked(st)
  PROVE  Moves(RoundFinalise(st, id, status, tier, value), st, 0, 0)
BY PutRoundMoves DEF RoundFinalise

LEMMA FeedSetCursorMoves ==
  ASSUME NEW st, NEW id, Booked(st)
  PROVE  Moves(FeedSetCursor(st, id), st, 0, 0)
<1> DEFINE t == FeedSetCursor(st, id)
<1>1. /\ DOMAIN t = Tables /\ DOMAIN t.feed = FeedFields
      /\ t.feed.deposit = st.feed.deposit /\ t.feed.prepaid = st.feed.prepaid /\ t.feed.pool = st.feed.pool
      /\ t.feed.penaltyCarry = st.feed.penaltyCarry /\ t.feed.drip \in Nat
      /\ t.feed.subscriberPrice \in Nat /\ t.feed.subscriptionPrice \in Nat /\ t.feed.providerMinStake \in Nat
      /\ t.feed.disputesInRow \in Nat
      /\ t.providers = st.providers /\ t.credits = st.credits /\ t.held = st.held /\ t.balance = st.balance
      /\ t.disputes = st.disputes
  BY DEF FeedSetCursor, Booked, Amounts, FeedAmounts, Tables, FeedFields, NoFeed
<1> HIDE DEF t
<1>2. Moves(t, st, 0, 0)
  BY <1>1, SameMoney, ZenonT(60)
<1> QED
  BY <1>2 DEF t

LEMMA FeedSetValueMoves ==
  ASSUME NEW st, NEW id, NEW value, NEW tier, Booked(st)
  PROVE  Moves(FeedSetValue(st, id, value, tier), st, 0, 0)
<1> DEFINE t == FeedSetValue(st, id, value, tier)
<1>1. /\ DOMAIN t = Tables /\ DOMAIN t.feed = FeedFields
      /\ t.feed.deposit = st.feed.deposit /\ t.feed.prepaid = st.feed.prepaid /\ t.feed.pool = st.feed.pool
      /\ t.feed.penaltyCarry = st.feed.penaltyCarry /\ t.feed.drip \in Nat
      /\ t.feed.subscriberPrice \in Nat /\ t.feed.subscriptionPrice \in Nat /\ t.feed.providerMinStake \in Nat
      /\ t.feed.disputesInRow \in Nat
      /\ t.providers = st.providers /\ t.credits = st.credits /\ t.held = st.held /\ t.balance = st.balance
      /\ t.disputes = st.disputes
  BY ZenonT(30) DEF FeedSetValue, Booked, Amounts, FeedAmounts, Tables, FeedFields, NoFeed
<1> HIDE DEF t
<1>2. Moves(t, st, 0, 0)
  BY <1>1, SameMoney, ZenonT(60)
<1> QED
  BY <1>2 DEF t

LEMMA SetFinalMoves ==
  ASSUME NEW st, NEW lf, NEW cursor, Booked(st)
  PROVE  Moves(SetFinal(st, lf, cursor), st, 0, 0)
<1> DEFINE t == SetFinal(st, lf, cursor)
<1>1. /\ DOMAIN t = Tables /\ DOMAIN t.feed = FeedFields
      /\ t.feed.deposit = st.feed.deposit /\ t.feed.prepaid = st.feed.prepaid /\ t.feed.pool = st.feed.pool
      /\ t.feed.penaltyCarry = st.feed.penaltyCarry /\ t.feed.drip \in Nat
      /\ t.feed.subscriberPrice \in Nat /\ t.feed.subscriptionPrice \in Nat /\ t.feed.providerMinStake \in Nat
      /\ t.feed.disputesInRow \in Nat
      /\ t.providers = st.providers /\ t.credits = st.credits /\ t.held = st.held /\ t.balance = st.balance
      /\ t.disputes = st.disputes
  BY ZenonT(30) DEF SetFinal, Booked, Amounts, FeedAmounts, Tables, FeedFields, NoFeed
<1> HIDE DEF t
<1>2. Moves(t, st, 0, 0)
  BY <1>1, SameMoney, ZenonT(60)
<1> QED
  BY <1>2 DEF t

LEMMA FeedPromoteFinalMoves ==
  ASSUME NEW st, Booked(st)
  PROVE  Moves(FeedPromoteFinal(st), st, 0, 0)
BY SetFinalMoves DEF FeedPromoteFinal

LEMMA EmptyClosedMoves ==
  ASSUME NEW st, Booked(st)
  PROVE  Moves(EmptyClosed(st), st, 0, 0)
<1> DEFINE t == EmptyClosed(st)
<1>1. /\ DOMAIN t = Tables /\ DOMAIN t.feed = FeedFields
      /\ t.feed.deposit = st.feed.deposit /\ t.feed.prepaid = st.feed.prepaid /\ t.feed.pool = st.feed.pool
      /\ t.feed.penaltyCarry = st.feed.penaltyCarry /\ t.feed.drip \in Nat
      /\ t.feed.subscriberPrice \in Nat /\ t.feed.subscriptionPrice \in Nat /\ t.feed.providerMinStake \in Nat
      /\ t.feed.disputesInRow \in Nat
      /\ t.providers = st.providers /\ t.credits = st.credits /\ t.held = st.held /\ t.balance = st.balance
      /\ t.disputes = st.disputes
  BY DEF EmptyClosed, Booked, Amounts, FeedAmounts, Tables, FeedFields, NoFeed
<1> HIDE DEF t
<1>2. Moves(t, st, 0, 0)
  BY <1>1, SameMoney, ZenonT(60)
<1> QED
  BY <1>2 DEF t

LEMMA StreakMoves ==
  ASSUME NEW st, Booked(st)
  PROVE  Moves([st EXCEPT !.feed.emptyStreak = 0], st, 0, 0)
<1> DEFINE t == [st EXCEPT !.feed.emptyStreak = 0]
<1>1. /\ DOMAIN t = Tables /\ DOMAIN t.feed = FeedFields
      /\ t.feed.deposit = st.feed.deposit /\ t.feed.prepaid = st.feed.prepaid /\ t.feed.pool = st.feed.pool
      /\ t.feed.penaltyCarry = st.feed.penaltyCarry /\ t.feed.drip \in Nat
      /\ t.feed.subscriberPrice \in Nat /\ t.feed.subscriptionPrice \in Nat /\ t.feed.providerMinStake \in Nat
      /\ t.feed.disputesInRow \in Nat
      /\ t.providers = st.providers /\ t.credits = st.credits /\ t.held = st.held /\ t.balance = st.balance
      /\ t.disputes = st.disputes
  BY DEF Booked, Amounts, FeedAmounts, Tables, FeedFields, NoFeed
<1> HIDE DEF t
<1>2. Moves(t, st, 0, 0)
  BY <1>1, SameMoney, ZenonT(60)
<1> QED
  BY <1>2 DEF t

LEMMA MovesNoneAdd ==
  ASSUME NEW st, NEW t, NEW u, Booked(st), Moves(t, st, 0, 0), Moves(u, t, 0, 0)
  PROVE  Moves(u, st, 0, 0) /\ Booked(u)
<1>1. Moves(u, st, 0 + 0, 0 + 0)
  BY MovesAdd
<1>2. Moves(u, st, 0, 0)
  BY <1>1
<1> QED
  BY <1>2 DEF Moves

-----------------------------------------------------------------------------
(* Leaving and closing. *)

LEMMA LeaveMoves ==
  ASSUME NEW st, NEW who \in SUBSET Providers, Booked(st)
  PROVE  Moves(Leave(st, who), st, 0, 0)
<1> DEFINE cleared == { st.providers[p].slot : p \in { q \in who : st.providers[q].status = "active" } }
           t == FeedClearSlots(st, cleared, ObligedFrom(st.feed))
           u == ProviderStartUnbond(t, who, now + Param.unbondPeriod)
<1>1. Moves(t, st, 0, 0)
  BY FeedClearSlotsMoves
<1> HIDE DEF t
<1>2. Moves(u, t, 0, 0)
  BY <1>1, ProviderStartUnbondMoves DEF Moves
<1>3. Moves(u, st, 0, 0)
  BY <1>1, <1>2, MovesNoneAdd
<1> QED
  BY <1>3 DEF Leave, t

LEMMA RetireMoves ==
  ASSUME NEW st, Booked(st)
  PROVE  Moves(Retire(st), st, 0, 0)
<1> DEFINE who == { p \in Providers : st.providers[p].status \in {"active", "jailed"} }
           t == Leave(st, who)
<1>1. Moves(t, st, 0, 0)
  BY LeaveMoves
<1> HIDE DEF t
<1>2. Moves(FeedSetStatus(t, "deprecated"), t, 0, 0)
  BY <1>1, FeedSetStatusMoves DEF Moves
<1>3. Moves(FeedSetStatus(t, "deprecated"), st, 0, 0)
  BY <1>1, <1>2, MovesNoneAdd
<1> QED
  BY <1>3 DEF Retire, t

LEMMA AfterEmptyMoves ==
  ASSUME NEW st, Booked(st)
  PROVE  Moves(AfterEmpty(st), st, 0, 0)
<1> DEFINE t == FeedPoolToFees(st)
<1>1. Moves(t, st, 0, 0)
  BY FeedPoolToFeesMoves
<1> HIDE DEF t
<1>2. Moves(Retire(t), t, 0, 0)
  BY <1>1, RetireMoves DEF Moves
<1>3. Moves(Retire(t), st, 0, 0)
  BY <1>1, <1>2, MovesNoneAdd
<1> QED
  BY <1>3, MovesNothing DEF AfterEmpty, t

LEMMA FundingStatusMoves ==
  ASSUME NEW st, Booked(st)
  PROVE  Moves(FundingStatus(st), st, 0, 0)
BY MovesNothing, FeedSetStatusMoves DEF FundingStatus

LEMMA SkipMoves ==
  ASSUME NEW st, NEW id, Booked(st)
  PROVE  Moves(Skip(st, id), st, 0, 0)
<1> DEFINE t == RoundFinalise(st, id, "skipped", "", 0)
           u == FeedSetCursor(t, id)
           v == EmptyClosed(u)
<1>1. Moves(t, st, 0, 0)
  BY RoundFinaliseMoves
<1> HIDE DEF t
<1>2. Booked(t) /\ Moves(u, t, 0, 0)
  BY <1>1, FeedSetCursorMoves DEF Moves
<1> HIDE DEF u
<1>3. Booked(u) /\ Moves(v, u, 0, 0)
  BY <1>2, EmptyClosedMoves DEF Moves
<1> HIDE DEF v
<1>4. Booked(v) /\ Moves(AfterEmpty(v), v, 0, 0)
  BY <1>3, AfterEmptyMoves DEF Moves
<1>5. Moves(AfterEmpty(v), st, 0, 0)
  BY <1>1, <1>2, <1>3, <1>4, MovesNoneAdd
<1> QED
  BY <1>5 DEF Skip, t, u, v

LEMMA ClosedMoves ==
  ASSUME NEW st, NEW id, NEW agg, NEW tier, Booked(st)
  PROVE  Moves(Closed(st, id, agg, tier), st, 0, 0)
<1> DEFINE a == RoundFinalise(st, id, "empty", tier, agg.value)
           b == FeedSetCursor(a, id)
           c == RoundFinalise(st, id, "aggregated", tier, agg.value)
           d == FeedSetCursor(c, id)
           e == FeedSetValue(d, id, agg.value, tier)
           z == [e EXCEPT !.feed.emptyStreak = 0]
<1>1. Closed(st, id, agg, tier) = IF tier = "empty" THEN EmptyClosed(b) ELSE z
  BY DEF Closed
<1>2. Moves(a, st, 0, 0) /\ Booked(a) /\ Moves(c, st, 0, 0) /\ Booked(c)
  BY RoundFinaliseMoves DEF Moves
<1> HIDE DEF a, c
<1>3. Moves(b, a, 0, 0) /\ Booked(b) /\ Moves(d, c, 0, 0) /\ Booked(d)
  BY <1>2, FeedSetCursorMoves DEF Moves
<1> HIDE DEF b, d
<1>4. Moves(EmptyClosed(b), b, 0, 0) /\ Moves(e, d, 0, 0) /\ Booked(e)
  BY <1>3, EmptyClosedMoves, FeedSetValueMoves DEF Moves
<1> HIDE DEF e
<1>5. Moves(z, e, 0, 0)
  BY <1>4, StreakMoves
<1> HIDE DEF z
<1>6. Moves(EmptyClosed(b), st, 0, 0)
  BY <1>2, <1>3, <1>4, MovesNoneAdd
<1>7. Moves(z, st, 0, 0)
  BY <1>2, <1>3, <1>4, <1>5, MovesNoneAdd
<1> QED
  BY <1>1, <1>6, <1>7

-----------------------------------------------------------------------------
(* Judging. *)

LEMMA TakenAmounts ==
  ASSUME NEW pr, NEW amount \in Nat, Purse(pr)
  PROVE  LET taken == TakenFrom(pr, amount) IN
         /\ taken.stake \in Nat /\ taken.stake <= pr.stake
         /\ taken.unbond \in Nat /\ taken.unbond <= pr.unbondAmount
         /\ taken.stake + taken.unbond <= amount
BY DEF TakenFrom, Smaller, Purse

\* v is what became of the record pr: v.rec holds what was not taken of it.
Cut(v, pr) ==
  /\ v.fromStake \in Nat /\ v.fromUnbond \in Nat
  /\ Purse(v.rec)
  /\ v.rec.status = pr.status
  /\ v.rec.stake = pr.stake - v.fromStake
  /\ v.rec.unbondAmount = pr.unbondAmount - v.fromUnbond
  /\ v.rec.rewards = pr.rewards

LEMMA MissSlashCut ==
  ASSUME NEW pr, Purse(pr)
  PROVE  Cut(MissSlash(pr), pr)
<1> DEFINE e == IF EpochTurned(pr)
                THEN [pr EXCEPT !.epochStart = now, !.missSlashedEpoch = 0, !.minorsEpoch = 0] ELSE pr
           amount == MissAmount(e.stake + e.missSlashedEpoch, e.missSlashedEpoch)
           taken == TakenFrom(e, amount)
           cut == [e EXCEPT !.stake = @ - taken.stake, !.unbondAmount = @ - taken.unbond,
                            !.missSlashedEpoch = @ + amount]
<1>1. MissSlash(pr) = IF amount <= 0 THEN [rec |-> e, fromStake |-> 0, fromUnbond |-> 0]
                      ELSE [rec |-> cut, fromStake |-> taken.stake, fromUnbond |-> taken.unbond]
  <2> HIDE DEF amount, taken, e
  <2> QED
    BY DEF MissSlash, amount, taken, e
<1>2. Purse(e) /\ e.status = pr.status /\ e.stake = pr.stake /\ e.unbondAmount = pr.unbondAmount /\ e.rewards = pr.rewards
  BY DEF Purse, NoProvider, ProviderFields
<1> HIDE DEF e
<1>3. amount \in Int
  <2> DEFINE base == e.stake + e.missSlashedEpoch
  <2>1. base \in Nat /\ e.missSlashedEpoch \in Nat
    BY <1>2 DEF Purse
  <2> HIDE DEF base
  <2>2. MulBps(base, Param.missSlashBps) \in Nat /\ MulBps(base, Param.missSlashCapPerEpochBps) \in Nat
    BY <2>1, ShareOfAmount, AmountsAssumption
  <2>3. MissAmount(base, e.missSlashedEpoch) \in Int
    BY <2>1, <2>2 DEF MissAmount, Smaller
  <2> QED
    BY <2>3 DEF base
<1> HIDE DEF amount
<1>4. CASE amount <= 0
  BY <1>1, <1>2, <1>4 DEF Cut, Purse
<1>5. CASE ~(amount <= 0)
  <2>1. amount \in Nat
    BY <1>3, <1>5
  <2>2. /\ taken.stake \in Nat /\ taken.stake <= e.stake
        /\ taken.unbond \in Nat /\ taken.unbond <= e.unbondAmount
    BY <1>2, <2>1, TakenAmounts
  <2> HIDE DEF taken
  <2>3. /\ DOMAIN cut = ProviderFields /\ cut.status = e.status /\ cut.rewards = e.rewards
        /\ cut.stake = e.stake - taken.stake /\ cut.unbondAmount = e.unbondAmount - taken.unbond
        /\ cut.missSlashedEpoch = e.missSlashedEpoch + amount
    BY <1>2 DEF Purse, ProviderFields, NoProvider
  <2> HIDE DEF cut
  <2>4. Purse(cut)
    BY <1>2, <2>1, <2>2, <2>3 DEF Purse
  <2> QED
    BY <1>1, <1>2, <1>5, <2>2, <2>3, <2>4 DEF Cut
<1> QED
  BY <1>4, <1>5

LEMMA JudgeCut ==
  ASSUME NEW pr, NEW id, NEW submitted, NEW outlier, NEW funded, Purse(pr)
  PROVE  Cut(Judge(pr, id, submitted, outlier, funded), pr)
<1> DEFINE missed == [pr EXCEPT !.consecutiveMisses = @ + 1]
           struck == Strike(pr, id, outlier)
<1>1. /\ Purse(missed) /\ missed.status = pr.status /\ missed.stake = pr.stake
      /\ missed.unbondAmount = pr.unbondAmount /\ missed.rewards = pr.rewards
  BY DEF Purse, ProviderFields, NoProvider
<1>2. /\ Purse(struck) /\ struck.status = pr.status /\ struck.stake = pr.stake
      /\ struck.unbondAmount = pr.unbondAmount /\ struck.rewards = pr.rewards
  BY DEF Strike, Purse, ProviderFields, NoProvider
<1> HIDE DEF missed, struck
<1>3. Cut(MissSlash(missed), missed)
  BY <1>1, MissSlashCut
<1>4. Cut(MissSlash(missed), pr)
  BY <1>1, <1>3 DEF Cut
<1>5. Cut([rec |-> missed, fromStake |-> 0, fromUnbond |-> 0], pr)
  BY <1>1 DEF Cut, Purse
<1>6. Cut([rec |-> struck, fromStake |-> 0, fromUnbond |-> 0], pr)
  BY <1>2 DEF Cut, Purse
<1> QED
  BY <1>4, <1>5, <1>6 DEF Judge, missed, struck

\* v is the sentence of the record pr: what was not taken of its stake stays or unbonds.
Carried(v, pr) ==
  /\ v.fromStake \in Nat /\ v.fromUnbond \in Nat /\ v.moved \in Int
  /\ Purse(v.rec)
  /\ v.rec.stake = pr.stake - v.fromStake - v.moved
  /\ v.rec.unbondAmount = pr.unbondAmount - v.fromUnbond + v.moved
  /\ v.rec.rewards = pr.rewards
  /\ v.rec.status = "none" <=> pr.status = "none"

LEMMA SentencedCarried ==
  ASSUME NEW pr, NEW j, NEW seated, NEW submitted, Purse(pr), Cut(j, pr)
  PROVE  Carried(Sentenced(j, seated, submitted), pr)
<1> DEFINE leaves == seated /\ IsJailed(j.rec, submitted)
           out == Jailed(j.rec)
           v == Sentenced(j, seated, submitted)
<1>1. CASE ~leaves
  <2>1. v.rec = j.rec /\ v.fromStake = j.fromStake /\ v.fromUnbond = j.fromUnbond /\ v.moved = 0
    BY <1>1 DEF Sentenced, Sentence
  <2> HIDE DEF v, leaves
  <2>2. Carried(v, pr)
    BY <2>1 DEF Carried, Cut, Purse
  <2> QED
    BY <2>2 DEF v
<1>2. CASE leaves
  <2>1. v.rec = out /\ v.fromStake = j.fromStake /\ v.fromUnbond = j.fromUnbond
        /\ v.moved = IF out.status = "unbonding" THEN j.rec.stake ELSE 0
    BY <1>2 DEF Sentenced, Sentence
  <2>2. pr.status # "none"
    BY <1>2 DEF IsJailed, Cut
  <2>3. /\ Purse(out) /\ out.rewards = j.rec.rewards
        /\ \/ out.status = "jailed" /\ out.stake = j.rec.stake /\ out.unbondAmount = j.rec.unbondAmount
           \/ out.status = "unbonding" /\ out.stake = 0 /\ out.unbondAmount = j.rec.unbondAmount + j.rec.stake
    <3> DEFINE reset == now - j.rec.jailingsSince >= JailingsWindow
               count == IF reset THEN 1 ELSE j.rec.jailings + 1
               k == [j.rec EXCEPT !.status = "jailed", !.slot = NoSlot, !.jailedAt = now, !.jailings = count,
                                  !.jailingsSince = IF reset THEN now ELSE @]
    <3>1. out \in {k, Unbonding(k, now + Param.unbondPeriod)}
      BY DEF Jailed
    <3> HIDE DEF reset, count
    <3>2. /\ Purse(k) /\ k.status = "jailed" /\ k.stake = j.rec.stake /\ k.unbondAmount = j.rec.unbondAmount
          /\ k.rewards = j.rec.rewards
      BY DEF Cut, Purse, ProviderFields, NoProvider
    <3> HIDE DEF k, out
    <3>3. LET u == Unbonding(k, now + Param.unbondPeriod) IN
          Purse(u) /\ u.status = "unbonding" /\ u.stake = 0 /\ u.unbondAmount = k.unbondAmount + k.stake
           /\ u.rewards = k.rewards
      BY <3>2, UnbondingPurse
    <3> QED
      BY <3>1, <3>2, <3>3
  <2> HIDE DEF v, leaves, out
  <2>4. Carried(v, pr)
    BY <2>1, <2>2, <2>3 DEF Carried, Cut, Purse
  <2> QED
    BY <2>4 DEF v
<1> QED
  BY <1>1, <1>2

LEMMA CarryFilledMoves ==
  ASSUME NEW st, NEW t, NEW amount \in Nat, Booked(st), DOMAIN t = Tables,
         t.providers = st.providers, t.disputes = st.disputes, t.credits = st.credits, t.balance = st.balance,
         t.feed = [st.feed EXCEPT !.penaltyCarry = @ + amount], DOMAIN t.held = Categories,
         t.held.stakes = st.held.stakes, t.held.unbonding = st.held.unbonding, t.held.credits = st.held.credits,
         t.held.pools = st.held.pools + amount, t.held.rewards = st.held.rewards, t.held.bonds = st.held.bonds,
         t.held.feesPending = st.held.feesPending, t.held.deposits = st.held.deposits
  PROVE  Moves(t, st, amount, 0)
<1>1. /\ FeedAmounts(t.feed)
      /\ t.feed.deposit = st.feed.deposit /\ t.feed.prepaid = st.feed.prepaid
      /\ t.feed.pool = st.feed.pool /\ t.feed.penaltyCarry = st.feed.penaltyCarry + amount
  BY DEF Booked, Amounts, FeedAmounts, FeedFields, NoFeed
<1>2. Booked(t)
  BY <1>1 DEF Booked, Amounts, HeldAmounts, FeedAmounts
<1> QED
  BY <1>2 DEF Moves, Spare, HeldTotal, Booked, Amounts, HeldAmounts

\* What seat says of who answers for the round, and what verdict says of them.
LEMMA EnforceMoves ==
  ASSUME NEW st, NEW id, NEW seat, NEW verdict, Booked(st), DOMAIN seat \subseteq Providers,
         \A p \in DOMAIN seat : Carried(verdict[p], st.providers[p])
  PROVE  Moves(Enforce(st, id, seat, verdict), st, 0, 0) /\ SameMembers(Enforce(st, id, seat, verdict), st)
<1> DEFINE
      owing == DOMAIN seat
      cleared == { seat[p] : p \in { q \in owing : verdict[q].jailed } }
      a == [p \in owing |-> verdict[p].fromStake]
      b == [p \in owing |-> verdict[p].fromUnbond]
      m == [p \in owing |-> verdict[p].moved]
      c == [p \in owing |-> MulBps(verdict[p].fromStake + verdict[p].fromUnbond, Param.alerterShareBps)]
      ab == [p \in owing |-> a[p] + b[p]]
      A == SumFunction(a)
      B == SumFunction(b)
      M == SumFunction(m)
      C == SumFunction(c)
      mid == [st EXCEPT !.providers = [p \in Providers |-> IF p \in owing THEN verdict[p].rec ELSE st.providers[p]],
                        !.held.stakes = @ - A - M, !.held.unbonding = @ - B + M]
      kept == A + B - C
      judged == [st EXCEPT
        !.providers = [p \in Providers |-> IF p \in owing THEN verdict[p].rec ELSE st.providers[p]],
        !.feed.penaltyCarry = @ + kept, !.held.pools = @ + kept,
        !.held.stakes = @ - A - M, !.held.unbonding = @ - B + M]
      emptied == FeedClearSlots(judged, cleared, id + 1)
<1>1. Enforce(st, id, seat, verdict) = Send(emptied, C)
  <2> HIDE DEF A, B, M, C, cleared
  <2> QED
    BY DEF Enforce, A, B, C, M, cleared
<1> HIDE DEF cleared
<1>2. /\ a \in [owing -> Nat] /\ b \in [owing -> Nat] /\ m \in [owing -> Int] /\ ab \in [owing -> Nat]
      /\ a \in [owing -> Int] /\ b \in [owing -> Int]
      /\ c \in [owing -> Nat] /\ \A p \in owing : c[p] <= ab[p] /\ ab[p] = a[p] + b[p]
  <2>1. \A p \in owing : a[p] \in Nat /\ b[p] \in Nat /\ m[p] \in Int
    BY DEF Carried
  <2>2. \A p \in owing : c[p] = MulBps(ab[p], Param.alerterShareBps) /\ ab[p] \in Nat
    BY <2>1
  <2> HIDE DEF ab
  <2>3. \A p \in owing : c[p] \in Nat /\ c[p] <= ab[p]
    BY <2>2, ShareOfAmount, AmountsAssumption
  <2>4. ab = [p \in owing |-> a[p] + b[p]]
    BY DEF ab
  <2> HIDE DEF a, b
  <2>5. ab \in [owing -> Nat] /\ \A p \in owing : ab[p] = a[p] + b[p]
    BY <2>1, <2>4
  <2>6. a \in [owing -> Nat] /\ b \in [owing -> Nat]
    BY <2>1 DEF a, b
  <2>7. m \in [owing -> Int] /\ c \in [owing -> Nat]
    BY <2>1, <2>3
  <2> QED
    BY <2>3, <2>5, <2>6, <2>7
<1>3. IsFiniteSet(owing) /\ owing \in SUBSET Providers
  BY ConstantsAssumption, FS_Subset
<1>4. \A p \in Providers : Purse(st.providers[p])
  BY DEF Booked, Amounts
<1>5. /\ DOMAIN mid = Tables
      /\ mid.feed = st.feed /\ mid.disputes = st.disputes /\ mid.credits = st.credits /\ mid.balance = st.balance
      /\ mid.providers = [p \in Providers |-> IF p \in owing THEN verdict[p].rec ELSE st.providers[p]]
      /\ mid.held = [st.held EXCEPT !.stakes = @ - A - M, !.unbonding = @ - B + M]
  <2> HIDE DEF A, B, M
  <2> QED
    BY DEF Booked, Amounts, Tables
<1>5a. /\ DOMAIN judged = Tables
       /\ judged.disputes = st.disputes /\ judged.credits = st.credits /\ judged.balance = st.balance
       /\ judged.providers = [p \in Providers |-> IF p \in owing THEN verdict[p].rec ELSE st.providers[p]]
       /\ judged.feed = [st.feed EXCEPT !.penaltyCarry = @ + kept]
       /\ judged.held = [st.held EXCEPT !.pools = @ + kept, !.stakes = @ - A - M, !.unbonding = @ - B + M]
  <2> HIDE DEF A, B, M, kept
  <2> QED
    BY DEF Booked, Amounts, Tables
<1>6. \A p \in owing : a[p] = verdict[p].fromStake /\ b[p] = verdict[p].fromUnbond /\ m[p] = verdict[p].moved
  OBVIOUS
<1> HIDE DEF a, b, m, c, ab, mid, judged, emptied
<1>7. /\ Purses(mid.providers)
      /\ \A p \in Providers : mid.providers[p].stake = IF p \in owing THEN st.providers[p].stake - a[p] - m[p]
                                                                    ELSE st.providers[p].stake
      /\ \A p \in Providers : mid.providers[p].unbondAmount = IF p \in owing THEN st.providers[p].unbondAmount - b[p] + m[p]
                                                                          ELSE st.providers[p].unbondAmount
      /\ \A p \in Providers : mid.providers[p].rewards = st.providers[p].rewards
      /\ \A p \in Providers : mid.providers[p].status = "none" <=> st.providers[p].status = "none"
  BY <1>3, <1>4, <1>5, <1>6 DEF Purses, Carried
<1>8. /\ A \in Nat /\ B \in Nat /\ M \in Int /\ C \in Nat /\ C <= A + B
  <2>1. SumFunction(ab) = A + B
    <3>1. ab \in [owing -> Int] /\ a \in [owing -> Int] /\ b \in [owing -> Int]
      BY <1>2
    <3> QED
      BY <1>2, <1>3, <3>1, SumAdd
  <2>2. A \in Nat /\ B \in Nat /\ C \in Nat /\ M \in Int
    BY <1>2, <1>3, SumNat, SumType
  <2>3. C <= SumFunction(ab)
    <3>1. ab \in [owing -> Int] /\ c \in [owing -> Int] /\ \A p \in owing : c[p] <= ab[p]
      BY <1>2
    <3> QED
      BY <1>3, <3>1, SumOrder
  <2> QED
    BY <2>1, <2>2, <2>3
<1>9. /\ DOMAIN mid.held = Categories
      /\ mid.held.stakes = st.held.stakes - SumFunction(a) - SumFunction(m)
      /\ mid.held.unbonding = st.held.unbonding - SumFunction(b) + SumFunction(m)
      /\ mid.held.rewards = st.held.rewards /\ mid.held.credits = st.held.credits /\ mid.held.pools = st.held.pools
      /\ mid.held.bonds = st.held.bonds /\ mid.held.feesPending = st.held.feesPending
      /\ mid.held.deposits = st.held.deposits
  <2>1. A = SumFunction(a) /\ B = SumFunction(b) /\ M = SumFunction(m)
    OBVIOUS
  <2> HIDE DEF A, B, M
  <2> QED
    BY <1>5, <1>8, <2>1 DEF Booked, Amounts, HeldAmounts, Categories, NothingHeld
<1>10. Moves(mid, st, -(SumFunction(a) + SumFunction(b)), 0)
  <2>1. CutAndMoved(st.providers, mid.providers, owing, a, b, m)
    BY <1>7 DEF CutAndMoved
  <2> QED
    BY <1>2, <1>3, <1>5, <1>7, <1>9, <2>1, RecordsMovedMoves
<1>11. Moves(mid, st, -(A + B), 0)
  BY <1>10
<1> HIDE DEF A, B, C, M
<1>12. kept \in Nat
  BY <1>8
<1> HIDE DEF kept
<1>13. Moves(judged, mid, kept, 0)
  <2>1. /\ DOMAIN judged.held = Categories
        /\ judged.held.stakes = mid.held.stakes /\ judged.held.unbonding = mid.held.unbonding
        /\ judged.held.credits = mid.held.credits
        /\ judged.held.pools = mid.held.pools + kept /\ judged.held.rewards = mid.held.rewards
        /\ judged.held.bonds = mid.held.bonds
        /\ judged.held.feesPending = mid.held.feesPending /\ judged.held.deposits = mid.held.deposits
    BY <1>5, <1>5a DEF Booked, Amounts, HeldAmounts, Categories, NothingHeld
  <2>2. /\ judged.providers = mid.providers /\ judged.disputes = mid.disputes /\ judged.credits = mid.credits
        /\ judged.balance = mid.balance
        /\ judged.feed = [mid.feed EXCEPT !.penaltyCarry = @ + kept]
    BY <1>5, <1>5a
  <2>3. Booked(mid)
    BY <1>11 DEF Moves
  <2> QED
    BY <1>12, <1>5a, <2>1, <2>2, <2>3, CarryFilledMoves, ZenonT(60)
<1>14. Moves(emptied, judged, 0, 0)
  BY <1>13, FeedClearSlotsMoves DEF emptied, Moves
<1>15. Moves(Send(emptied, C), emptied, C, 0)
  BY <1>8, <1>14, SendMoves DEF Moves
<1>16. Moves(judged, st, -(A + B) + kept, 0 + 0)
  BY <1>8, <1>11, <1>12, <1>13, MovesAdd
<1>17. Moves(emptied, st, (-(A + B) + kept) + 0, (0 + 0) + 0)
  BY <1>8, <1>12, <1>14, <1>16, MovesAdd
<1>18. Moves(Send(emptied, C), st, ((-(A + B) + kept) + 0) + C, ((0 + 0) + 0) + 0)
  BY <1>8, <1>12, <1>15, <1>17, MovesAdd
<1>19. Moves(Send(emptied, C), st, 0, 0)
  BY <1>8, <1>18 DEF kept
<1>20. Send(emptied, C).providers = mid.providers
  <2>1. judged.providers = mid.providers
    BY <1>5, <1>5a
  <2>2. emptied.providers = judged.providers
    BY <1>13 DEF emptied, FeedClearSlots, Require, Moves, Booked, Amounts, Tables
  <2>3. Send(emptied, C).providers = emptied.providers
    BY <1>14 DEF Send, Require, Moves, Booked, Amounts, Tables
  <2> QED
    BY <2>1, <2>2, <2>3
<1>21. SameMembers(Send(emptied, C), st)
  BY <1>7, <1>20 DEF SameMembers
<1> QED
  BY <1>1, <1>19, <1>21

\* Slots are held by providers, or by no one.
HeldByProviders(st, id) == \A s : SlotHolderAt(st.slotlog, s, id) \in Providers \cup {NoOne}

LEMMA ObligedIsProvider ==
  ASSUME NEW st, NEW id, NEW s \in Slots, HeldByProviders(st, id), ObligedHolder(st, s, id) # NoOne
  PROVE  ObligedHolder(st, s, id) \in Providers /\ st.providers[ObligedHolder(st, s, id)].status # "none"
BY DEF ObligedHolder, HeldByProviders

LEMMA LivenessMoves ==
  ASSUME NEW st, NEW id, NEW agg, NEW funded, Booked(st), HeldByProviders(st, id)
  PROVE  Moves(Liveness(st, id, agg, funded), st, 0, 0) /\ SameMembers(Liveness(st, id, agg, funded), st)
<1> DEFINE seat == SeatHeld(st, id)
           verdict == Sentences(st, id, agg, funded, seat)
           submitted == DOMAIN GetRound(st, id).subs
<1>1. DOMAIN seat = { ObligedHolder(st, s, id) : s \in ObligedSlots(st, id) }
  BY DEF SeatHeld
<1>2. DOMAIN seat \subseteq Providers
  BY <1>1, ObligedIsProvider DEF ObligedSlots
<1> HIDE DEF seat, submitted
<1>3. \A p \in DOMAIN seat : Carried(verdict[p], st.providers[p])
  <2> SUFFICES ASSUME NEW p \in DOMAIN seat
               PROVE  Carried(verdict[p], st.providers[p])
    OBVIOUS
  <2> DEFINE answered == seat[p] \in submitted
             outlier == agg.ok /\ seat[p] \notin agg.eligible
             sits == st.slots[seat[p]] = p
             j == Judge(st.providers[p], id, answered, outlier, funded)
  <2>1. verdict[p] = Sentenced(j, sits, answered)
    BY DEF Sentences, submitted
  <2>2. Purse(st.providers[p])
    BY <1>2 DEF Booked, Amounts
  <2> HIDE DEF answered, outlier, sits, verdict
  <2>3. Cut(j, st.providers[p])
    BY <2>2, JudgeCut
  <2> HIDE DEF j
  <2> QED
    BY <2>1, <2>2, <2>3, SentencedCarried
<1> HIDE DEF verdict
<1>4. Moves(Enforce(st, id, seat, verdict), st, 0, 0) /\ SameMembers(Enforce(st, id, seat, verdict), st)
  BY <1>2, <1>3, EnforceMoves
<1> QED
  BY <1>4 DEF Liveness, Judged, verdict, seat

-----------------------------------------------------------------------------
(* Paying. *)

LEMMA PartsOfAmount ==
  ASSUME NEW a \in Nat, NEW n \in Nat, n # 0
  PROVE  a \div n \in Nat /\ (a \div n) * n \in Nat /\ (a \div n) * n <= a
<1> DEFINE q == a \div n
           r == a % n
<1>1. q \in Nat /\ r \in 0 .. n - 1 /\ a = n * q + r
  OBVIOUS
<1> HIDE DEF q, r
<1>2. n * q = q * n /\ q * n \in Nat
  BY <1>1
<1>3. q \in Nat /\ q * n \in Nat /\ q * n <= a
  BY <1>1, <1>2
<1> QED
  BY <1>3 DEF q

LEMMA SharesAddUp ==
  ASSUME NEW f, NEW n \in Nat, FeedAmounts(f)
  PROVE  LET sh == Shares(f, n) IN
         /\ sh.drip \in Nat /\ sh.drip <= f.pool
         /\ sh.tip \in Nat /\ sh.each \in Nat /\ sh.each * n \in Nat /\ sh.dust \in Nat
         /\ sh.each * n + sh.tip + sh.dust = sh.drip + f.penaltyCarry
<1> DEFINE drip == IF Recurs THEN Smaller(f.drip, f.pool) ELSE f.pool
           pool == drip + f.penaltyCarry
           tip == MulBps(pool, Param.crankTipBps)
           each == IF n = 0 THEN 0 ELSE (pool - tip) \div n
           dust == pool - tip - each * n
           sh == Shares(f, n)
<1>1. sh = [drip |-> drip, tip |-> tip, each |-> each, dust |-> dust]
  BY DEF Shares
<1>2. drip \in Nat /\ drip <= f.pool /\ pool \in Nat /\ pool = drip + f.penaltyCarry /\ f.penaltyCarry \in Nat
  BY DEF FeedAmounts, Smaller
<1> HIDE DEF drip, pool
<1>3. tip \in Nat /\ tip <= pool
  BY <1>2, ShareOfAmount, AmountsAssumption
<1> HIDE DEF tip
<1>4. each \in Nat /\ each * n \in Nat /\ each * n <= pool - tip
  <2>1. CASE n = 0
    BY <1>2, <1>3, <2>1
  <2>2. CASE n # 0
    <3>1. pool - tip \in Nat
      BY <1>2, <1>3
    <3>2. each = (pool - tip) \div n
      BY <2>2
    <3> HIDE DEF each
    <3> QED
      BY <2>2, <3>1, <3>2, PartsOfAmount
  <2> QED
    BY <2>1, <2>2
<1> HIDE DEF each
<1>5. dust \in Nat /\ dust = pool - tip - each * n
  BY <1>2, <1>3, <1>4
<1>6. /\ sh.drip = drip /\ sh.tip = tip /\ sh.each = each /\ sh.dust = dust
  BY <1>1
<1> DEFINE all == each * n
<1>7. all \in Nat /\ all <= pool - tip /\ dust = pool - tip - all
  BY <1>4, <1>5
<1> HIDE DEF dust, all, sh
<1>8. all + tip + dust = drip + f.penaltyCarry
  BY <1>2, <1>3, <1>7
<1>9. /\ sh.drip \in Nat /\ sh.drip <= f.pool
      /\ sh.tip \in Nat /\ sh.each \in Nat /\ sh.each * n \in Nat /\ sh.dust \in Nat
      /\ sh.each * n + sh.tip + sh.dust = sh.drip + f.penaltyCarry
  BY <1>2, <1>3, <1>4, <1>5, <1>6, <1>8 DEF all
<1> QED
  BY <1>9 DEF sh

LEMMA RewardsRaised ==
  ASSUME NEW ps, NEW qs, Purses(ps), Purses(qs), NEW eligible \in SUBSET Providers, NEW each \in Nat,
         \A p \in Providers : qs[p].rewards = IF p \in eligible THEN ps[p].rewards + each ELSE ps[p].rewards
  PROVE  RewardsOf(qs) = RewardsOf(ps) + each * Cardinality(eligible)
<1> DEFINE f == [p \in Providers |-> ps[p].rewards]
           g == [p \in Providers |-> qs[p].rewards]
           d == [p \in eligible |-> each]
<1>1. f \in [Providers -> Int] /\ g \in [Providers -> Int] /\ d \in [eligible -> Int]
  BY DEF Purses, Purse
<1>2. \A p \in Providers : g[p] = IF p \in eligible THEN f[p] + d[p] ELSE f[p]
  OBVIOUS
<1>3. SumFunction(f) = RewardsOf(ps) /\ SumFunction(g) = RewardsOf(qs)
  BY DEF RewardsOf
<1>4. DOMAIN d = eligible /\ (\A p \in eligible : d[p] = each) /\ each \in Int
  OBVIOUS
<1>5. IsFiniteSet(Providers) /\ IsFiniteSet(eligible)
  BY ConstantsAssumption, FS_Subset
<1> HIDE DEF f, g, d
<1>6. SumFunction(d) = each * Cardinality(eligible)
  BY <1>4, <1>5, SumSame
<1>7. SumFunction(g) = SumFunction(f) + SumFunction(d)
  <2>1. eligible \in SUBSET Providers /\ IsFiniteSet(Providers)
    BY <1>5
  <2>2. f \in [Providers -> Int]
    BY <1>1
  <2>3. g \in [Providers -> Int]
    BY <1>1
  <2>4. d \in [eligible -> Int]
    BY <1>1
  <2> QED
    BY <1>2, <2>1, <2>2, <2>3, <2>4, SumMoved, Z3T(20)
<1> QED
  BY <1>3, <1>6, <1>7

LEMMA RoundPayoutMoves ==
  ASSUME NEW st, NEW eligible \in SUBSET Providers, Booked(st),
         \A p \in eligible : st.providers[p].status # "none"
  PROVE  Moves(RoundPayout(st, eligible), st, 0, 0)
<1> DEFINE n == Cardinality(eligible)
           sh == Shares(st.feed, n)
           all == sh.each * n
           t == [st EXCEPT !.feed.pool = @ - sh.drip, !.feed.penaltyCarry = sh.dust,
                           !.providers = [p \in Providers |->
                              IF p \in eligible THEN [st.providers[p] EXCEPT !.rewards = @ + sh.each]
                                                ELSE st.providers[p]],
                           !.held.pools = @ - (all + sh.tip), !.held.rewards = @ + all]
<1>1. RoundPayout(st, eligible) = Send(t, sh.tip)
  BY DEF RoundPayout, PayShares
<1>2. IsFiniteSet(eligible) /\ n \in Nat
  BY ConstantsAssumption, FS_Subset, FS_CardinalityType
<1>3. FeedAmounts(st.feed)
  BY DEF Booked, Amounts
<1>4. /\ sh.drip \in Nat /\ sh.drip <= st.feed.pool
      /\ sh.tip \in Nat /\ sh.each \in Nat /\ all \in Nat /\ sh.dust \in Nat
      /\ all + sh.tip + sh.dust = sh.drip + st.feed.penaltyCarry
  BY <1>2, <1>3, SharesAddUp
<1> HIDE DEF sh, all
<1>5. /\ DOMAIN t = Tables
      /\ t.disputes = st.disputes /\ t.credits = st.credits /\ t.balance = st.balance
      /\ t.feed = [st.feed EXCEPT !.pool = @ - sh.drip, !.penaltyCarry = sh.dust]
      /\ t.providers = [p \in Providers |->
                          IF p \in eligible THEN [st.providers[p] EXCEPT !.rewards = @ + sh.each]
                                            ELSE st.providers[p]]
      /\ t.held = [st.held EXCEPT !.pools = @ - (all + sh.tip), !.rewards = @ + all]
  BY DEF Booked, Amounts, Tables
<1> HIDE DEF t
<1>6. /\ DOMAIN t.held = Categories
      /\ t.held.stakes = st.held.stakes /\ t.held.unbonding = st.held.unbonding /\ t.held.credits = st.held.credits
      /\ t.held.pools = st.held.pools - (all + sh.tip) /\ t.held.rewards = st.held.rewards + all
      /\ t.held.bonds = st.held.bonds /\ t.held.feesPending = st.held.feesPending
      /\ t.held.deposits = st.held.deposits
  BY <1>5 DEF Booked, Amounts, HeldAmounts, Categories, NothingHeld
<1>7. /\ FeedAmounts(t.feed)
      /\ t.feed.deposit = st.feed.deposit /\ t.feed.prepaid = st.feed.prepaid
      /\ t.feed.pool = st.feed.pool - sh.drip /\ t.feed.penaltyCarry = sh.dust
  BY <1>3, <1>4, <1>5 DEF FeedAmounts, FeedFields, NoFeed
<1>8. \A p \in Providers : Purse(st.providers[p])
  BY DEF Booked, Amounts
<1>9. \A p \in eligible :
        /\ Purse([st.providers[p] EXCEPT !.rewards = @ + sh.each])
        /\ [st.providers[p] EXCEPT !.rewards = @ + sh.each].rewards = st.providers[p].rewards + sh.each
        /\ [st.providers[p] EXCEPT !.rewards = @ + sh.each].stake = st.providers[p].stake
        /\ [st.providers[p] EXCEPT !.rewards = @ + sh.each].unbondAmount = st.providers[p].unbondAmount
  BY <1>4, <1>8 DEF Purse, ProviderFields, NoProvider
<1>10. /\ Purses(t.providers)
       /\ \A p \in Providers : t.providers[p].stake = st.providers[p].stake
       /\ \A p \in Providers : t.providers[p].unbondAmount = st.providers[p].unbondAmount
       /\ \A p \in Providers : t.providers[p].rewards = IF p \in eligible THEN st.providers[p].rewards + sh.each
                                                                    ELSE st.providers[p].rewards
  BY <1>5, <1>8, <1>9 DEF Purses
<1>11. StakesOf(t.providers) = StakesOf(st.providers) /\ UnbondsOf(t.providers) = UnbondsOf(st.providers)
  BY <1>10 DEF StakesOf, UnbondsOf
<1>12. RewardsOf(t.providers) = RewardsOf(st.providers) + all
  <2>1. Purses(st.providers)
    BY <1>8 DEF Purses, Booked, Amounts
  <2> QED
    BY <1>4, <1>10, <2>1, RewardsRaised DEF all
<1>13. Booked(t)
  <2>1. HeldAmounts(t.held)
    BY <1>4, <1>6 DEF Booked, Amounts, HeldAmounts
  <2>2. Amounts(t)
    BY <1>5, <1>7, <1>10, <2>1 DEF Booked, Amounts, Purses
  <2>3. st.held.pools = st.feed.pool + st.feed.penaltyCarry /\ st.feed.pool \in Nat /\ st.feed.penaltyCarry \in Nat
    BY <1>3 DEF Booked, FeedAmounts
  <2>4. t.held.pools = t.feed.pool + t.feed.penaltyCarry
    BY <1>4, <1>6, <1>7, <2>3
  <2> QED
    BY <1>5, <1>6, <1>7, <1>11, <1>12, <2>2, <2>4 DEF Booked
<1>14. Moves(t, st, -sh.tip, 0)
  <2>1. /\ st.held.stakes \in Int /\ st.held.unbonding \in Int /\ st.held.credits \in Int /\ st.held.pools \in Int
        /\ st.held.rewards \in Int /\ st.held.bonds \in Int /\ st.held.feesPending \in Int
        /\ st.held.deposits \in Int /\ st.balance \in Int
    BY DEF Booked, Amounts, HeldAmounts
  <2>2. HeldTotal(t.held) = HeldTotal(st.held) - sh.tip
    BY ONLY <1>4, <1>6, <2>1 DEF HeldTotal
  <2>3. HeldTotal(st.held) \in Int
    BY ONLY <2>1 DEF HeldTotal
  <2>4. Spare(t) = Spare(st) + sh.tip /\ Spare(st) \in Int
    BY ONLY <1>4, <1>5, <2>1, <2>2, <2>3 DEF Spare
  <2>5. t.held.bonds = st.held.bonds - 0
    BY ONLY <1>6, <2>1
  <2> QED
    BY ONLY <1>4, <1>5, <1>13, <2>4, <2>5 DEF Moves
<1>15. Moves(Send(t, sh.tip), t, sh.tip, 0)
  BY <1>4, <1>13, SendMoves
<1>16. Moves(Send(t, sh.tip), st, -sh.tip + sh.tip, 0 + 0)
  BY <1>4, <1>14, <1>15, MovesAdd
<1>17. Moves(Send(t, sh.tip), st, 0, 0)
  BY <1>4, <1>16
<1> QED
  BY <1>1, <1>17

LEMMA EligibleAnswered ==
  ASSUME NEW f, NEW subs
  PROVE  Aggregate(f, subs).eligible \subseteq DOMAIN subs
BY DEF Aggregate, EligibleNumeric, EligibleCategorical

LEMMA SettledMoves ==
  ASSUME NEW st, NEW id, NEW agg, NEW tier, Booked(st), HeldByProviders(st, id),
         \A s \in agg.eligible : s \in Slots /\ ObligedHolder(st, s, id) # NoOne
  PROVE  Moves(Settled(st, id, agg, tier), st, 0, 0)
<1> DEFINE
      paid == IF tier = "empty" THEN {} ELSE { ObligedHolder(st, s, id) : s \in agg.eligible }
      funded == st.feed.status = "active"
      judged == Liveness(st, id, agg, funded)
      payed == RoundPayout(judged, paid)
      closed == Closed(payed, id, agg, tier)
<1>1. Settled(st, id, agg, tier) = AfterEmpty(FundingStatus(closed))
  BY DEF Settled
<1>2. paid \in SUBSET Providers /\ \A p \in paid : st.providers[p].status # "none"
  BY ObligedIsProvider
<1> HIDE DEF paid, funded
<1>3. Moves(judged, st, 0, 0) /\ SameMembers(judged, st)
  BY LivenessMoves
<1> HIDE DEF judged
<1>4. \A p \in paid : judged.providers[p].status # "none"
  BY <1>2, <1>3 DEF SameMembers
<1>5. Booked(judged) /\ Moves(payed, judged, 0, 0)
  BY <1>2, <1>3, <1>4, RoundPayoutMoves DEF Moves
<1> HIDE DEF payed
<1>6. Booked(payed) /\ Moves(closed, payed, 0, 0)
  BY <1>5, ClosedMoves DEF Moves
<1> HIDE DEF closed
<1>7. Booked(closed) /\ Moves(FundingStatus(closed), closed, 0, 0)
  BY <1>6, FundingStatusMoves DEF Moves
<1>8. Booked(FundingStatus(closed)) /\ Moves(AfterEmpty(FundingStatus(closed)), FundingStatus(closed), 0, 0)
  BY <1>7, AfterEmptyMoves DEF Moves
<1>9. Moves(AfterEmpty(FundingStatus(closed)), st, 0, 0)
  BY <1>3, <1>5, <1>6, <1>7, <1>8, MovesNoneAdd
<1> QED
  BY <1>1, <1>9

LEMMA FinaliseMoves ==
  ASSUME NEW st, NEW id, Booked(st), HeldByProviders(st, id)
  PROVE  Moves(Finalise(st, id), st, 0, 0)
<1> DEFINE
      isOpen == GetRound(st, id).status = "open"
      first == GetRound(st, id)
      required == Require(st, isOpen)
      put == PutRound(required, id, first)
      all == put.rounds[id].subs
      subs == [s \in DOMAIN all \cap ObligedSlots(put, id) |-> all[s]]
      agg == AggregateOf(put, id)
      promoted == Promoted(put, agg)
      tier == TierOf(promoted, agg, Cardinality(ObligedSlots(put, id)))
<1>1. Finalise(st, id) = Settled(promoted, id, agg, tier)
  BY DEF Finalise, FinaliseOnRecord, FinaliseAs
<1>2. agg.eligible \subseteq ObligedSlots(put, id)
  <2>1. agg.eligible \subseteq DOMAIN subs
    BY EligibleAnswered DEF AggregateOf
  <2> QED
    BY <2>1
<1> HIDE DEF isOpen, first, agg, subs, all
<1>3. Booked(required) /\ Moves(required, st, 0, 0)
  BY RequireMoves DEF Moves
<1>4. required.slotlog = st.slotlog /\ required.providers = st.providers
  BY DEF Require, Booked, Amounts, Tables
<1> HIDE DEF required
<1>5. Booked(put) /\ Moves(put, required, 0, 0)
  BY <1>3, PutRoundMoves DEF Moves
<1>6. put.slotlog = st.slotlog /\ put.providers = st.providers
  BY <1>3, <1>4 DEF PutRound, Booked, Amounts, Tables
<1> HIDE DEF put
<1>7. Booked(promoted) /\ Moves(promoted, put, 0, 0)
  BY <1>5, FeedPromoteFinalMoves, MovesNothing DEF Moves, Promoted
<1>8. promoted.slotlog = put.slotlog /\ promoted.providers = put.providers
  BY <1>5 DEF Promoted, FeedPromoteFinal, SetFinal, Booked, Amounts, Tables
<1> HIDE DEF promoted, tier
<1>9. HeldByProviders(promoted, id)
  BY <1>6, <1>8 DEF HeldByProviders
<1>10. \A s \in agg.eligible : s \in Slots /\ ObligedHolder(promoted, s, id) # NoOne
  BY <1>2, <1>8 DEF ObligedSlots, ObligedHolder
<1>11. Moves(Settled(promoted, id, agg, tier), promoted, 0, 0)
  BY <1>7, <1>9, <1>10, SettledMoves
<1>12. Moves(Settled(promoted, id, agg, tier), st, 0, 0)
  BY <1>3, <1>5, <1>7, <1>11, MovesNoneAdd
<1> QED
  BY <1>1, <1>12

-----------------------------------------------------------------------------
(* Deciding a dispute. *)

LEMMA RoundMarkDisputedMoves ==
  ASSUME NEW st, NEW id, NEW d, Booked(st)
  PROVE  Moves(RoundMarkDisputed(st, id, d), st, 0, 0)
<1> DEFINE t == RoundMarkDisputed(st, id, d)
<1>1. /\ DOMAIN t = Tables /\ DOMAIN t.feed = FeedFields
      /\ t.feed.deposit = st.feed.deposit /\ t.feed.prepaid = st.feed.prepaid /\ t.feed.pool = st.feed.pool
      /\ t.feed.penaltyCarry = st.feed.penaltyCarry /\ t.feed.drip \in Nat
      /\ t.feed.subscriberPrice \in Nat /\ t.feed.subscriptionPrice \in Nat /\ t.feed.providerMinStake \in Nat
      /\ t.feed.disputesInRow \in Nat
      /\ t.providers = st.providers /\ t.credits = st.credits /\ t.held = st.held /\ t.balance = st.balance
      /\ t.disputes = st.disputes
  BY DEF RoundMarkDisputed, PutRound, Booked, Amounts, FeedAmounts, Tables, FeedFields, NoFeed
<1> HIDE DEF t
<1>2. Moves(t, st, 0, 0)
  BY <1>1, SameMoney, ZenonT(60)
<1> QED
  BY <1>2 DEF t

LEMMA RoundOverturnMoves ==
  ASSUME NEW st, NEW id, NEW value, Booked(st)
  PROVE  Moves(RoundOverturn(st, id, value), st, 0, 0)
<1> DEFINE t == RoundOverturn(st, id, value)
<1>1. /\ DOMAIN t = Tables /\ DOMAIN t.feed = FeedFields
      /\ t.feed.deposit = st.feed.deposit /\ t.feed.prepaid = st.feed.prepaid /\ t.feed.pool = st.feed.pool
      /\ t.feed.penaltyCarry = st.feed.penaltyCarry /\ t.feed.drip \in Nat
      /\ t.feed.subscriberPrice \in Nat /\ t.feed.subscriptionPrice \in Nat /\ t.feed.providerMinStake \in Nat
      /\ t.feed.disputesInRow \in Nat
      /\ t.providers = st.providers /\ t.credits = st.credits /\ t.held = st.held /\ t.balance = st.balance
      /\ t.disputes = st.disputes
  <2> DEFINE s1 == PutRound(st, id, [st.rounds[id] EXCEPT !.value = value, !.status = "aggregated", !.tier = "final"])
             s2 == IF st.feed.haveFinal /\ st.feed.finalRound = id
                   THEN [s1 EXCEPT !.feed.finalValue = value] ELSE s1
             MoneyStays(s) ==
               /\ DOMAIN s = Tables /\ DOMAIN s.feed = FeedFields
               /\ s.feed.deposit = st.feed.deposit /\ s.feed.prepaid = st.feed.prepaid
               /\ s.feed.pool = st.feed.pool /\ s.feed.penaltyCarry = st.feed.penaltyCarry
               /\ s.feed.drip = st.feed.drip /\ s.feed.subscriberPrice = st.feed.subscriberPrice
               /\ s.feed.subscriptionPrice = st.feed.subscriptionPrice
               /\ s.feed.providerMinStake = st.feed.providerMinStake
               /\ s.feed.disputesInRow = st.feed.disputesInRow
               /\ s.providers = st.providers /\ s.credits = st.credits /\ s.held = st.held
               /\ s.balance = st.balance /\ s.disputes = st.disputes
  <2>1. FeedAmounts(st.feed) /\ DOMAIN st = Tables
    BY DEF Booked, Amounts
  <2>2. MoneyStays(st)
    BY ONLY <2>1 DEF FeedAmounts
  <2>3. MoneyStays(s1)
    BY ONLY <2>2 DEF PutRound, Tables
  <2>4. t = IF Serves(st, id) THEN [s2 EXCEPT !.feed.lastValue = value, !.feed.lastTier = "final"] ELSE s2
    BY DEF RoundOverturn
  <2> HIDE DEF s1, t
  <2>5. MoneyStays(s2)
    BY ONLY <2>3 DEF Tables, FeedFields, NoFeed
  <2> HIDE DEF s2
  <2>6. MoneyStays(t)
    BY ONLY <2>4, <2>5 DEF Tables, FeedFields, NoFeed
  <2> QED
    BY ONLY <2>1, <2>6 DEF FeedAmounts
<1> HIDE DEF t
<1>2. Moves(t, st, 0, 0)
  BY <1>1, SameMoney, ZenonT(60)
<1> QED
  BY <1>2 DEF t

LEMMA RoundVoidMoves ==
  ASSUME NEW st, NEW id, Booked(st)
  PROVE  Moves(RoundVoid(st, id), st, 0, 0)
<1> DEFINE t == RoundVoid(st, id)
<1>1. /\ DOMAIN t = Tables /\ DOMAIN t.feed = FeedFields
      /\ t.feed.deposit = st.feed.deposit /\ t.feed.prepaid = st.feed.prepaid /\ t.feed.pool = st.feed.pool
      /\ t.feed.penaltyCarry = st.feed.penaltyCarry /\ t.feed.drip \in Nat
      /\ t.feed.subscriberPrice \in Nat /\ t.feed.subscriptionPrice \in Nat /\ t.feed.providerMinStake \in Nat
      /\ t.feed.disputesInRow \in Nat
      /\ t.providers = st.providers /\ t.credits = st.credits /\ t.held = st.held /\ t.balance = st.balance
      /\ t.disputes = st.disputes
  BY DEF RoundVoid, PutRound, Booked, Amounts, FeedAmounts, Tables, FeedFields, NoFeed
<1> HIDE DEF t
<1>2. Moves(t, st, 0, 0)
  BY <1>1, SameMoney, ZenonT(60)
<1> QED
  BY <1>2 DEF t

LEMMA RoundRestartWindowMoves ==
  ASSUME NEW st, NEW id, NEW tier, Booked(st)
  PROVE  Moves(RoundRestartWindow(st, id, tier), st, 0, 0)
<1> DEFINE t == RoundRestartWindow(st, id, tier)
<1>1. /\ DOMAIN t = Tables /\ DOMAIN t.feed = FeedFields
      /\ t.feed.deposit = st.feed.deposit /\ t.feed.prepaid = st.feed.prepaid /\ t.feed.pool = st.feed.pool
      /\ t.feed.penaltyCarry = st.feed.penaltyCarry /\ t.feed.drip \in Nat
      /\ t.feed.subscriberPrice \in Nat /\ t.feed.subscriptionPrice \in Nat /\ t.feed.providerMinStake \in Nat
      /\ t.feed.disputesInRow \in Nat
      /\ t.providers = st.providers /\ t.credits = st.credits /\ t.held = st.held /\ t.balance = st.balance
      /\ t.disputes = st.disputes
  BY DEF RoundRestartWindow, PutRound, Booked, Amounts, FeedAmounts, Tables, FeedFields, NoFeed
<1> HIDE DEF t
<1>2. Moves(t, st, 0, 0)
  BY <1>1, SameMoney, ZenonT(60)
<1> QED
  BY <1>2 DEF t

LEMMA TwoShares ==
  ASSUME NEW a \in Nat, NEW x \in 0 .. Bps, NEW y \in 0 .. Bps, x + y <= Bps
  PROVE  MulBps(a, x) \in Nat /\ MulBps(a, y) \in Nat /\ MulBps(a, x) + MulBps(a, y) <= a
<1> DEFINE q == a \div Bps
           r == a % Bps
           v == r * x
           w == r * y
<1>1. q \in Nat /\ r \in Nat /\ a = Bps * q + r
  <2>1. q = a \div Bps /\ r = a % Bps
    OBVIOUS
  <2> HIDE DEF q, r
  <2> QED
    BY ONLY a \in Nat, <2>1, WholeAndRest
<1>2. x \in Nat /\ y \in Nat /\ x + y \in Nat /\ x + y <= Bps /\ Bps \in Nat /\ r \in Nat
  <2> HIDE DEF q, r
  <2> QED
    <3>1. x \in Nat /\ x <= Bps /\ y \in Nat /\ y <= Bps /\ Bps \in Nat
      BY ONLY x \in 0 .. Bps, y \in 0 .. Bps, InBps
    <3> QED
      BY ONLY <1>1, <3>1, x + y <= Bps
<1>3. MulBps(a, x) = q * x + v \div Bps /\ MulBps(a, y) = q * y + w \div Bps
  BY DEF MulBps
<1>4. q * x \in Nat /\ q * y \in Nat /\ q * x + q * y <= q * Bps
  <2> HIDE DEF q
  <2>1. q * x \in Nat /\ q * y \in Nat /\ q * x + q * y = q * (x + y) /\ q * (x + y) <= q * Bps
    BY ONLY <1>2, <1>1, TimesSum, TimesOrder
  <2> QED
    BY ONLY <2>1
<1>5. v \in Nat /\ w \in Nat /\ v + w <= r * Bps
  <2> HIDE DEF r
  <2>1. r * x \in Nat /\ r * y \in Nat /\ r * x + r * y = r * (x + y) /\ r * (x + y) <= r * Bps
    BY ONLY <1>2, TimesSum, TimesOrder
  <2> QED
    BY ONLY <2>1 DEF v, w
<1>6. v \div Bps \in Nat /\ w \div Bps \in Nat /\ v \div Bps + w \div Bps <= r
  <2> HIDE DEF v, w, r
  <2> QED
    BY ONLY <1>2, <1>5, WholeParts
<1> DEFINE i == q * x
           j == q * y
           k == v \div Bps
           l == w \div Bps
           z == q * Bps
<1>7. i \in Nat /\ j \in Nat /\ i + j <= z
  BY ONLY <1>4
<1>8. k \in Nat /\ l \in Nat /\ k + l <= r
  BY ONLY <1>6
<1>9. MulBps(a, x) = i + k /\ MulBps(a, y) = j + l
  BY ONLY <1>3
<1>10. z \in Nat /\ a = z + r
  <2> HIDE DEF q, r
  <2> QED
    BY ONLY <1>1, <1>2
<1> HIDE DEF i, j, k, l, q, r, z
<1> QED
  BY ONLY <1>1, <1>7, <1>8, <1>9, <1>10

\* The rest of a forfeit, which goes to the fees; shares of more than the whole leave none.
Rest(a, x, y) == IF a - x - y > 0 THEN a - x - y ELSE 0

\* x and y are the shares of the forfeit a: with the rest they are all of it, and what they
\* draw beyond it.
Divided(a, x, y) ==
  /\ x \in Nat /\ y \in Nat /\ Rest(a, x, y) \in Nat /\ Overdraw(a) \in Nat
  /\ x + y + Rest(a, x, y) = a + Overdraw(a)
  /\ SharesFit => Overdraw(a) = 0
  /\ \A st : BondToFees(st, a - x - y) = BondToFees(st, Rest(a, x, y))

LEMMA ForfeitDivided ==
  ASSUME NEW a \in Nat
  PROVE  Divided(a, MulBps(a, Param.forfeitSplitWinnerBps), MulBps(a, Param.forfeitSplitVotersBps))
<1> DEFINE x == MulBps(a, Param.forfeitSplitWinnerBps)
           y == MulBps(a, Param.forfeitSplitVotersBps)
<1>1. Param.forfeitSplitWinnerBps \in 0 .. Bps /\ Param.forfeitSplitVotersBps \in 0 .. Bps
  BY AmountsAssumption
<1>2. x \in Nat /\ y \in Nat
  BY <1>1, ShareOfAmount
<1>3. SharesFit => x + y <= a
  BY <1>1, TwoShares DEF SharesFit
<1>4. Overdraw(a) = IF x + y > a THEN (x + y) - a ELSE 0
  BY ONLY DEF Overdraw
<1> HIDE DEF x, y
<1>5. Rest(a, x, y) \in Nat /\ Overdraw(a) \in Nat /\ x + y + Rest(a, x, y) = a + Overdraw(a)
  BY ONLY <1>2, <1>4, a \in Nat DEF Rest
<1>6. SharesFit => Overdraw(a) = 0
  BY ONLY <1>2, <1>3, <1>4, a \in Nat
<1>7. \A st : BondToFees(st, a - x - y) = BondToFees(st, Rest(a, x, y))
  <2> DEFINE r == a - x - y
  <2>1. r \in Int
    BY ONLY <1>2, a \in Nat
  <2>2. Rest(a, x, y) = IF r > 0 THEN r ELSE 0
    BY DEF Rest
  <2> HIDE DEF r
  <2>3. r > 0 \/ (~(r > 0) /\ ~(0 > 0))
    BY ONLY <2>1
  <2>4. \A st : ~(r > 0) => BondToFees(st, r) = st
    BY DEF BondToFees
  <2>5. \A st : ~(0 > 0) => BondToFees(st, 0) = st
    BY DEF BondToFees
  <2> QED
    BY ONLY <2>2, <2>3, <2>4, <2>5, Zenon DEF r
<1> QED
  BY <1>2, <1>5, <1>6, <1>7 DEF Divided, x, y

\* A handler that went through has not paid more bonds than there were.
NoDebt(st) == st.ok => st.held.bonds >= 0

\* From st to t, b of the bonds are paid.
Pays(t, st, b) == Moves(t, st, 0, b) /\ (NoDebt(st) => NoDebt(t))

LEMMA PaysAdd ==
  ASSUME NEW st, NEW t, NEW u, NEW b \in Int, NEW c \in Int, Booked(st), Pays(t, st, b), Pays(u, t, c)
  PROVE  Pays(u, st, b + c)
<1>1. Moves(u, st, 0 + 0, b + c)
  BY MovesAdd DEF Pays
<1> QED
  BY <1>1 DEF Pays

\* A step that leaves the bonds alone, and panics only where something panicked before.
LEMMA QuietPays ==
  ASSUME NEW st, NEW t, Booked(st), Moves(t, st, 0, 0), t.ok => st.ok
  PROVE  Pays(t, st, 0)
BY SpareIsInt DEF Pays, NoDebt, Moves

LEMMA BondReleasePays ==
  ASSUME NEW st, NEW amount \in Nat, Booked(st)
  PROVE  Pays(BondRelease(st, amount), st, amount)
<1> DEFINE r == Require(st, amount <= st.held.bonds)
           t == [r EXCEPT !.held.bonds = @ - amount]
           u == BondRelease(st, amount)
<1>1. Moves(u, st, 0, amount)
  BY BondReleaseMoves
<1>2. DOMAIN st = Tables /\ st.held.bonds \in Int
  BY SpareIsInt DEF Booked, Amounts
<1>3. r.ok = (st.ok /\ amount <= st.held.bonds) /\ DOMAIN r = Tables
  BY <1>2 DEF Require, Tables
<1>4. u = IF amount > 0 THEN Send(t, amount) ELSE st
  BY DEF BondRelease
<1> HIDE DEF r
<1>5. t.ok = r.ok /\ DOMAIN t = Tables
  BY <1>3 DEF Tables
<1> HIDE DEF t
<1>6. amount > 0 => (Send(t, amount).ok => t.ok)
  BY <1>5 DEF Send, Require, Tables
<1> HIDE DEF u
<1>7. NoDebt(st) => NoDebt(u)
  <2>1. IF amount > 0 THEN u.ok => amount <= st.held.bonds ELSE u = st
    BY ONLY <1>3, <1>4, <1>5, <1>6
  <2>2. u.held.bonds = st.held.bonds - amount
    BY ONLY <1>1 DEF Moves
  <2> QED
    BY ONLY <1>2, <2>1, <2>2, amount \in Nat DEF NoDebt
<1> QED
  BY <1>1, <1>7 DEF Pays, u

LEMMA FundVotersPays ==
  ASSUME NEW st, NEW amount \in Nat, Booked(st)
  PROVE  Pays(FundVoters(st, amount), st, amount)
BY BondReleasePays DEF FundVoters

LEMMA BondToPoolPays ==
  ASSUME NEW st, NEW amount \in Nat, Booked(st)
  PROVE  Pays(BondToPool(st, amount), st, amount)
<1> DEFINE u == BondToPool(st, amount)
<1>1. Moves(u, st, 0, amount)
  BY BondToPoolMoves
<1>2. DOMAIN st = Tables /\ st.held.bonds \in Int
  BY SpareIsInt DEF Booked, Amounts
<1>3. IF amount > 0 THEN u.ok = (st.ok /\ amount <= st.held.bonds) ELSE u = st
  BY <1>2 DEF BondToPool, Require, Tables
<1> HIDE DEF u
<1>4. NoDebt(st) => NoDebt(u)
  <2>1. IF amount > 0 THEN u.ok => amount <= st.held.bonds ELSE u = st
    BY ONLY <1>3
  <2>2. u.held.bonds = st.held.bonds - amount
    BY ONLY <1>1 DEF Moves
  <2> QED
    BY ONLY <1>2, <2>1, <2>2, amount \in Nat DEF NoDebt
<1> QED
  BY <1>1, <1>4 DEF Pays, u

LEMMA BondToFeesPays ==
  ASSUME NEW st, NEW amount \in Nat, Booked(st)
  PROVE  Pays(BondToFees(st, amount), st, amount)
<1> DEFINE u == BondToFees(st, amount)
<1>1. Moves(u, st, 0, amount)
  BY BondToFeesMoves
<1>2. DOMAIN st = Tables /\ st.held.bonds \in Int
  BY SpareIsInt DEF Booked, Amounts
<1>3. IF amount > 0 THEN u.ok = (st.ok /\ amount <= st.held.bonds) ELSE u = st
  BY <1>2 DEF BondToFees, Require, Tables
<1> HIDE DEF u
<1>4. NoDebt(st) => NoDebt(u)
  <2>1. IF amount > 0 THEN u.ok => amount <= st.held.bonds ELSE u = st
    BY ONLY <1>3
  <2>2. u.held.bonds = st.held.bonds - amount
    BY ONLY <1>1 DEF Moves
  <2> QED
    BY ONLY <1>2, <2>1, <2>2, amount \in Nat DEF NoDebt
<1> QED
  BY <1>1, <1>4 DEF Pays, u

LEMMA ConsumeBondPays ==
  ASSUME NEW st, NEW bond \in Nat, NEW bps \in 0 .. Bps, Booked(st)
  PROVE  Pays(ConsumeBond(st, bond, bps), st, bond)
<1> DEFINE consumed == MulBps(bond, bps)
           half == consumed \div 2
           a == FundVoters(st, half)
           b == BondToFees(a, consumed - half)
           c == BondRelease(b, bond - consumed)
<1>1. ConsumeBond(st, bond, bps) = c
  BY DEF ConsumeBond
<1>2. consumed \in Nat /\ consumed <= bond
  BY ShareOfAmount
<1> HIDE DEF consumed
<1>3. half \in Nat /\ half <= consumed
  BY <1>2
<1> HIDE DEF half
<1>4. consumed - half \in Nat /\ bond - consumed \in Nat
  BY <1>2, <1>3
<1>5. Pays(a, st, half) /\ Booked(a)
  BY <1>3, FundVotersPays DEF Pays, Moves
<1> HIDE DEF a
<1>6. Pays(b, a, consumed - half) /\ Booked(b)
  BY <1>4, <1>5, BondToFeesPays DEF Pays, Moves
<1> HIDE DEF b
<1>7. Pays(c, b, bond - consumed)
  BY <1>4, <1>6, BondReleasePays
<1> HIDE DEF c
<1>8. Pays(b, st, half + (consumed - half))
  BY <1>3, <1>4, <1>5, <1>6, PaysAdd
<1>9. Pays(c, st, (half + (consumed - half)) + (bond - consumed))
  BY <1>2, <1>3, <1>4, <1>7, <1>8, PaysAdd
<1>10. (half + (consumed - half)) + (bond - consumed) = bond
  BY <1>2, <1>3
<1> QED
  BY <1>1, <1>9, <1>10

\* The records of disputes hold amounts.
Bonds(d) == d.bond \in Nat /\ d.appealBond \in Nat

LEMMA SettleAppealBondPays ==
  ASSUME NEW st, NEW d, NEW outcome, Booked(st), Bonds(d)
  PROVE  Pays(SettleAppealBond(st, d, outcome), st, d.appealBond)
<1>1. Pays(st, st, 0)
  BY MovesNothing, QuietPays
<1>2. d.appealBond \in Nat /\ Param.appealConsumeBps \in 0 .. Bps
  BY AmountsAssumption DEF Bonds
<1> QED
  BY <1>1, <1>2, BondReleasePays, ConsumeBondPays DEF SettleAppealBond

\* v is what a lost dispute did to the record pr.
Struck(v, pr) ==
  /\ v.fromStake \in Nat /\ v.fromUnbond \in Nat /\ v.ejected \in BOOLEAN
  /\ Purse(v.rec)
  /\ v.rec.rewards = pr.rewards
  /\ ~v.ejected => /\ v.rec.stake = pr.stake - v.fromStake
                   /\ v.rec.unbondAmount = pr.unbondAmount - v.fromUnbond
  /\ v.ejected => /\ v.rec.stake = 0
                  /\ v.rec.unbondAmount = pr.unbondAmount - v.fromUnbond + (pr.stake - v.fromStake)

LEMMA SlashProviderStrikes ==
  ASSUME NEW pr, NEW tier, Purse(pr)
  PROVE  Struck(SlashProvider(pr, tier), pr)
<1> DEFINE bps == IF tier = "major" THEN Param.majorSlashBps ELSE Param.minorSlashBps
           amount == MulBps(pr.stake + pr.unbondAmount, bps)
           taken == TakenFrom(pr, amount)
           e == IF tier = "minor" /\ EpochTurned(pr)
                THEN [pr EXCEPT !.minorsEpoch = 0, !.missSlashedEpoch = 0, !.epochStart = now] ELSE pr
           cut == [e EXCEPT !.stake = @ - taken.stake, !.unbondAmount = @ - taken.unbond,
                            !.minorsEpoch = IF tier = "minor" THEN @ + 1 ELSE @]
           out == Unbonding(cut, now + Param.unbondPeriod)
           ejected == tier = "major" /\ pr.status \in {"active", "jailed"}
           nothing == pr.status = "none" \/ amount <= 0
           slash == SlashProvider(pr, tier)
<1>1. /\ Purse(e) /\ e.status = pr.status /\ e.stake = pr.stake /\ e.unbondAmount = pr.unbondAmount
      /\ e.rewards = pr.rewards
  BY DEF Purse, ProviderFields, NoProvider
<1>2. \/ nothing /\ slash = [rec |-> pr, fromStake |-> 0, fromUnbond |-> 0, ejected |-> FALSE]
      \/ ~nothing /\ slash = [rec |-> IF ejected THEN out ELSE cut, fromStake |-> taken.stake,
                              fromUnbond |-> taken.unbond, ejected |-> ejected]
  <2> HIDE DEF amount, taken, e, cut, out
  <2> QED
    BY DEF SlashProvider, amount, taken, e, cut, out
<1>3. amount \in Nat
  <2>1. pr.stake + pr.unbondAmount \in Nat /\ bps \in 0 .. Bps
    BY AmountsAssumption DEF Purse
  <2> HIDE DEF bps
  <2> QED
    BY <2>1, ShareOfAmount
<1> HIDE DEF amount, e
<1>4. /\ taken.stake \in Nat /\ taken.stake <= pr.stake
      /\ taken.unbond \in Nat /\ taken.unbond <= pr.unbondAmount
  BY <1>3, TakenAmounts
<1> HIDE DEF taken
<1>5. /\ DOMAIN cut = ProviderFields /\ cut.status = pr.status /\ cut.rewards = pr.rewards
      /\ cut.stake = pr.stake - taken.stake /\ cut.unbondAmount = pr.unbondAmount - taken.unbond
      /\ cut.missSlashedEpoch = e.missSlashedEpoch
  BY <1>1 DEF Purse, ProviderFields, NoProvider
<1> HIDE DEF cut
<1>6. Purse(cut)
  BY <1>1, <1>4, <1>5 DEF Purse
<1>7. /\ Purse(out) /\ out.stake = 0 /\ out.unbondAmount = cut.unbondAmount + cut.stake /\ out.rewards = cut.rewards
  BY <1>6, UnbondingPurse
<1>8. ejected \in BOOLEAN
  OBVIOUS
<1> HIDE DEF out, slash, nothing, ejected
<1>9. Struck(slash, pr)
  <2>1. CASE nothing
    <3>1. slash.rec = pr /\ slash.fromStake = 0 /\ slash.fromUnbond = 0 /\ slash.ejected = FALSE
      BY <1>2, <2>1
    <3>2. Purse(slash.rec)
      BY <3>1
    <3>3. pr.stake \in Nat /\ pr.unbondAmount \in Nat
      BY DEF Purse
    <3>4. slash.rec.stake = pr.stake - slash.fromStake /\ slash.rec.unbondAmount = pr.unbondAmount - slash.fromUnbond
      BY <3>1, <3>3
    <3>5. slash.rec.rewards = pr.rewards /\ slash.ejected \in BOOLEAN /\ ~slash.ejected
      BY <3>1
    <3>6. slash.fromStake \in Nat /\ slash.fromUnbond \in Nat
      BY <3>1
    <3> QED
      BY <3>2, <3>4, <3>5, <3>6 DEF Struck
  <2>2. CASE ~nothing
    <3>1. /\ slash.rec = (IF ejected THEN out ELSE cut) /\ slash.fromStake = taken.stake
          /\ slash.fromUnbond = taken.unbond /\ slash.ejected = ejected
      BY <1>2, <2>2
    <3>2. CASE ejected
      BY <1>4, <1>5, <1>6, <1>7, <1>8, <3>1, <3>2 DEF Struck, Purse
    <3>3. CASE ~ejected
      BY <1>4, <1>5, <1>6, <1>8, <3>1, <3>3 DEF Struck, Purse
    <3> QED
      BY <3>2, <3>3
  <2> QED
    BY <2>1, <2>2
<1> QED
  BY <1>9 DEF slash

LEMMA CarryOutMoves ==
  ASSUME NEW st, NEW slash, Booked(st), DOMAIN slash \subseteq Providers,
         \A p \in DOMAIN slash : Struck(slash[p], st.providers[p])
  PROVE  TakenBy(slash) \in Nat /\ Moves(CarryOut(st, slash), st, 0, -TakenBy(slash))
<1> DEFINE
      who == DOMAIN slash
      out == { p \in who : slash[p].ejected }
      seated == { p \in out : st.providers[p].status = "active" }
      cleared == { s \in Slots : st.slots[s] \in seated /\ st.providers[st.slots[s]].slot = s }
      a == [p \in who |-> slash[p].fromStake]
      b == [p \in who |-> slash[p].fromUnbond]
      ab == [p \in who |-> slash[p].fromStake + slash[p].fromUnbond]
      mo == [p \in out |-> st.providers[p].stake - slash[p].fromStake]
      m == [p \in who |-> IF p \in out THEN mo[p] ELSE 0]
      A == SumFunction(a)
      B == SumFunction(b)
      M == SumFunction(mo)
      mid == [st EXCEPT !.providers = [p \in Providers |-> IF p \in who THEN slash[p].rec ELSE st.providers[p]],
                        !.held.stakes = @ - A - M, !.held.unbonding = @ - B + M]
      cut == [st EXCEPT !.providers = [p \in Providers |-> IF p \in who THEN slash[p].rec ELSE st.providers[p]],
                        !.held.stakes = @ - A - M,
                        !.held.unbonding = @ - B + M,
                        !.held.bonds = @ + A + B]
      from == ObligedFrom(st.feed)
      t == FeedClearSlots(cut, cleared, from)
<1>1. CarryOut(st, slash) = t
  <2> HIDE DEF cleared, A, B, M
  <2> QED
    BY DEF CarryOut, cleared, A, B, M
<1> HIDE DEF cleared, from
<1>2. IsFiniteSet(who) /\ who \in SUBSET Providers /\ out \in SUBSET who
  BY ConstantsAssumption, FS_Subset
<1>3. /\ a \in [who -> Nat] /\ b \in [who -> Nat] /\ ab \in [who -> Int] /\ mo \in [out -> Int] /\ m \in [who -> Int]
      /\ a \in [who -> Int] /\ b \in [who -> Int] /\ DOMAIN m = who
  BY DEF Struck, Booked, Amounts, Purse
<1>4. /\ \A p \in who : ab[p] = a[p] + b[p] /\ a[p] = slash[p].fromStake /\ b[p] = slash[p].fromUnbond
      /\ \A p \in who : m[p] = IF p \in out THEN mo[p] ELSE 0
      /\ \A p \in who : m[p] = IF slash[p].ejected THEN st.providers[p].stake - a[p] ELSE 0
  OBVIOUS
<1>5. TakenBy(slash) = SumFunction(ab)
  BY DEF TakenBy
<1>6. \A p \in Providers : Purse(st.providers[p])
  BY DEF Booked, Amounts
<1>7. /\ DOMAIN mid = Tables
      /\ mid.feed = st.feed /\ mid.disputes = st.disputes /\ mid.credits = st.credits /\ mid.balance = st.balance
      /\ mid.providers = [p \in Providers |-> IF p \in who THEN slash[p].rec ELSE st.providers[p]]
      /\ mid.held = [st.held EXCEPT !.stakes = @ - A - M, !.unbonding = @ - B + M]
  <2> HIDE DEF A, B, M
  <2> QED
    BY DEF Booked, Amounts, Tables
<1>8. /\ DOMAIN cut = Tables
      /\ cut.feed = st.feed /\ cut.disputes = st.disputes /\ cut.credits = st.credits /\ cut.balance = st.balance
      /\ cut.providers = [p \in Providers |-> IF p \in who THEN slash[p].rec ELSE st.providers[p]]
      /\ cut.held = [st.held EXCEPT !.stakes = @ - A - M, !.unbonding = @ - B + M, !.bonds = @ + A + B]
  <2> HIDE DEF A, B, M
  <2> QED
    BY DEF Booked, Amounts, Tables
<1> HIDE DEF mid, cut, t, a, b, ab, mo, m, out
<1>9. A \in Nat /\ B \in Nat /\ SumFunction(ab) = A + B
  <2>1. A \in Nat /\ B \in Nat
    BY <1>2, <1>3, SumNat
  <2>2. SumFunction(ab) = A + B
    BY <1>2, <1>3, <1>4, SumAdd
  <2> QED
    BY <2>1, <2>2
<1>10. SumFunction(m) = M /\ M \in Int
  <2>1. IsFiniteSet(out)
    BY <1>2, FS_Subset
  <2>2. M \in Int
    BY <1>3, <2>1, SumType
  <2>3. SumFunction(m) = SumFunction(mo)
    <3>1. out \in SUBSET who /\ m \in [who -> Int] /\ mo \in [out -> Int]
      BY <1>2, <1>3
    <3>2. \A p \in out : m[p] = mo[p]
      BY <1>2, <1>4
    <3>3. \A p \in who \ out : m[p] = 0
      BY <1>4
    <3> HIDE DEF who
    <3> QED
      BY <1>2, <3>1, <3>2, <3>3, SumPart
  <2> QED
    BY <2>2, <2>3
<1>11. /\ Purses(mid.providers)
       /\ \A p \in Providers : mid.providers[p].stake = IF p \in who THEN st.providers[p].stake - a[p] - m[p]
                                                                     ELSE st.providers[p].stake
       /\ \A p \in Providers : mid.providers[p].unbondAmount = IF p \in who THEN st.providers[p].unbondAmount - b[p] + m[p]
                                                                           ELSE st.providers[p].unbondAmount
       /\ \A p \in Providers : mid.providers[p].rewards = st.providers[p].rewards
  <2>1. \A p \in who : /\ Purse(slash[p].rec)
                       /\ slash[p].rec.stake = st.providers[p].stake - a[p] - m[p]
                       /\ slash[p].rec.unbondAmount = st.providers[p].unbondAmount - b[p] + m[p]
                       /\ slash[p].rec.rewards = st.providers[p].rewards
    <3> SUFFICES ASSUME NEW p \in who
                 PROVE  /\ Purse(slash[p].rec)
                        /\ slash[p].rec.stake = st.providers[p].stake - a[p] - m[p]
                        /\ slash[p].rec.unbondAmount = st.providers[p].unbondAmount - b[p] + m[p]
                        /\ slash[p].rec.rewards = st.providers[p].rewards
      OBVIOUS
    <3>1. Struck(slash[p], st.providers[p]) /\ Purse(st.providers[p])
      BY <1>2, <1>6
    <3>2. a[p] = slash[p].fromStake /\ b[p] = slash[p].fromUnbond
          /\ m[p] = IF slash[p].ejected THEN st.providers[p].stake - a[p] ELSE 0
      BY <1>4
    <3> HIDE DEF who
    <3> QED
      BY <3>1, <3>2 DEF Struck, Purse
  <2> QED
    BY <1>2, <1>6, <1>7, <2>1 DEF Purses
<1>12. /\ DOMAIN mid.held = Categories
       /\ mid.held.stakes = st.held.stakes - SumFunction(a) - SumFunction(m)
       /\ mid.held.unbonding = st.held.unbonding - SumFunction(b) + SumFunction(m)
       /\ mid.held.rewards = st.held.rewards /\ mid.held.credits = st.held.credits /\ mid.held.pools = st.held.pools
       /\ mid.held.bonds = st.held.bonds /\ mid.held.feesPending = st.held.feesPending
       /\ mid.held.deposits = st.held.deposits
  <2>1. A = SumFunction(a) /\ B = SumFunction(b) /\ M = SumFunction(m)
    BY <1>10
  <2> HIDE DEF A, B, M
  <2> QED
    BY <1>7, <1>9, <1>10, <2>1 DEF Booked, Amounts, HeldAmounts, Categories, NothingHeld
<1>13. Moves(mid, st, -(SumFunction(a) + SumFunction(b)), 0)
  <2>1. CutAndMoved(st.providers, mid.providers, who, a, b, m)
    BY <1>11 DEF CutAndMoved
  <2> QED
    BY <1>2, <1>3, <1>7, <1>11, <1>12, <2>1, RecordsMovedMoves
<1>14. Moves(mid, st, -(A + B), 0)
  BY <1>13
<1> HIDE DEF A, B, M
<1> DEFINE mid2 == [mid EXCEPT !.held.bonds = @ - (-(A + B))]
<1>15. Moves(mid2, mid, -(-(A + B)), -(A + B))
  <2>1. Booked(mid)
    BY <1>14 DEF Moves
  <2>2. -(A + B) \in Int
    BY <1>9
  <2> QED
    BY <2>1, <2>2, BondsTakenMoves
<1>16. Moves(mid2, st, -(A + B) + -(-(A + B)), 0 + -(A + B))
  <2> DEFINE x == -(A + B)
             y == -(-(A + B))
  <2>1. x \in Int /\ y \in Int /\ 0 \in Int
    BY <1>9
  <2>2. Moves(mid, st, x, 0) /\ Moves(mid2, mid, y, x)
    BY <1>14, <1>15
  <2> HIDE DEF mid2, x, y, t, a, b, ab, mo, m, out
  <2>3. Moves(mid2, st, x + y, 0 + x)
    BY <2>1, <2>2, MovesAdd
  <2> QED
    BY <2>3 DEF x, y
<1>17. /\ mid2.held = [mid.held EXCEPT !.bonds = @ - (-(A + B))] /\ mid2.feed = mid.feed
       /\ mid2.providers = mid.providers /\ mid2.disputes = mid.disputes /\ mid2.credits = mid.credits
       /\ mid2.balance = mid.balance
  BY <1>7 DEF Tables
<1> HIDE DEF mid2
<1>18. cut.held = mid2.held
  <2>1. DOMAIN st.held = Categories /\ st.held.bonds \in Int
    BY DEF Booked, Amounts, HeldAmounts
  <2>2. cut.held = [st.held EXCEPT !.stakes = @ - A - M, !.unbonding = @ - B + M, !.bonds = @ + A + B]
    BY <1>8
  <2>3. mid2.held = [[st.held EXCEPT !.stakes = @ - A - M, !.unbonding = @ - B + M] EXCEPT !.bonds = @ - (-(A + B))]
    BY <1>7, <1>17
  <2>4. st.held.bonds - (-(A + B)) = st.held.bonds + A + B
    BY <1>9, <2>1
  <2> DEFINE both == [st.held EXCEPT !.stakes = @ - A - M, !.unbonding = @ - B + M]
  <2>5. cut.held = [both EXCEPT !.bonds = st.held.bonds + A + B]
    BY <2>2
  <2>6. both.bonds = st.held.bonds
    BY <2>1 DEF Categories, NothingHeld
  <2> HIDE DEF both
  <2>7. mid2.held = [both EXCEPT !.bonds = both.bonds - (-(A + B))]
    BY <2>3 DEF both
  <2>8. both.bonds - (-(A + B)) = st.held.bonds + A + B
    BY <2>4, <2>6
  <2> QED
    BY <2>5, <2>7, <2>8
<1>19. Moves(cut, mid2, 0, 0)
  <2>1. Booked(mid2)
    BY <1>16 DEF Moves
  <2>2. /\ cut.feed = mid2.feed /\ cut.providers = mid2.providers /\ cut.credits = mid2.credits
        /\ cut.balance = mid2.balance /\ cut.disputes = mid2.disputes
    BY <1>7, <1>8, <1>17
  <2> QED
    BY <1>8, <1>18, <2>1, <2>2, SameMoney DEF Booked, Amounts, FeedAmounts
<1>20. Moves(t, cut, 0, 0)
  BY <1>19, FeedClearSlotsMoves DEF t, Moves
<1>21. Moves(cut, st, (-(A + B) + -(-(A + B))) + 0, (0 + -(A + B)) + 0)
  BY <1>9, <1>16, <1>19, MovesAdd
<1>22. Moves(t, st, ((-(A + B) + -(-(A + B))) + 0) + 0, ((0 + -(A + B)) + 0) + 0)
  BY <1>9, <1>20, <1>21, MovesAdd
<1>23. Moves(t, st, 0, -(A + B))
  BY <1>9, <1>22
<1> QED
  BY <1>1, <1>5, <1>9, <1>23

LEMMA CarryOutPays ==
  ASSUME NEW st, NEW slash, Booked(st), DOMAIN slash \subseteq Providers,
         \A p \in DOMAIN slash : Struck(slash[p], st.providers[p])
  PROVE  TakenBy(slash) \in Nat /\ Pays(CarryOut(st, slash), st, -TakenBy(slash))
<1> DEFINE t == CarryOut(st, slash)
           taken == TakenBy(slash)
<1>1. taken \in Nat /\ Moves(t, st, 0, -taken)
  BY CarryOutMoves
<1>2. DOMAIN st = Tables /\ st.held.bonds \in Int
  BY SpareIsInt DEF Booked, Amounts
<1>3. t.ok => st.ok
  <2> DEFINE
        out == { p \in DOMAIN slash : slash[p].ejected }
        seated == { p \in out : st.providers[p].status = "active" }
        cleared == { s \in Slots : st.slots[s] \in seated /\ st.providers[st.slots[s]].slot = s }
        fromStake == SumFunction([p \in DOMAIN slash |-> slash[p].fromStake])
        fromUnbond == SumFunction([p \in DOMAIN slash |-> slash[p].fromUnbond])
        moved == SumFunction([p \in out |-> st.providers[p].stake - slash[p].fromStake])
        cut == [st EXCEPT !.providers = [p \in Providers |-> IF p \in DOMAIN slash THEN slash[p].rec ELSE st.providers[p]],
                          !.held.stakes = @ - fromStake - moved,
                          !.held.unbonding = @ - fromUnbond + moved,
                          !.held.bonds = @ + fromStake + fromUnbond]
  <2>1. t = FeedClearSlots(cut, cleared, ObligedFrom(st.feed))
    BY DEF CarryOut
  <2> HIDE DEF fromStake, fromUnbond, moved, cleared, t
  <2>2. DOMAIN cut = Tables /\ cut.ok = st.ok
    BY <1>2 DEF Tables
  <2> HIDE DEF cut
  <2> QED
    BY <2>1, <2>2 DEF FeedClearSlots, Require, Tables
<1> HIDE DEF t, taken
<1>4. NoDebt(st) => NoDebt(t)
  BY ONLY <1>1, <1>2, <1>3 DEF NoDebt, Moves
<1> QED
  BY <1>1, <1>4 DEF Pays, t, taken

LEMMA RouteTakenPays ==
  ASSUME NEW st, NEW taken \in Nat, Booked(st)
  PROVE  Pays(RouteTaken(st, taken), st, taken + Overdraw(taken))
<1> DEFINE toDisputer == MulBps(taken, Param.forfeitSplitWinnerBps)
           toVoters == MulBps(taken, Param.forfeitSplitVotersBps)
           rest == Rest(taken, toDisputer, toVoters)
           a == BondRelease(st, toDisputer)
           b == FundVoters(a, toVoters)
           c == BondToFees(b, rest)
<1>1. Divided(taken, toDisputer, toVoters)
  BY ForfeitDivided
<1>2. RouteTaken(st, taken) = c
  BY <1>1 DEF RouteTaken, Divided
<1> HIDE DEF toDisputer, toVoters
<1>3. toDisputer \in Nat /\ toVoters \in Nat /\ rest \in Nat /\ toDisputer + toVoters + rest = taken + Overdraw(taken)
  BY <1>1 DEF Divided
<1> HIDE DEF rest
<1>4. Pays(a, st, toDisputer) /\ Booked(a)
  BY <1>3, BondReleasePays DEF Pays, Moves
<1> HIDE DEF a
<1>5. Pays(b, a, toVoters) /\ Booked(b)
  BY <1>3, <1>4, FundVotersPays DEF Pays, Moves
<1> HIDE DEF b
<1>6. Pays(c, b, rest)
  BY <1>3, <1>5, BondToFeesPays
<1> HIDE DEF c
<1>7. Pays(b, st, toDisputer + toVoters)
  BY <1>3, <1>4, <1>5, PaysAdd
<1>8. Pays(c, st, (toDisputer + toVoters) + rest)
  BY <1>3, <1>6, <1>7, PaysAdd
<1> QED
  BY <1>2, <1>3, <1>8

\* The ruling itself leaves the bonds alone.
LEMMA RulingsPay ==
  ASSUME NEW st, Booked(st)
  PROVE  /\ \A id, tier : Pays(RoundRestartWindow(st, id, tier), st, 0)
         /\ \A id, v : Pays(RoundOverturn(st, id, v), st, 0)
         /\ \A id : Pays(RoundVoid(st, id), st, 0)
<1>1. DOMAIN st = Tables
  BY DEF Booked, Amounts
<1>2. \A id, tier : RoundRestartWindow(st, id, tier).ok = st.ok
  BY <1>1 DEF RoundRestartWindow, PutRound, Tables
<1>3. \A id, v : RoundOverturn(st, id, v).ok = st.ok
  BY <1>1 DEF RoundOverturn, PutRound, Tables
<1>4. \A id : RoundVoid(st, id).ok = st.ok
  BY <1>1 DEF RoundVoid, PutRound, Tables
<1> QED
  BY <1>2, <1>3, <1>4, RoundRestartWindowMoves, RoundOverturnMoves, RoundVoidMoves, QuietPays

LEMMA UpholdPays ==
  ASSUME NEW st, NEW d, Booked(st), Bonds(d)
  PROVE  Pays(Uphold(st, d), st, d.bond + Overdraw(d.bond))
<1> DEFINE bond == d.bond
           toProviders == MulBps(bond, Param.forfeitSplitWinnerBps)
           toVoters == MulBps(bond, Param.forfeitSplitVotersBps)
           rest == Rest(bond, toProviders, toVoters)
           a == BondToPool(st, toProviders)
           b == FundVoters(a, toVoters)
           c == BondToFees(b, rest)
           e == RoundRestartWindow(c, d.round, d.priorTier)
<1>1. bond \in Nat /\ Divided(bond, toProviders, toVoters)
  BY ForfeitDivided DEF Bonds
<1>2. Uphold(st, d) = e
  BY <1>1 DEF Uphold, Divided
<1> HIDE DEF toProviders, toVoters
<1>3. toProviders \in Nat /\ toVoters \in Nat /\ rest \in Nat /\ toProviders + toVoters + rest = bond + Overdraw(bond)
  BY <1>1 DEF Divided
<1> HIDE DEF rest
<1>4. Pays(a, st, toProviders) /\ Booked(a)
  BY <1>3, BondToPoolPays DEF Pays, Moves
<1> HIDE DEF a
<1>5. Pays(b, a, toVoters) /\ Booked(b)
  BY <1>3, <1>4, FundVotersPays DEF Pays, Moves
<1> HIDE DEF b
<1>6. Pays(c, b, rest) /\ Booked(c)
  BY <1>3, <1>5, BondToFeesPays DEF Pays, Moves
<1> HIDE DEF c
<1>7. Pays(e, c, 0)
  BY <1>6, RulingsPay
<1> HIDE DEF e
<1>8. Pays(b, st, toProviders + toVoters)
  BY <1>3, <1>4, <1>5, PaysAdd
<1>9. Pays(c, st, (toProviders + toVoters) + rest)
  BY <1>3, <1>6, <1>8, PaysAdd
<1>10. Pays(e, st, ((toProviders + toVoters) + rest) + 0)
  BY <1>3, <1>7, <1>9, PaysAdd
<1> QED
  BY <1>2, <1>3, <1>10

LEMMA OverturnPays ==
  ASSUME NEW st, NEW d, NEW tier, Booked(st), Bonds(d), HeldByProviders(st, d.round)
  PROVE  LET taken == TakenBy(Slashes(st, Refuted(st, d), tier)) IN
         taken \in Nat /\ Pays(Overturn(st, d, tier), st, d.bond + Overdraw(taken))
<1> DEFINE who == Refuted(st, d)
           slash == Slashes(st, who, tier)
           taken == TakenBy(slash)
           over == Overdraw(taken)
           a == CarryOut(st, slash)
           b == RouteTaken(a, taken)
           c == BondRelease(b, d.bond)
           e == RoundOverturn(c, d.round, d.proposedValue)
<1>1. Overturn(st, d, tier) = e
  BY DEF Overturn, OverturnWith
<1>2. who \subseteq Providers
  BY DEF Refuted, HeldByProviders
<1>3. taken = TakenBy(Slashes(st, Refuted(st, d), tier))
  OBVIOUS
<1> HIDE DEF who
<1>4. DOMAIN slash \subseteq Providers /\ \A p \in DOMAIN slash : Struck(slash[p], st.providers[p])
  BY <1>2, SlashProviderStrikes DEF Slashes, Booked, Amounts
<1> HIDE DEF slash
<1>5. taken \in Nat /\ Pays(a, st, -taken) /\ Booked(a)
  BY <1>4, CarryOutPays DEF Pays, Moves
<1> HIDE DEF a, taken
<1>6. over \in Nat /\ Pays(b, a, taken + over) /\ Booked(b)
  BY <1>5, ForfeitDivided, RouteTakenPays DEF Pays, Moves, Divided
<1> HIDE DEF b, over
<1>7. Pays(c, b, d.bond) /\ Booked(c) /\ d.bond \in Nat
  BY <1>6, BondReleasePays DEF Pays, Moves, Bonds
<1> HIDE DEF c
<1>8. Pays(e, c, 0)
  BY <1>7, RulingsPay
<1> HIDE DEF e
<1>9. Pays(b, st, -taken + (taken + over))
  <2>1. -taken \in Int /\ taken + over \in Int
    BY <1>5, <1>6
  <2> QED
    BY <1>5, <1>6, <2>1, PaysAdd
<1>10. -taken + (taken + over) = over
  BY <1>5, <1>6
<1>11. Pays(c, st, over + d.bond)
  BY <1>6, <1>7, <1>9, <1>10, PaysAdd
<1>12. Pays(e, st, (over + d.bond) + 0)
  BY <1>6, <1>7, <1>8, <1>11, PaysAdd
<1>13. (over + d.bond) + 0 = d.bond + over
  BY <1>6, <1>7
<1> QED
  BY <1>3, <1>1, <1>5, <1>12, <1>13 DEF over

LEMMA VoidPays ==
  ASSUME NEW st, NEW d, Booked(st), Bonds(d)
  PROVE  Pays(Void(st, d), st, d.bond)
<1> DEFINE a == ConsumeBond(st, d.bond, Param.voidConsumeBps)
<1>1. Pays(a, st, d.bond) /\ Booked(a) /\ d.bond \in Nat
  <2>1. d.bond \in Nat /\ Param.voidConsumeBps \in 0 .. Bps
    BY AmountsAssumption DEF Bonds
  <2>2. Pays(a, st, d.bond)
    BY <2>1, ConsumeBondPays
  <2> QED
    BY <2>1, <2>2 DEF Pays, Moves
<1> HIDE DEF a
<1>2. Pays(RoundVoid(a, d.round), a, 0)
  BY <1>1, RulingsPay
<1>3. Pays(RoundVoid(a, d.round), st, d.bond + 0)
  BY <1>1, <1>2, PaysAdd
<1> QED
  BY <1>1, <1>3 DEF Void, a

\* A decision takes the bond, and more only if the shares of a forfeit are more than the whole.
LEMMA DecidePays ==
  ASSUME NEW st, NEW d, NEW outcome \in {"UPHOLD", "OVERTURN", "VOID"}, NEW tier, Booked(st), Bonds(d),
         HeldByProviders(st, d.round)
  PROVE  \E over \in Nat : Pays(Decide(st, d, outcome, tier), st, d.bond + over) /\ (SharesFit => over = 0)
<1>1. CASE outcome = "UPHOLD"
  <2>1. Overdraw(d.bond) \in Nat /\ (SharesFit => Overdraw(d.bond) = 0)
    BY ForfeitDivided DEF Divided, Bonds
  <2>2. Pays(Decide(st, d, outcome, tier), st, d.bond + Overdraw(d.bond))
    BY <1>1, UpholdPays DEF Decide
  <2> QED
    BY <2>1, <2>2
<1>2. CASE outcome = "OVERTURN"
  <2> DEFINE taken == TakenBy(Slashes(st, Refuted(st, d), tier))
  <2>1. taken \in Nat /\ Pays(Overturn(st, d, tier), st, d.bond + Overdraw(taken))
    BY OverturnPays
  <2> HIDE DEF taken
  <2>2. Overdraw(taken) \in Nat /\ (SharesFit => Overdraw(taken) = 0)
    BY <2>1, ForfeitDivided DEF Divided
  <2>3. Pays(Decide(st, d, outcome, tier), st, d.bond + Overdraw(taken))
    BY <1>2, <2>1 DEF Decide
  <2> QED
    BY <2>2, <2>3
<1>3. CASE outcome = "VOID"
  <2>1. Pays(Decide(st, d, outcome, tier), st, d.bond + 0)
    BY <1>3, VoidPays DEF Decide, Bonds
  <2> QED
    BY <2>1
<1> QED
  BY <1>1, <1>2, <1>3


-----------------------------------------------------------------------------
(* Bonds.  The bonds held are those of the disputes that still run, or what shares of forfeits *)
(* that do not fit have left of them.                                                          *)

\* What of the bonds a dispute has.
Pending(d) == IF d.status = "resolved" THEN 0 ELSE d.bond + d.appealBond

\* There is an appeal bond only after an appeal.
DisputeAmounts(d) ==
  /\ DOMAIN d = DisputeFields
  /\ d.status \in DisputeStatuses
  /\ d.bond \in Nat /\ d.appealBond \in Nat
  /\ d.status \in {"open", "decided"} => d.appealBond = 0

Pledges(ds) == IsSequence(ds) /\ \A n \in DOMAIN ds : DisputeAmounts(ds[n])

BondsOf(ds) == SumFunction([n \in DOMAIN ds |-> Pending(ds[n])])

\* The books agree with the records.
Balanced(st) ==
  /\ Booked(st)
  /\ Pledges(st.disputes)
  /\ 0 <= st.held.bonds /\ st.held.bonds <= BondsOf(st.disputes)
  /\ SharesFit => st.held.bonds = BondsOf(st.disputes)

\* From st to t the books stay balanced, and x coins of what was beyond them were booked or left.
Balances(t, st, x) == Balanced(t) /\ Spare(t) = Spare(st) - x

LEMMA PendingNat ==
  ASSUME NEW ds, Pledges(ds)
  PROVE  /\ [n \in DOMAIN ds |-> Pending(ds[n])] \in [DOMAIN ds -> Int]
         /\ \A n \in DOMAIN ds : Pending(ds[n]) \in Nat
         /\ BondsOf(ds) \in Int
<1>1. \A n \in DOMAIN ds : Pending(ds[n]) \in Nat
  BY DEF Pledges, DisputeAmounts, Pending
<1>2. IsFiniteSet(DOMAIN ds)
  BY SequenceDomain DEF Pledges
<1> QED
  BY <1>1, <1>2, SumType DEF BondsOf

LEMMA BondsAppended ==
  ASSUME NEW ds, NEW e, Pledges(ds), DisputeAmounts(e)
  PROVE  Pledges(Append(ds, e)) /\ BondsOf(Append(ds, e)) = BondsOf(ds) + Pending(e)
<1> DEFINE t == Append(ds, e)
           k == Len(ds) + 1
           before == [n \in DOMAIN ds |-> Pending(ds[n])]
           padded == [n \in DOMAIN t |-> IF n \in DOMAIN ds THEN Pending(ds[n]) ELSE 0]
           after == [n \in DOMAIN t |-> Pending(t[n])]
<1>1. /\ IsSequence(t)
      /\ DOMAIN t = DOMAIN ds \cup {k} /\ k \notin DOMAIN ds
      /\ t[k] = e
      /\ \A i \in DOMAIN ds : t[i] = ds[i]
  BY Appended DEF Pledges
<1>2. Pledges(t)
  BY <1>1 DEF Pledges
<1> HIDE DEF t, k
<1>3. /\ IsFiniteSet(DOMAIN t)
      /\ before \in [DOMAIN ds -> Int] /\ after \in [DOMAIN t -> Int]
      /\ padded \in [DOMAIN t -> Int]
  <2>1. IsFiniteSet(DOMAIN t)
    BY <1>1, SequenceDomain
  <2>2. \A n \in DOMAIN ds : Pending(ds[n]) \in Int
    BY PendingNat
  <2>3. \A n \in DOMAIN t : Pending(t[n]) \in Int
    BY <1>2, PendingNat
  <2> QED
    BY <2>1, <2>2, <2>3
<1>4. SumFunction(padded) = SumFunction(before)
  <2>1. \A n \in DOMAIN t : padded[n] = IF n \in DOMAIN ds THEN before[n] ELSE 0
    OBVIOUS
  <2>2. DOMAIN padded = DOMAIN t /\ DOMAIN ds \in SUBSET DOMAIN t
    BY <1>1
  <2> HIDE DEF padded, before
  <2> QED
    BY <1>3, <2>1, <2>2, SumPart
<1>5. SumFunction(after) = SumFunction(padded) - padded[k] + after[k]
  <2>1. \A n \in DOMAIN t \ {k} : after[n] = padded[n]
    BY <1>1
  <2>2. k \in DOMAIN t
    BY <1>1
  <2> HIDE DEF padded, after
  <2> QED
    BY <1>3, <2>1, <2>2, SumChange
<1>6. padded[k] = 0 /\ after[k] = Pending(e)
  BY <1>1
<1>7. SumFunction(before) \in Int /\ Pending(e) \in Int
  BY PendingNat DEF BondsOf, DisputeAmounts, Pending
<1> HIDE DEF padded, after, before
<1>8. SumFunction(after) = SumFunction(before) + Pending(e)
  BY <1>4, <1>5, <1>6, <1>7
<1> QED
  BY <1>2, <1>8 DEF BondsOf, t, after, before

LEMMA BondsAmended ==
  ASSUME NEW ds, NEW n \in DOMAIN ds, NEW e, Pledges(ds), DisputeAmounts(e)
  PROVE  LET t == [ds EXCEPT ![n] = e] IN
         Pledges(t) /\ BondsOf(t) = BondsOf(ds) - Pending(ds[n]) + Pending(e)
<1> DEFINE t == [ds EXCEPT ![n] = e]
           before == [i \in DOMAIN ds |-> Pending(ds[i])]
           after == [i \in DOMAIN t |-> Pending(t[i])]
<1>1. /\ IsSequence(t) /\ DOMAIN t = DOMAIN ds
      /\ t[n] = e
      /\ \A i \in DOMAIN ds \ {n} : t[i] = ds[i]
  BY Amended DEF Pledges
<1>2. Pledges(t)
  BY <1>1 DEF Pledges
<1> HIDE DEF t
<1>3. IsFiniteSet(DOMAIN ds) /\ before \in [DOMAIN ds -> Int] /\ after \in [DOMAIN ds -> Int]
  BY <1>1, <1>2, PendingNat, SequenceDomain DEF Pledges
<1>4. \A i \in DOMAIN ds \ {n} : after[i] = before[i]
  BY <1>1
<1>5. after[n] = Pending(e) /\ before[n] = Pending(ds[n])
  BY <1>1
<1> HIDE DEF before, after
<1>6. SumFunction(after) = SumFunction(before) - before[n] + after[n]
  BY <1>3, <1>4, SumChange
<1> QED
  BY <1>2, <1>5, <1>6 DEF BondsOf, t, before, after

LEMMA MovesBalances ==
  ASSUME NEW st, NEW t, NEW x \in Int, Balanced(st), Moves(t, st, x, 0)
  PROVE  Balances(t, st, x)
<1>1. t.held.bonds = st.held.bonds
  BY SpareIsInt DEF Moves, Balanced
<1> QED
  BY <1>1 DEF Balances, Balanced, Moves

LEMMA BalancesAdd ==
  ASSUME NEW st, NEW t, NEW u, NEW x \in Int, NEW y \in Int, Balanced(st), Balances(t, st, x), Balances(u, t, y)
  PROVE  Balances(u, st, x + y)
BY SpareIsInt DEF Balances, Balanced

\* Coins arrive and are booked, or are booked out and leave.
LEMMA MovesBack ==
  ASSUME NEW st, NEW t, NEW u, NEW x \in Int, NEW y \in Int, Booked(st), Moves(t, st, x, 0), Moves(u, t, y, 0), x + y = 0
  PROVE  Moves(u, st, 0, 0) /\ Booked(u)
BY SpareIsInt DEF Moves

\* A bond is booked with the dispute that has it.
LEMMA BondBooked ==
  ASSUME NEW st, NEW t, NEW bond \in Nat, Balanced(st),
         DOMAIN t = Tables, t.feed = st.feed, t.providers = st.providers, t.credits = st.credits,
         t.balance = st.balance, DOMAIN t.held = Categories,
         t.held.stakes = st.held.stakes, t.held.unbonding = st.held.unbonding, t.held.rewards = st.held.rewards,
         t.held.credits = st.held.credits, t.held.pools = st.held.pools, t.held.deposits = st.held.deposits,
         t.held.feesPending = st.held.feesPending, t.held.bonds = st.held.bonds + bond,
         Pledges(t.disputes), BondsOf(t.disputes) = BondsOf(st.disputes) + bond
  PROVE  Balances(t, st, bond)
<1>1. st.held.bonds \in Int
  BY SpareIsInt DEF Balanced
<1>2. Amounts(t)
  BY <1>1 DEF Balanced, Booked, Amounts, HeldAmounts
<1>3. Booked(t)
  BY <1>2 DEF Balanced, Booked
<1>4. Spare(t) = Spare(st) - bond
  BY <1>1 DEF Spare, HeldTotal, Balanced, Booked, Amounts, HeldAmounts
<1>5. /\ 0 <= t.held.bonds /\ t.held.bonds <= BondsOf(t.disputes)
      /\ SharesFit => t.held.bonds = BondsOf(t.disputes)
  <2>1. /\ 0 <= st.held.bonds /\ st.held.bonds <= BondsOf(st.disputes) /\ BondsOf(st.disputes) \in Int
        /\ SharesFit => st.held.bonds = BondsOf(st.disputes)
    BY PendingNat DEF Balanced
  <2>2. t.held.bonds = st.held.bonds + bond /\ BondsOf(t.disputes) = BondsOf(st.disputes) + bond
    OBVIOUS
  <2> QED
    BY ONLY <1>1, <2>1, <2>2, bond \in Nat
<1> QED
  BY <1>3, <1>4, <1>5 DEF Balances, Balanced


-----------------------------------------------------------------------------
(* Who held a slot. *)

LEMMA HoldersAreProviders ==
  ASSUME NEW st, NEW id \in Nat, \A e \in st.slotlog : Entry(e)
  PROVE  HeldByProviders(st, id)
<1> SUFFICES ASSUME NEW s
             PROVE  SlotHolderAt(st.slotlog, s, id) \in Providers \cup {NoOne}
  BY DEF HeldByProviders
<1>1. \A e \in Upto(st.slotlog, s, id) : e.holder \in Providers \cup {NoOne}
  BY DEF Entry, Upto
<1> QED
  BY <1>1, HolderIsLatest

LEMMA OnRecordHolders ==
  ASSUME NEW st, NEW id \in Nat, OnRecord(st)
  PROVE  HeldByProviders(st, id)
BY HoldersAreProviders DEF OnRecord, LogSound

\* A log with the same entries has the same holders.
LEMMA SameRecordHolders ==
  ASSUME NEW st, NEW t, NEW id \in Nat, OnRecord(st), SameRecord(t, st)
  PROVE  HeldByProviders(t, id)
BY RecordKept, OnRecordHolders

-----------------------------------------------------------------------------
(* What a dispute moves. *)

LEMMA NewDisputeBalances ==
  ASSUME NEW st, NEW id, NEW bond \in Nat, NEW proposed, NEW tier, Balanced(st)
  PROVE  Balances(NewDispute(st, id, bond, proposed, tier), st, bond)
<1> DEFINE t == NewDispute(st, id, bond, proposed, tier)
           d == [status |-> "open", round |-> id, bond |-> bond, proposedValue |-> proposed,
                 tierAsked |-> tier, ballotRound |-> 1, ballotEnds |-> now + BallotPeriod[1],
                 outcome |-> "", firstOutcome |-> "", tierDecided |-> "", decidedAt |-> 0,
                 appealBond |-> 0, priorTier |-> st.rounds[id].tier]
<1>1. DOMAIN st = Tables /\ HeldAmounts(st.held)
  BY DEF Balanced, Booked, Amounts
<1>2. /\ DOMAIN t = Tables /\ t.feed = st.feed /\ t.providers = st.providers /\ t.credits = st.credits
      /\ t.balance = st.balance /\ t.disputes = Append(st.disputes, d)
      /\ t.held = [st.held EXCEPT !.bonds = @ + bond]
  BY <1>1 DEF NewDispute, Inflow, Require, Tables
<1>3. DisputeAmounts(d) /\ Pending(d) = bond
  BY DEF DisputeAmounts, DisputeFields, DisputeStatuses, Pending
<1> HIDE DEF t, d
<1>4. Pledges(t.disputes) /\ BondsOf(t.disputes) = BondsOf(st.disputes) + bond
  BY <1>2, <1>3, BondsAppended DEF Balanced
<1>5. /\ DOMAIN t.held = Categories
      /\ t.held.stakes = st.held.stakes /\ t.held.unbonding = st.held.unbonding
      /\ t.held.rewards = st.held.rewards /\ t.held.credits = st.held.credits
      /\ t.held.pools = st.held.pools /\ t.held.deposits = st.held.deposits
      /\ t.held.feesPending = st.held.feesPending /\ t.held.bonds = st.held.bonds + bond
  BY <1>1, <1>2 DEF HeldAmounts, Categories, NothingHeld
<1>6. /\ t.feed = st.feed /\ t.providers = st.providers /\ t.credits = st.credits
      /\ t.balance = st.balance /\ DOMAIN t = Tables
  BY <1>2
<1>7. Balances(t, st, bond)
  BY <1>4, <1>5, <1>6, BondBooked
<1> QED
  BY <1>7 DEF t

\* A dispute that runs on, with what more it has of the bonds.
LEMMA AmendedBalances ==
  ASSUME NEW st, NEW t, NEW n \in DOMAIN st.disputes, NEW e, NEW bond \in Nat, Balanced(st),
         DisputeAmounts(e), Pending(e) = Pending(st.disputes[n]) + bond,
         DOMAIN t = Tables, t.feed = st.feed, t.providers = st.providers, t.credits = st.credits,
         t.balance = st.balance, t.disputes = [st.disputes EXCEPT ![n] = e],
         t.held = [st.held EXCEPT !.bonds = @ + bond]
  PROVE  Balances(t, st, bond)
<1>1. HeldAmounts(st.held) /\ Pledges(st.disputes)
  BY DEF Balanced, Booked, Amounts
<1>2. Pledges(t.disputes) /\ BondsOf(t.disputes) = BondsOf(st.disputes) - Pending(st.disputes[n]) + Pending(e)
  BY <1>1, BondsAmended
<1>3. BondsOf(t.disputes) = BondsOf(st.disputes) + bond
  <2>1. BondsOf(st.disputes) \in Int /\ Pending(st.disputes[n]) \in Int
    BY <1>1, PendingNat
  <2> QED
    BY <1>2, <2>1
<1>4. /\ DOMAIN t.held = Categories
      /\ t.held.stakes = st.held.stakes /\ t.held.unbonding = st.held.unbonding
      /\ t.held.rewards = st.held.rewards /\ t.held.credits = st.held.credits
      /\ t.held.pools = st.held.pools /\ t.held.deposits = st.held.deposits
      /\ t.held.feesPending = st.held.feesPending /\ t.held.bonds = st.held.bonds + bond
  BY <1>1 DEF HeldAmounts, Categories, NothingHeld
<1> QED
  BY <1>2, <1>3, <1>4, BondBooked

\* Its bonds are gone when a dispute is resolved, and what was drawn beyond them.
LEMMA ResolvedBalances ==
  ASSUME NEW st, NEW u, NEW n \in DOMAIN st.disputes, NEW outcome, NEW tier, NEW over \in Nat, Balanced(st),
         Moves(u, st, 0, Pending(st.disputes[n]) + over), u.held.bonds >= 0, SharesFit => over = 0
  PROVE  Balances(Resolved(u, n, outcome, tier), st, 0)
<1> DEFINE d == st.disputes[n]
           e == [d EXCEPT !.status = "resolved", !.outcome = outcome, !.tierDecided = tier]
           t == Resolved(u, n, outcome, tier)
<1>1. Pledges(st.disputes) /\ DisputeAmounts(d) /\ Pending(d) \in Nat /\ BondsOf(st.disputes) \in Int
  BY PendingNat DEF Balanced, Pledges
<1>2. Booked(u) /\ u.disputes = st.disputes /\ DOMAIN u = Tables /\ DOMAIN u.feed = FeedFields
  BY DEF Moves, Booked, Amounts, FeedAmounts
<1>3. /\ DOMAIN t = Tables /\ t.feed = [u.feed EXCEPT !.openDisputes = @ - 1]
      /\ t.providers = u.providers /\ t.credits = u.credits /\ t.held = u.held /\ t.balance = u.balance
  BY <1>2 DEF Resolved, Tables
<1>4. t.disputes = [st.disputes EXCEPT ![n] = e]
  BY <1>1, <1>2 DEF Resolved, Tables, DisputeAmounts, DisputeFields
<1>5. DisputeAmounts(e) /\ Pending(e) = 0
  BY <1>1 DEF DisputeAmounts, DisputeFields, DisputeStatuses, Pending
<1> HIDE DEF t, e
<1>6. Pledges(t.disputes) /\ BondsOf(t.disputes) = BondsOf(st.disputes) - Pending(d)
  <2>1. Pledges(t.disputes) /\ BondsOf(t.disputes) = BondsOf(st.disputes) - Pending(d) + Pending(e)
    BY <1>1, <1>4, <1>5, BondsAmended
  <2> QED
    BY <1>1, <1>5, <2>1
<1>7. /\ FeedAmounts(t.feed)
      /\ t.feed.deposit = u.feed.deposit /\ t.feed.prepaid = u.feed.prepaid /\ t.feed.pool = u.feed.pool
      /\ t.feed.penaltyCarry = u.feed.penaltyCarry
  BY <1>2, <1>3 DEF Booked, Amounts, FeedAmounts, FeedFields, NoFeed
<1>8. Amounts(t)
  BY <1>2, <1>3, <1>7 DEF Booked, Amounts
<1>9. Booked(t)
  BY <1>2, <1>3, <1>7, <1>8 DEF Booked
<1>10. /\ 0 <= t.held.bonds /\ t.held.bonds <= BondsOf(t.disputes)
       /\ SharesFit => t.held.bonds = BondsOf(t.disputes)
  <2>1. /\ u.held.bonds = st.held.bonds - (Pending(d) + over) /\ st.held.bonds <= BondsOf(st.disputes)
        /\ SharesFit => st.held.bonds = BondsOf(st.disputes)
        /\ st.held.bonds \in Int
    BY SpareIsInt DEF Moves, Balanced
  <2> DEFINE pending == Pending(d)
  <2>2. pending \in Nat /\ BondsOf(t.disputes) = BondsOf(st.disputes) - pending /\ t.held.bonds = u.held.bonds
    BY <1>1, <1>3, <1>6
  <2>3. u.held.bonds = st.held.bonds - (pending + over)
    BY <2>1
  <2> HIDE DEF pending
  <2> QED
    BY ONLY <1>1, <2>1, <2>2, <2>3, over \in Nat, u.held.bonds >= 0, SharesFit => over = 0
<1>11. Spare(t) = Spare(st) - 0
  <2>1. Spare(u) = Spare(st) - 0
    BY DEF Moves
  <2> QED
    BY <1>3, <2>1 DEF Spare
<1> QED
  BY <1>6, <1>9, <1>10, <1>11 DEF Balances, Balanced, t

LEMMA ApplyBalances ==
  ASSUME NEW st, NEW n \in Running(st), NEW outcome, NEW tier, Balanced(st), OnRecord(st),
         now \in Nat, Apply(st, n, outcome, tier).ok
  PROVE  Balances(Apply(st, n, outcome, tier), st, 0)
<1> DEFINE d == st.disputes[n]
           able == CanApply(st, d)
           asked == Require(st, able)
           settled == SettleAppealBond(asked, d, outcome)
           u == Decide(settled, d, outcome, tier)
<1>1. Apply(st, n, outcome, tier) = Resolved(u, n, outcome, tier)
  BY DEF Apply
<1>2. n \in DOMAIN st.disputes /\ d.status # "resolved"
  BY DEF Running
<1>3. Booked(st) /\ Bonds(d) /\ Pending(d) = d.bond + d.appealBond
  BY <1>2 DEF Balanced, Pledges, DisputeAmounts, Bonds, Pending
<1>4. d.round \in Nat
  BY DEF OnRecord, DisputesSound, RoundsSound
<1> HIDE DEF d, able
<1>5. Pays(asked, st, 0) /\ Booked(asked) /\ SameRecord(asked, st)
  <2>1. asked.ok => st.ok
    BY <1>3 DEF Require, Booked, Amounts, Tables
  <2>2. Moves(asked, st, 0, 0)
    BY <1>3, RequireMoves
  <2> QED
    BY <1>3, <2>1, <2>2, QuietPays, RequireLeaves, OnRecordFramed DEF Moves
<1> HIDE DEF asked
<1>6. Pays(settled, asked, d.appealBond) /\ Booked(settled)
  BY <1>3, <1>5, SettleAppealBondPays DEF Pays, Moves
<1>7. SameRecord(settled, st)
  BY <1>5, SettleAppealBondLeaves, RecordChained, FrameKept
<1> HIDE DEF settled
<1>8. HeldByProviders(settled, d.round)
  BY <1>4, <1>7, SameRecordHolders
<1>9. outcome \in {"UPHOLD", "OVERTURN", "VOID"}
  BY OnlyKnownOutcomes DEF d
<1>10. PICK over \in Nat : Pays(u, settled, d.bond + over) /\ (SharesFit => over = 0)
  BY <1>3, <1>6, <1>8, <1>9, DecidePays
<1>11. NoDebt(st)
  BY DEF NoDebt, Balanced
<1> HIDE DEF u
<1>12. d.bond \in Nat /\ d.appealBond \in Nat
  BY <1>3 DEF Bonds
<1>13. Pays(settled, st, 0 + d.appealBond)
  BY <1>3, <1>5, <1>6, <1>12, PaysAdd
<1>14. Pays(u, st, (0 + d.appealBond) + (d.bond + over))
  <2>1. 0 + d.appealBond \in Int /\ d.bond + over \in Int
    BY <1>12
  <2> QED
    BY <1>3, <1>10, <1>13, <2>1, PaysAdd
<1>15. Pays(u, st, Pending(d) + over)
  <2>1. (0 + d.appealBond) + (d.bond + over) = Pending(d) + over
    BY <1>3, <1>12
  <2> QED
    BY <1>14, <2>1
<1>16. u.held.bonds >= 0
  <2>1. DOMAIN u = Tables
    BY <1>15 DEF Pays, Moves, Booked, Amounts
  <2>2. Resolved(u, n, outcome, tier).ok = u.ok
    BY <2>1 DEF Resolved, Tables
  <2> QED
    BY <1>11, <1>1, <1>15, <2>2 DEF Pays, NoDebt
<1>17. Moves(u, st, 0, Pending(st.disputes[n]) + over)
  BY <1>15 DEF Pays, d
<1> QED
  BY <1>1, <1>2, <1>10, <1>16, <1>17, ResolvedBalances


-----------------------------------------------------------------------------
(* Feeds and the ends of providers. *)

LEMMA DripIsNat ==
  ASSUME NEW price \in Nat
  PROVE  DripFor(price) \in Nat
<1> DEFINE perRound == Param.subscriptionPeriod \div Spec0.interval
           share == MulBps(price, Param.feeSplitProvidersBps)
           n == IF perRound < 1 THEN 1 ELSE perRound
<1>1. Param.subscriptionPeriod \in Nat /\ Spec0.interval \in Nat /\ Spec0.interval # 0
  BY AmountsAssumption, TimesAssumption, ConstantsAssumption
<1>2. perRound \in Nat
  BY <1>1, PartsOfAmount
<1>3. share \in Nat
  BY ShareOfAmount, AmountsAssumption
<1> HIDE DEF perRound, share
<1>4. n \in Nat /\ n # 0
  BY <1>2
<1> HIDE DEF n
<1>5. share \div n \in Nat
  BY <1>3, <1>4, PartsOfAmount
<1> QED
  BY <1>5 DEF DripFor, n, perRound, share

LEMMA ActivateMoves ==
  ASSUME NEW st, Booked(st)
  PROVE  Moves(Activate(st), st, 0, 0)
<1> DEFINE startAt == IF Recurs THEN (now - (now % Spec0.interval)) + Spec0.interval ELSE Spec0.resolveAt
           drip == IF Recurs THEN DripFor(st.feed.subscriptionPrice) ELSE 0
           a == Require(st, Recurs \/ Spec0.resolveAt > now)
           b == FeedActivate(a, startAt, drip)
<1>1. Activate(st) = DepositRefund(b)
  BY DEF Activate
<1>2. drip \in Nat
  <2>1. st.feed.subscriptionPrice \in Nat
    BY DEF Booked, Amounts, FeedAmounts
  <2> QED
    BY <2>1, DripIsNat
<1> HIDE DEF startAt, drip
<1>3. Moves(a, st, 0, 0) /\ Booked(a)
  BY RequireMoves DEF Moves
<1> HIDE DEF a
<1>4. Moves(b, a, 0, 0)
  BY <1>2, <1>3, FeedActivateMoves
<1> HIDE DEF b
<1>5. Moves(b, st, 0, 0) /\ Booked(b)
  BY <1>3, <1>4, MovesNoneAdd
<1>6. Moves(DepositRefund(b), b, 0, 0)
  BY <1>5, DepositRefundMoves
<1> QED
  BY <1>1, <1>5, <1>6, MovesNoneAdd

LEMMA RepricedMoves ==
  ASSUME NEW st, NEW a \in Nat, NEW b \in Nat, NEW c \in Nat, NEW d, NEW e, NEW w, NEW drip \in Nat, Booked(st)
  PROVE  Moves([st EXCEPT
            !.feed.subscriberPrice = a, !.feed.subscriptionPrice = b, !.feed.providerMinStake = c,
            !.feed.toleranceBps = d, !.feed.quarantineBps = e, !.feed.disputeWindow = w,
            !.feed.drip = drip], st, 0, 0)
<1> DEFINE f == [st.feed EXCEPT !.subscriberPrice = a, !.subscriptionPrice = b, !.providerMinStake = c,
                                !.toleranceBps = d, !.quarantineBps = e, !.disputeWindow = w, !.drip = drip]
           t == [st EXCEPT
                   !.feed.subscriberPrice = a, !.feed.subscriptionPrice = b, !.feed.providerMinStake = c,
                   !.feed.toleranceBps = d, !.feed.quarantineBps = e, !.feed.disputeWindow = w,
                   !.feed.drip = drip]
<1>1. DOMAIN st = Tables /\ FeedAmounts(st.feed) /\ DOMAIN st.feed = FeedFields
  BY DEF Booked, Amounts, FeedAmounts
<1>2. /\ DOMAIN t = Tables /\ t.feed = f
      /\ t.providers = st.providers /\ t.credits = st.credits /\ t.held = st.held /\ t.balance = st.balance
      /\ t.disputes = st.disputes
  BY <1>1 DEF Tables
<1>3. /\ DOMAIN f = FeedFields
      /\ f.deposit = st.feed.deposit /\ f.prepaid = st.feed.prepaid /\ f.pool = st.feed.pool
      /\ f.penaltyCarry = st.feed.penaltyCarry /\ f.drip \in Nat
      /\ f.subscriberPrice \in Nat /\ f.subscriptionPrice \in Nat /\ f.providerMinStake \in Nat
      /\ f.disputesInRow \in Nat
  BY <1>1 DEF FeedAmounts, FeedFields, NoFeed
<1> HIDE DEF f, t
<1>4. Moves(t, st, 0, 0)
  BY <1>2, <1>3, SameMoney
<1> QED
  BY <1>4 DEF t

LEMMA ResubscribedMoves ==
  ASSUME NEW st, Booked(st)
  PROVE  Moves(Resubscribed(st), st, 0, 0)
BY FeedSetStatusMoves, MovesNothing DEF Resubscribed

LEMMA DropRoundsMoves ==
  ASSUME NEW st, NEW next, Booked(st)
  PROVE  Moves(DropRounds(st, next), st, 0, 0)
<1> DEFINE t == DropRounds(st, next)
<1>1. /\ DOMAIN t = Tables /\ DOMAIN t.feed = FeedFields
      /\ t.feed.deposit = st.feed.deposit /\ t.feed.prepaid = st.feed.prepaid /\ t.feed.pool = st.feed.pool
      /\ t.feed.penaltyCarry = st.feed.penaltyCarry /\ t.feed.drip \in Nat
      /\ t.feed.subscriberPrice \in Nat /\ t.feed.subscriptionPrice \in Nat /\ t.feed.providerMinStake \in Nat
      /\ t.feed.disputesInRow \in Nat
  BY DEF DropRounds, Booked, Amounts, FeedAmounts, FeedFields, NoFeed, Tables
<1>2. /\ t.providers = st.providers /\ t.credits = st.credits /\ t.held = st.held /\ t.balance = st.balance
      /\ t.disputes = st.disputes
  BY DEF DropRounds, Booked, Amounts, Tables
<1> HIDE DEF t
<1>3. Moves(t, st, 0, 0)
  BY <1>1, <1>2, SameMoney
<1> QED
  BY <1>3 DEF t

\* A jailed provider back in the active set has what it had.
LEMMA UnjailedPurse ==
  ASSUME NEW pr, NEW s, NEW from, Purse(pr), pr.status = "jailed"
  PROVE  LET u == Unjailed(pr, s, from) IN
         Purse(u) /\ u.stake = pr.stake /\ u.unbondAmount = pr.unbondAmount /\ u.rewards = pr.rewards
BY DEF Unjailed, Purse, ProviderFields, NoProvider

LEMMA UnjailedMoves ==
  ASSUME NEW st, NEW p \in Providers, NEW s, NEW from, Booked(st), st.providers[p].status = "jailed"
  PROVE  Moves([st EXCEPT !.providers[p] = Unjailed(@, s, from)], st, 0, 0)
<1> DEFINE u == Unjailed(st.providers[p], s, from)
           t == [st EXCEPT !.providers[p] = Unjailed(@, s, from)]
<1>1. DOMAIN st = Tables /\ DOMAIN st.providers = Providers /\ FeedAmounts(st.feed) /\ HeldAmounts(st.held)
  BY DEF Booked, Amounts
<1>2. /\ DOMAIN t = Tables /\ t.feed = st.feed /\ t.credits = st.credits /\ t.held = st.held
      /\ t.balance = st.balance /\ t.disputes = st.disputes
      /\ t.providers = [st.providers EXCEPT ![p] = u]
  BY <1>1 DEF Tables
<1>3. /\ Purse(u) /\ u.stake = st.providers[p].stake /\ u.unbondAmount = st.providers[p].unbondAmount
      /\ u.rewards = st.providers[p].rewards
  BY UnjailedPurse DEF Booked, Amounts
<1> HIDE DEF u, t
<1>4. /\ Purses(t.providers)
      /\ \A q \in Providers : /\ t.providers[q].stake = st.providers[q].stake
                              /\ t.providers[q].unbondAmount = st.providers[q].unbondAmount
                              /\ t.providers[q].rewards = st.providers[q].rewards
  BY <1>1, <1>2, <1>3 DEF Booked, Amounts, Purses
<1>5. FeedAmounts(t.feed) /\ t.feed = st.feed
  BY <1>1, <1>2
<1>6. Moves(t, st, 0, 0)
  BY <1>2, <1>4, <1>5, SamePursesMove
<1> QED
  BY <1>6 DEF t

LEMMA ReopenMoves ==
  ASSUME NEW st, NEW at, Booked(st)
  PROVE  Moves(FeedResetForReopen(st, at), st, 0, 0)
<1> DEFINE t == FeedResetForReopen(st, at)
           owing(pr) == IF pr.status = "none" THEN pr
                        ELSE [pr EXCEPT !.obligedFrom = IF pr.status = "active" THEN 0 ELSE 1]
           f == [st.feed EXCEPT !.startAt = at, !.reopened = TRUE, !.haveLast = FALSE, !.lastFinalized = 0,
                                !.haveValue = FALSE, !.lastTier = "", !.emptyStreak = 0]
<1>1. DOMAIN st = Tables /\ DOMAIN st.providers = Providers /\ FeedAmounts(st.feed)
  BY DEF Booked, Amounts
<1>2. /\ DOMAIN t = Tables /\ t.feed = f /\ t.credits = st.credits /\ t.held = st.held
      /\ t.balance = st.balance /\ t.disputes = st.disputes
      /\ t.providers = [p \in Providers |-> owing(st.providers[p])]
  <2> DEFINE rs == [id \in DOMAIN st.rounds \ {0} |-> st.rounds[id]]
             log == { LogEntry(s, 0, st.slots[s]) : s \in { x \in Slots : st.slots[x] # NoOne } }
             ps == [p \in Providers |-> owing(st.providers[p])]
  <2>1. t = [st EXCEPT !.feed = f, !.rounds = rs, !.slotlog = log, !.providers = ps]
    BY DEF FeedResetForReopen
  <2> HIDE DEF f, rs, log, ps, t
  <2>2. DOMAIN t = Tables /\ t.feed = f /\ t.providers = ps
    BY ONLY <1>1, <2>1 DEF Tables
  <2>3. t.credits = st.credits /\ t.held = st.held /\ t.balance = st.balance /\ t.disputes = st.disputes
    BY ONLY <1>1, <2>1 DEF Tables
  <2> QED
    BY ONLY <2>2, <2>3 DEF ps
<1>3. \A pr : Purse(pr) => /\ Purse(owing(pr)) /\ owing(pr).stake = pr.stake
                           /\ owing(pr).unbondAmount = pr.unbondAmount /\ owing(pr).rewards = pr.rewards
  BY DEF Purse, ProviderFields, NoProvider
<1>4. /\ FeedAmounts(f)
      /\ f.deposit = st.feed.deposit /\ f.prepaid = st.feed.prepaid /\ f.pool = st.feed.pool
      /\ f.penaltyCarry = st.feed.penaltyCarry
  BY <1>1 DEF FeedAmounts, FeedFields, NoFeed
<1> HIDE DEF t, f, owing
<1>5. /\ Purses(t.providers)
      /\ \A q \in Providers : /\ t.providers[q].stake = st.providers[q].stake
                              /\ t.providers[q].unbondAmount = st.providers[q].unbondAmount
                              /\ t.providers[q].rewards = st.providers[q].rewards
  BY <1>1, <1>2, <1>3 DEF Booked, Amounts, Purses
<1>6. Moves(t, st, 0, 0)
  BY <1>2, <1>4, <1>5, SamePursesMove
<1> QED
  BY <1>6 DEF t


\* The last records go when nobody has coins that are not ready.
LEMMA SettleProvidersMoves ==
  ASSUME NEW st, NEW ready \in SUBSET Providers, Booked(st),
         \A p \in Providers : st.providers[p].stake = 0 /\ (p \in ready \/ st.providers[p].unbondAmount = 0)
  PROVE  Moves(SettleProviders(st, ready), st, 0, 0)
<1> DEFINE rewards == SumFunction([p \in Providers |-> st.providers[p].rewards])
           owed == [p \in ready |-> st.providers[p].unbondAmount]
           paid == SumFunction(owed)
           ps == [p \in Providers |-> NoProvider]
           t == [st EXCEPT !.providers = ps,
                           !.held.rewards = @ - rewards, !.held.feesPending = @ + rewards,
                           !.held.unbonding = @ - paid]
<1>1. SettleProviders(st, ready) = Send(t, paid)
  BY DEF SettleProviders
<1>2. Purses(st.providers) /\ IsFiniteSet(Providers)
  BY ConstantsAssumption DEF Booked, Amounts, Purses
<1>3. rewards = RewardsOf(st.providers) /\ rewards \in Nat
  BY <1>2, PurseSums DEF RewardsOf
<1>4. paid = UnbondsOf(st.providers) /\ paid \in Nat
  <2> DEFINE all == [p \in Providers |-> st.providers[p].unbondAmount]
  <2>1. owed \in [ready -> Int] /\ DOMAIN all = Providers
    BY <1>2 DEF Purses, Purse
  <2>2. \A p \in Providers : all[p] = IF p \in ready THEN owed[p] ELSE 0
    OBVIOUS
  <2>3. UnbondsOf(st.providers) = SumFunction(all) /\ UnbondsOf(st.providers) \in Nat
    BY <1>2, PurseSums DEF UnbondsOf
  <2> HIDE DEF owed, all
  <2>4. SumFunction(all) = SumFunction(owed)
    BY <1>2, <2>1, <2>2, SumPart
  <2> QED
    BY <2>3, <2>4
<1>5. StakesOf(st.providers) = 0
  <2> DEFINE all == [p \in Providers |-> st.providers[p].stake]
  <2>1. DOMAIN all = Providers /\ \A p \in Providers : all[p] = 0
    OBVIOUS
  <2> HIDE DEF all
  <2>2. SumFunction(all) = 0
    BY <1>2, <2>1, SumOfNothing
  <2> QED
    BY <2>2 DEF StakesOf, all
<1>6. Purses(ps) /\ StakesOf(ps) = 0 /\ UnbondsOf(ps) = 0 /\ RewardsOf(ps) = 0
  <2>1. Purse(NoProvider) /\ NoProvider.stake = 0 /\ NoProvider.unbondAmount = 0 /\ NoProvider.rewards = 0
    BY DEF Purse, NoProvider, ProviderFields
  <2>2. Purses(ps)
    BY <2>1 DEF Purses
  <2> DEFINE z == [p \in Providers |-> 0]
  <2>3. StakesOf(ps) = SumFunction(z) /\ UnbondsOf(ps) = SumFunction(z) /\ RewardsOf(ps) = SumFunction(z)
    BY <2>1 DEF StakesOf, UnbondsOf, RewardsOf
  <2>4. DOMAIN z = Providers /\ \A p \in Providers : z[p] = 0
    OBVIOUS
  <2> HIDE DEF z, ps
  <2>5. SumFunction(z) = 0
    BY <1>2, <2>4, SumOfNothing
  <2> QED
    BY <2>2, <2>3, <2>5
<1> HIDE DEF rewards, owed, paid, ps
<1>7. /\ DOMAIN t = Tables
      /\ t.feed = st.feed /\ t.disputes = st.disputes /\ t.credits = st.credits /\ t.balance = st.balance
      /\ t.providers = ps
      /\ t.held = [st.held EXCEPT !.rewards = @ - rewards, !.feesPending = @ + rewards, !.unbonding = @ - paid]
  BY DEF Booked, Amounts, Tables
<1> HIDE DEF t
<1>8. HeldAmounts(st.held) /\ FeedAmounts(st.feed)
  BY DEF Booked, Amounts
<1>9. /\ DOMAIN t.held = Categories
      /\ t.held.stakes = st.held.stakes /\ t.held.unbonding = st.held.unbonding - paid
      /\ t.held.rewards = st.held.rewards - rewards /\ t.held.feesPending = st.held.feesPending + rewards
      /\ t.held.credits = st.held.credits /\ t.held.pools = st.held.pools /\ t.held.bonds = st.held.bonds
      /\ t.held.deposits = st.held.deposits
  BY <1>7, <1>8 DEF HeldAmounts, Categories, NothingHeld
<1>10. /\ st.held.stakes = 0 /\ st.held.unbonding = paid /\ st.held.rewards = rewards
       /\ st.held.credits = SumFunction(st.credits)
       /\ st.held.pools = st.feed.pool + st.feed.penaltyCarry
       /\ st.held.deposits = st.feed.deposit + st.feed.prepaid
  BY <1>3, <1>4, <1>5 DEF Booked
<1>11. Amounts(t)
  <2>1. HeldAmounts(t.held)
    BY <1>3, <1>4, <1>8, <1>9 DEF HeldAmounts
  <2>2. DOMAIN t.providers = Providers /\ \A p \in Providers : Purse(t.providers[p])
    BY <1>6, <1>7 DEF Purses
  <2> QED
    BY <1>7, <2>1, <2>2 DEF Booked, Amounts
<1>12. Booked(t)
  <2>1. t.held.unbonding = 0 /\ t.held.rewards = 0 /\ t.held.stakes = 0
    BY <1>3, <1>4, <1>9, <1>10
  <2> QED
    BY <1>6, <1>7, <1>9, <1>10, <1>11, <2>1 DEF Booked
<1>13. Moves(t, st, -paid, 0)
  <2>1. HeldTotal(t.held) = HeldTotal(st.held) - paid
    BY <1>3, <1>4, <1>8, <1>9 DEF HeldTotal, HeldAmounts
  <2>2. HeldTotal(st.held) \in Int /\ st.balance \in Int
    BY <1>8, HeldIsInt DEF Booked, Amounts
  <2>3. Spare(t) = Spare(st) - (-paid)
    BY <1>4, <1>7, <2>1, <2>2 DEF Spare
  <2>4. t.held.bonds = st.held.bonds - 0
    BY <1>8, <1>9 DEF HeldAmounts
  <2> QED
    BY <1>7, <1>12, <2>3, <2>4 DEF Moves
<1>14. Moves(Send(t, paid), t, paid, 0)
  BY <1>4, <1>12, SendMoves
<1>15. -paid \in Int /\ paid \in Int /\ -paid + paid = 0
  BY <1>4
<1> QED
  BY <1>1, <1>13, <1>14, <1>15, MovesBack

LEMMA PrunedMoves ==
  ASSUME NEW st, NEW most, Booked(st)
  PROVE  Moves(Pruned(st, most), st, 0, 0)
BY DropRoundsMoves DEF Pruned

\* A status and an empty log move nothing.
LEMMA GoneMoves ==
  ASSUME NEW st, Booked(st)
  PROVE  Moves([st EXCEPT !.feed.status = "pruned", !.slotlog = {}], st, 0, 0)
<1> DEFINE t == [st EXCEPT !.feed.status = "pruned", !.slotlog = {}]
           f == [st.feed EXCEPT !.status = "pruned"]
<1>1. DOMAIN st = Tables /\ FeedAmounts(st.feed)
  BY DEF Booked, Amounts
<1>2. /\ DOMAIN t = Tables /\ t.feed = f
      /\ t.providers = st.providers /\ t.credits = st.credits /\ t.held = st.held /\ t.balance = st.balance
      /\ t.disputes = st.disputes
  BY <1>1 DEF Tables
<1>3. /\ DOMAIN f = FeedFields
      /\ f.deposit = st.feed.deposit /\ f.prepaid = st.feed.prepaid /\ f.pool = st.feed.pool
      /\ f.penaltyCarry = st.feed.penaltyCarry /\ f.drip \in Nat
      /\ f.subscriberPrice \in Nat /\ f.subscriptionPrice \in Nat /\ f.providerMinStake \in Nat
      /\ f.disputesInRow \in Nat
  BY <1>1 DEF FeedAmounts, FeedFields, NoFeed
<1> HIDE DEF f, t
<1>4. Moves(t, st, 0, 0)
  BY <1>2, <1>3, SameMoney
<1> QED
  BY <1>4 DEF t

\* The fees leave for the DAO.
LEMMA FeesForwardedMoves ==
  ASSUME NEW st, Booked(st)
  PROVE  Moves(Send([st EXCEPT !.held.feesPending = 0], st.held.feesPending), st, 0, 0)
<1> DEFINE fees == st.held.feesPending
           t == [st EXCEPT !.held.feesPending = 0]
<1>1. DOMAIN st = Tables /\ HeldAmounts(st.held) /\ fees \in Nat /\ st.balance \in Int
  BY DEF Booked, Amounts, HeldAmounts
<1>2. /\ DOMAIN t = Tables /\ t.feed = st.feed /\ t.providers = st.providers /\ t.credits = st.credits
      /\ t.balance = st.balance /\ t.disputes = st.disputes /\ t.held = [st.held EXCEPT !.feesPending = 0]
  BY <1>1 DEF Tables
<1> HIDE DEF t, fees
<1>3. /\ HeldAmounts(t.held)
      /\ t.held.stakes = st.held.stakes /\ t.held.unbonding = st.held.unbonding
      /\ t.held.rewards = st.held.rewards /\ t.held.credits = st.held.credits /\ t.held.pools = st.held.pools
      /\ t.held.bonds = st.held.bonds /\ t.held.deposits = st.held.deposits /\ t.held.feesPending = 0
  BY <1>1, <1>2 DEF HeldAmounts, Categories, NothingHeld
<1>4. Booked(t)
  BY <1>2, <1>3 DEF Booked, Amounts
<1>5. Moves(t, st, -fees, 0)
  <2>1. HeldTotal(t.held) = HeldTotal(st.held) - fees
    BY <1>1, <1>3 DEF HeldTotal, HeldAmounts, fees
  <2>2. HeldTotal(st.held) \in Int
    BY <1>1, HeldIsInt
  <2>3. Spare(t) = Spare(st) - (-fees)
    BY <1>1, <1>2, <2>1, <2>2 DEF Spare
  <2>4. t.held.bonds = st.held.bonds - 0
    BY <1>1, <1>3 DEF HeldAmounts
  <2> QED
    BY <1>2, <1>4, <2>3, <2>4 DEF Moves
<1>6. Moves(Send(t, fees), t, fees, 0)
  BY <1>1, <1>4, SendMoves
<1>7. -fees \in Int /\ fees \in Int /\ -fees + fees = 0
  BY <1>1
<1>8. Moves(Send(t, fees), st, 0, 0)
  BY <1>5, <1>6, <1>7, MovesBack
<1> QED
  BY <1>8 DEF t, fees


-----------------------------------------------------------------------------
(* The actions. *)

Coining == Balanced(Store)

\* A step keeps the books balanced, and what the realm has beyond them.
Coined == Coining' /\ Surplus' = Surplus

LEMMA StoreBalanced ==
  ASSUME Coining
  PROVE  /\ Balanced(Store) /\ Booked(Store) /\ Surplus = Spare(Store) /\ Surplus \in Int /\ balance \in Int
         /\ Store.feed = feed /\ Store.providers = providers /\ Store.slots = slots /\ Store.slotlog = slotlog
         /\ Store.rounds = rounds /\ Store.disputes = disputes /\ Store.credits = credits /\ Store.held = held
<1>1. /\ Store.feed = feed /\ Store.providers = providers /\ Store.slots = slots /\ Store.slotlog = slotlog
      /\ Store.rounds = rounds /\ Store.disputes = disputes /\ Store.credits = credits /\ Store.held = held
      /\ Store.balance = balance
  BY DEF Store
<1>2. Balanced(Store) /\ Booked(Store)
  BY DEF Coining, Balanced
<1>3. Surplus = Spare(Store)
  BY <1>1 DEF Surplus, Spare
<1>4. Store.balance \in Int
  BY <1>2 DEF Booked, Amounts
<1> QED
  BY <1>1, <1>2, <1>3, <1>4, SpareIsInt

LEMMA CoinsCommitted ==
  ASSUME NEW st, NEW x \in Int, Coining, Balances(st, Store, x), Commit(st)
  PROVE  Coining' /\ Surplus' = Surplus - x
<1> DEFINE t == Store'
<1>1. /\ DOMAIN t = Tables
      /\ t.feed = st.feed /\ t.providers = st.providers /\ t.disputes = st.disputes /\ t.credits = st.credits
      /\ t.held = st.held /\ t.balance = st.balance
  BY DEF Store, Commit, Tables
<1>2. Surplus' = Spare(t)
  BY DEF Surplus, Spare, Store
<1> HIDE DEF t
<1>3. Balanced(st) /\ Spare(st) = Spare(Store) - x
  BY DEF Balances
<1>4. Amounts(t)
  BY <1>1, <1>3 DEF Balanced, Booked, Amounts
<1>5. Booked(t)
  BY <1>1, <1>3, <1>4 DEF Balanced, Booked
<1>6. Balanced(t) /\ Spare(t) = Spare(st)
  BY <1>1, <1>3, <1>5 DEF Balanced, Spare
<1> QED
  BY <1>2, <1>3, <1>6, StoreBalanced DEF Coining, t

LEMMA BalancedAndCommitted ==
  ASSUME NEW st, Coining, Balances(st, Store, 0), Commit(st)
  PROVE  Coined
<1>1. Coining' /\ Surplus' = Surplus - 0
  BY CoinsCommitted
<1> QED
  BY <1>1, StoreBalanced DEF Coined

LEMMA MovedAndCommitted ==
  ASSUME NEW st, Coining, Moves(st, Store, 0, 0), Commit(st)
  PROVE  Coined
<1>1. Balances(st, Store, 0)
  BY StoreBalanced, MovesBalances
<1> QED
  BY <1>1, BalancedAndCommitted

\* What is sent covers what was asked.
LEMMA PaymentCovers ==
  ASSUME NEW amount \in Nat, NEW sent \in Payments(amount)
  PROVE  sent \in Nat /\ amount <= sent
BY AmountsAssumption DEF Payments

LEMMA GivenIsNat ==
  ASSUME NEW amount \in Given
  PROVE  amount \in Nat
BY AmountsAssumption DEF Given

\* What arrives is booked in full.
LEMMA ReceivedAndBooked ==
  ASSUME NEW st, NEW sent \in Nat, NEW t, Booked(st), Moves(t, Receive(st, sent), sent, 0)
  PROVE  Moves(t, st, 0, 0) /\ Booked(t)
<1>1. Moves(Receive(st, sent), st, -sent, 0)
  BY ReceiveMoves
<1>2. -sent \in Int /\ sent \in Int /\ -sent + sent = 0
  OBVIOUS
<1> QED
  BY <1>1, <1>2, MovesBack

LEMMA ReceivedBooked ==
  ASSUME NEW st, NEW sent \in Nat, Booked(st)
  PROVE  /\ Booked(Receive(st, sent)) /\ Receive(st, sent).feed = st.feed
         /\ Receive(st, sent).providers = st.providers /\ Receive(st, sent).disputes = st.disputes
         /\ Receive(st, sent).rounds = st.rounds /\ Receive(st, sent).slotlog = st.slotlog
<1>1. Booked(Receive(st, sent))
  BY ReceiveMoves DEF Moves
<1>2. DOMAIN st = Tables
  BY DEF Booked, Amounts
<1> QED
  BY <1>1, <1>2 DEF Receive, Tables

\* A payment empties what it pays out, and nothing else of the record.
LEMMA UnbondPaid ==
  ASSUME NEW st, NEW p \in Providers, Booked(st)
  PROVE  LET t == ProviderPayUnbonded(st, p) IN
         t.providers[p].unbondAmount = 0 /\ t.providers[p].stake = st.providers[p].stake
<1> DEFINE amount == st.providers[p].unbondAmount
           t == [st EXCEPT !.providers[p].unbondAmount = 0, !.held.unbonding = @ - amount]
<1>1. DOMAIN st = Tables /\ DOMAIN st.providers = Providers /\ DOMAIN st.providers[p] = ProviderFields
  BY DEF Booked, Amounts, Purse
<1>2. DOMAIN t = Tables /\ t.providers = [st.providers EXCEPT ![p] = [@ EXCEPT !.unbondAmount = 0]]
  BY <1>1 DEF Tables
<1>3. t.providers[p].unbondAmount = 0 /\ t.providers[p].stake = st.providers[p].stake
  BY <1>1, <1>2 DEF ProviderFields, NoProvider
<1> HIDE DEF t, amount
<1>4. Send(t, amount).providers = t.providers
  BY <1>2 DEF Send, Require, Tables
<1> QED
  BY <1>3, <1>4 DEF ProviderPayUnbonded, t, amount

LEMMA RewardPaid ==
  ASSUME NEW st, NEW p \in Providers, Booked(st)
  PROVE  LET t == RewardPay(st, p) IN
         /\ t.providers[p].rewards = 0 /\ t.providers[p].stake = st.providers[p].stake
         /\ t.providers[p].unbondAmount = st.providers[p].unbondAmount
<1> DEFINE amount == st.providers[p].rewards
           t == [st EXCEPT !.providers[p].rewards = 0, !.held.rewards = @ - amount]
<1>1. DOMAIN st = Tables /\ DOMAIN st.providers = Providers /\ DOMAIN st.providers[p] = ProviderFields
  BY DEF Booked, Amounts, Purse
<1>2. DOMAIN t = Tables /\ t.providers = [st.providers EXCEPT ![p] = [@ EXCEPT !.rewards = 0]]
  BY <1>1 DEF Tables
<1>3. /\ t.providers[p].rewards = 0 /\ t.providers[p].stake = st.providers[p].stake
      /\ t.providers[p].unbondAmount = st.providers[p].unbondAmount
  BY <1>1, <1>2 DEF ProviderFields, NoProvider
<1> HIDE DEF t, amount
<1>4. Send(t, amount).providers = t.providers
  BY <1>2 DEF Send, Require, Tables
<1> QED
  BY <1>3, <1>4 DEF RewardPay, t, amount

LEMMA WithdrawnMoves ==
  ASSUME NEW st, NEW p \in Providers, Booked(st), st.providers[p].status = "unbonding"
  PROVE  Moves(ProviderDelete(RewardPay(ProviderPayUnbonded(st, p), p), p), st, 0, 0)
<1> DEFINE a == ProviderPayUnbonded(st, p)
           b == RewardPay(a, p)
<1>1. st.providers[p].stake = 0
  BY DEF Booked, Amounts, Purse
<1>2. Moves(a, st, 0, 0) /\ Booked(a) /\ a.providers[p].unbondAmount = 0 /\ a.providers[p].stake = 0
  BY <1>1, ProviderPayUnbondedMoves, UnbondPaid DEF Moves
<1> HIDE DEF a
<1>3. /\ Moves(b, a, 0, 0) /\ Booked(b)
      /\ b.providers[p].unbondAmount = 0 /\ b.providers[p].stake = 0 /\ b.providers[p].rewards = 0
  BY <1>2, RewardPayMoves, RewardPaid DEF Moves
<1> HIDE DEF b
<1>4. Moves(b, st, 0, 0)
  BY <1>2, <1>3, MovesNoneAdd
<1>5. Moves(ProviderDelete(b, p), b, 0, 0)
  BY <1>3, ProviderDeleteMoves
<1>6. Moves(ProviderDelete(b, p), st, 0, 0)
  BY <1>4, <1>5, MovesNoneAdd
<1> QED
  BY <1>6 DEF a, b


LEMMA ProviderOpsCoined ==
  ASSUME Coining, ProviderOps
  PROVE  Coined
<1>1. PICK p \in Providers :
        Register(p) \/ TopUp(p) \/ RequestUnbond(p) \/ ForceUnbond(p) \/ Withdraw(p) \/ Unjail(p) \/ ClaimRewards(p)
  BY DEF ProviderOps
<1>2. CASE Register(p)
  <2> DEFINE s == Min(FreeSlots(Store))
             from == ObligedFrom(feed)
  <2>1. PICK sent \in Payments(feed.providerMinStake) :
          Commit(FeedAssignSlot(NewProvider(Receive(Store, sent), p, sent, s, from), s, p, from))
    BY <1>2 DEF Register
  <2> HIDE DEF s, from
  <2>2. feed.providerMinStake \in Nat
    BY StoreBalanced DEF Booked, Amounts, FeedAmounts
  <2>3. sent \in Nat
    BY <2>2, PaymentCovers
  <2> DEFINE received == Receive(Store, sent)
             joined == NewProvider(received, p, sent, s, from)
  <2>4. Booked(received) /\ received.providers[p].status = "none"
    BY <1>2, <2>3, StoreBalanced, ReceivedBooked DEF Register
  <2>5. Moves(joined, received, sent, 0)
    BY <2>3, <2>4, NewProviderMoves
  <2>6. Moves(joined, Store, 0, 0) /\ Booked(joined)
    BY <2>3, <2>5, StoreBalanced, ReceivedAndBooked
  <2> HIDE DEF joined
  <2>7. Moves(FeedAssignSlot(joined, s, p, from), Store, 0, 0)
    BY <2>6, StoreBalanced, FeedAssignSlotMoves, MovesNoneAdd
  <2> QED
    BY <2>1, <2>7, MovedAndCommitted DEF joined
<1>3. CASE TopUp(p)
  <2> DEFINE received == Receive(Store, Overpay)
  <2>1. Overpay \in Nat /\ providers[p].status \in {"active", "jailed"}
    BY <1>3, AmountsAssumption DEF TopUp, Member
  <2>2. Booked(received) /\ received.providers[p].status \in {"active", "jailed"}
    BY <2>1, StoreBalanced, ReceivedBooked
  <2>3. Moves(ProviderAddStake(received, p, Overpay), received, Overpay, 0)
    BY <2>1, <2>2, ProviderAddStakeMoves
  <2>4. Moves(ProviderAddStake(received, p, Overpay), Store, 0, 0)
    BY <2>1, <2>3, StoreBalanced, ReceivedAndBooked
  <2> QED
    BY <1>3, <2>4, MovedAndCommitted DEF TopUp
<1>4. CASE RequestUnbond(p) \/ ForceUnbond(p)
  <2>1. Moves(Leave(Store, {p}), Store, 0, 0)
    BY StoreBalanced, LeaveMoves
  <2> QED
    BY <1>4, <2>1, MovedAndCommitted DEF RequestUnbond, ForceUnbond
<1>5. CASE Withdraw(p)
  <2>1. Moves(ProviderDelete(RewardPay(ProviderPayUnbonded(Store, p), p), p), Store, 0, 0)
    BY <1>5, StoreBalanced, WithdrawnMoves DEF Withdraw
  <2> QED
    BY <1>5, <2>1, MovedAndCommitted DEF Withdraw
<1>6. CASE Unjail(p)
  <2> DEFINE s == Min(FreeSlots(Store))
             from == ObligedFrom(feed)
             st == [Store EXCEPT !.providers[p] = Unjailed(@, s, from)]
  <2>1. Commit(FeedAssignSlot(st, s, p, from)) /\ providers[p].status = "jailed"
    BY <1>6 DEF Unjail
  <2> HIDE DEF s, from
  <2>2. Moves(st, Store, 0, 0) /\ Booked(st)
    BY <2>1, StoreBalanced, UnjailedMoves DEF Moves
  <2> HIDE DEF st
  <2>3. Moves(FeedAssignSlot(st, s, p, from), Store, 0, 0)
    BY <2>2, StoreBalanced, FeedAssignSlotMoves, MovesNoneAdd
  <2> QED
    BY <2>1, <2>3, MovedAndCommitted
<1>7. CASE ClaimRewards(p)
  <2>1. Moves(RewardPay(Store, p), Store, 0, 0)
    BY StoreBalanced, RewardPayMoves
  <2> QED
    BY <1>7, <2>1, MovedAndCommitted DEF ClaimRewards
<1> QED
  BY <1>1, <1>2, <1>3, <1>4, <1>5, <1>6, <1>7

\* A round of the store settled or written off moves coins within the books.
LEMMA RoundCoins ==
  ASSUME NEW id \in Nat, Coining, Recording
  PROVE  Moves(Finalise(Store, id), Store, 0, 0) /\ Moves(Skip(Store, id), Store, 0, 0)
<1>1. HeldByProviders(Store, id)
  BY StoreOnRecord, OnRecordHolders
<1> QED
  BY <1>1, StoreBalanced, FinaliseMoves, SkipMoves

LEMMA SubmitCoined ==
  ASSUME Coining, Recording, NEW p \in Providers, NEW id \in OpenedRounds, NEW v, Submit(p, id, v)
  PROVE  Coined
<1> DEFINE rd == GetRound(Store, id)
           s == providers[p].slot
           subs == [x \in DOMAIN rd.subs \cup {s} |-> IF x = s THEN v ELSE rd.subs[x]]
           answered == [rd EXCEPT !.subs = subs]
           submitted == PutRound(Store, id, answered)
<1>1. Commit(IF AllSubmitted(submitted, id) /\ IsNext(id) THEN Finalise(submitted, id) ELSE submitted)
  BY DEF Submit, Submitted, Answered, Completes
<1>2. id \in Nat
  BY DEF OpenedRounds
<1> HIDE DEF answered
<1>3. Moves(submitted, Store, 0, 0) /\ Booked(submitted)
  BY StoreBalanced, PutRoundMoves DEF Moves
<1>4. HeldByProviders(submitted, id)
  <2>1. HeldByProviders(Store, id)
    BY <1>2, StoreOnRecord, OnRecordHolders
  <2>2. submitted.slotlog = Store.slotlog
    BY DEF PutRound, Store
  <2> HIDE DEF submitted
  <2> QED
    BY <2>1, <2>2 DEF HeldByProviders
<1> HIDE DEF submitted
<1>5. Moves(Finalise(submitted, id), Store, 0, 0)
  BY <1>3, <1>4, StoreBalanced, FinaliseMoves, MovesNoneAdd
<1> QED
  BY <1>1, <1>3, <1>5, MovedAndCommitted

LEMMA RoundOpsCoined ==
  ASSUME Coining, Recording, RoundOps
  PROVE  Coined
<1>1. ASSUME NEW id \in OpenedRounds, Finalize(id)
      PROVE  Coined
  <2>1. Commit(Finalise(Store, id)) /\ id \in Nat
    BY <1>1 DEF Finalize, OpenedRounds
  <2> QED
    BY <2>1, RoundCoins, MovedAndCommitted
<1>2. CASE CatchUp
  <2>1. PICK id \in Finalisable(Sched(feed), feed.haveLast, feed.lastFinalized, now, 1) :
          Commit(IF id \in DOMAIN rounds THEN Finalise(Store, id) ELSE Skip(Store, id))
    BY <1>2 DEF CatchUp
  <2>2. id \in Nat
    <3>1. feed.lastFinalized \in Nat
      BY StoreOnRecord DEF OnRecord, Cursors
    <3>2. NextRound(feed.haveLast, feed.lastFinalized) \in Nat
      BY <3>1 DEF NextRound
    <3> QED
      BY <2>1, <3>2 DEF Finalisable
  <2> QED
    BY <2>1, <2>2, RoundCoins, MovedAndCommitted
<1> QED
  BY <1>1, <1>2, SubmitCoined DEF RoundOps


LEMMA DisputeBondNat ==
  ASSUME Coining, Seating
  PROVE  DisputeBond \in Nat
<1> DEFINE seated == { slots[s] : s \in { x \in Slots : slots[x] # NoOne } }
           stakes == [p \in seated |-> providers[p].stake]
           stake == SumFunction(stakes)
           share == MulBps(stake, Param.disputeBondBps)
           bond == IF share < Param.minDisputeBond THEN Param.minDisputeBond ELSE share
           k == Smaller(feed.disputesInRow, 4) + 1
<1>1. seated \in SUBSET Providers
  BY StoreShaped, StoreBalanced DEF Shaped
<1>2. stake \in Nat
  <2>1. IsFiniteSet(seated)
    BY <1>1, FS_Subset, ConstantsAssumption
  <2>2. stakes \in [seated -> Nat]
    BY <1>1, StoreBalanced DEF Booked, Amounts, Purse
  <2> HIDE DEF seated, stakes
  <2> QED
    BY <2>1, <2>2, SumNat
<1> HIDE DEF seated, stakes, stake
<1>3. share \in Nat /\ Param.minDisputeBond \in Nat
  BY <1>2, ShareOfAmount, AmountsAssumption
<1> HIDE DEF share
<1>4. bond \in Nat
  BY <1>3
<1>5. k \in 1 .. 5
  <2>1. feed.disputesInRow \in Nat
    BY StoreBalanced DEF Booked, Amounts, FeedAmounts
  <2> QED
    BY <2>1 DEF Smaller
<1> HIDE DEF bond, k
<1>6. <<1, 2, 4, 8, 16>>[k] \in Nat
  BY <1>5
<1> DEFINE times == <<1, 2, 4, 8, 16>>[k]
<1> HIDE DEF times
<1>7. bond * times \in Nat
  BY <1>4, <1>6 DEF times
<1> QED
  BY <1>4, <1>7 DEF DisputeBond, bond, share, stake, stakes, seated, k, times

\* The counters of a dispute move nothing.
LEMMA CountersMove ==
  ASSUME NEW st, NEW n \in Nat, NEW at, Booked(st)
  PROVE  Moves([st EXCEPT !.feed.openDisputes = @ + 1, !.feed.disputesInRow = n, !.feed.lastDisputeAt = at], st, 0, 0)
<1> DEFINE t == [st EXCEPT !.feed.openDisputes = @ + 1, !.feed.disputesInRow = n, !.feed.lastDisputeAt = at]
           f == [st.feed EXCEPT !.openDisputes = @ + 1, !.disputesInRow = n, !.lastDisputeAt = at]
<1>1. DOMAIN st = Tables /\ FeedAmounts(st.feed)
  BY DEF Booked, Amounts
<1>2. /\ DOMAIN t = Tables /\ t.feed = f
      /\ t.providers = st.providers /\ t.credits = st.credits /\ t.held = st.held /\ t.balance = st.balance
      /\ t.disputes = st.disputes
  BY <1>1 DEF Tables
<1>3. /\ DOMAIN f = FeedFields
      /\ f.deposit = st.feed.deposit /\ f.prepaid = st.feed.prepaid /\ f.pool = st.feed.pool
      /\ f.penaltyCarry = st.feed.penaltyCarry /\ f.drip \in Nat
      /\ f.subscriberPrice \in Nat /\ f.subscriptionPrice \in Nat /\ f.providerMinStake \in Nat
      /\ f.disputesInRow \in Nat
  BY <1>1 DEF FeedAmounts, FeedFields, NoFeed
<1> HIDE DEF f, t
<1>4. Moves(t, st, 0, 0)
  BY <1>2, <1>3, SameMoney
<1> QED
  BY <1>4 DEF t

\* What is asked waits, beyond the books, and the excess becomes credit.
LEMMA AskedReceived ==
  ASSUME NEW st, NEW acct \in Accounts, NEW asked \in Nat, NEW sent \in Payments(asked), Balanced(st)
  PROVE  /\ Balances(CreditExcess(Receive(st, sent), acct, sent, asked), st, -asked)
         /\ CreditExcess(Receive(st, sent), acct, sent, asked).disputes = st.disputes
<1> DEFINE received == Receive(st, sent)
           paid == CreditExcess(received, acct, sent, asked)
<1>1. sent \in Nat /\ asked <= sent /\ Booked(st)
  BY PaymentCovers DEF Balanced
<1>2. Moves(received, st, -sent, 0) /\ Booked(received)
  BY <1>1, ReceiveMoves DEF Moves
<1> HIDE DEF received
<1>3. Moves(paid, received, sent - asked, 0)
  BY <1>1, <1>2, CreditExcessMoves
<1> HIDE DEF paid
<1>4. -sent \in Int /\ sent - asked \in Int /\ -asked \in Int /\ -sent + (sent - asked) = -asked
  BY <1>1
<1>5. Moves(paid, st, -sent + (sent - asked), 0 + 0)
  BY <1>1, <1>2, <1>3, <1>4, MovesAdd
<1>6. Moves(paid, st, -asked, 0)
  BY <1>4, <1>5
<1>7. Balances(paid, st, -asked) /\ paid.disputes = st.disputes
  BY <1>4, <1>6, MovesBalances DEF Moves
<1> QED
  BY <1>7 DEF paid, received

LEMMA BalancesBack ==
  ASSUME NEW st, NEW t, NEW u, NEW x \in Nat, Balanced(st), Balances(t, st, -x), Balances(u, t, x)
  PROVE  Balances(u, st, 0) /\ Balanced(u)
<1>1. Balances(u, st, -x + x)
  BY BalancesAdd
<1> QED
  BY <1>1 DEF Balances

LEMMA MovesOn ==
  ASSUME NEW st, NEW t, NEW u, Balanced(st), Balances(t, st, 0), Moves(u, t, 0, 0)
  PROVE  Balances(u, st, 0) /\ Balanced(u)
<1>1. Balances(u, t, 0)
  BY MovesBalances DEF Balances
<1>2. Balances(u, st, 0 + 0)
  BY <1>1, BalancesAdd
<1> QED
  BY <1>2 DEF Balances

LEMMA DisputeCoined ==
  ASSUME Coining, Seating, NEW acct \in Accounts, NEW id, NEW proposed, NEW tier, Dispute(acct, id, proposed, tier)
  PROVE  Coined
<1> DEFINE bond == DisputeBond
           n == Len(disputes) + 1
           inRow == IF now - feed.lastDisputeAt >= Param.disputeEscalationWindow THEN 0 ELSE feed.disputesInRow
<1>1. PICK sent \in Payments(bond) :
        LET paid == CreditExcess(Receive(Store, sent), acct, sent, bond)
            marked == RoundMarkDisputed(NewDispute(paid, id, bond, proposed, tier), id, n)
        IN Commit([marked EXCEPT !.feed.openDisputes = @ + 1, !.feed.disputesInRow = inRow + 1,
                                 !.feed.lastDisputeAt = now])
  BY DEF Dispute
<1> DEFINE paid == CreditExcess(Receive(Store, sent), acct, sent, bond)
           opened == NewDispute(paid, id, bond, proposed, tier)
           marked == RoundMarkDisputed(opened, id, n)
           counted == [marked EXCEPT !.feed.openDisputes = @ + 1, !.feed.disputesInRow = inRow + 1,
                                     !.feed.lastDisputeAt = now]
<1>2. Commit(counted)
  BY <1>1
<1>3. bond \in Nat
  BY DisputeBondNat
<1>4. inRow + 1 \in Nat
  BY StoreBalanced DEF Booked, Amounts, FeedAmounts
<1> HIDE DEF bond, inRow, n
<1>5. Balances(paid, Store, -bond) /\ Balanced(paid)
  BY <1>1, <1>3, StoreBalanced, AskedReceived DEF Balances
<1> HIDE DEF paid
<1>6. Balances(opened, paid, bond)
  BY <1>3, <1>5, NewDisputeBalances
<1>7. Balances(opened, Store, 0) /\ Balanced(opened)
  BY <1>3, <1>5, <1>6, StoreBalanced, BalancesBack
<1> HIDE DEF opened
<1>8. Moves(marked, opened, 0, 0)
  BY <1>7, RoundMarkDisputedMoves DEF Balanced
<1>9. Balances(marked, Store, 0) /\ Balanced(marked)
  BY <1>7, <1>8, StoreBalanced, MovesOn
<1> HIDE DEF marked
<1>10. Moves(counted, marked, 0, 0)
  BY <1>4, <1>9, CountersMove DEF Balanced
<1> HIDE DEF counted
<1>11. Balances(counted, Store, 0)
  BY <1>9, <1>10, StoreBalanced, MovesOn
<1> QED
  BY <1>2, <1>11, BalancedAndCommitted

LEMMA AppealCoined ==
  ASSUME Coining, NEW acct \in Accounts, NEW n \in DOMAIN disputes, Appeal(acct, n)
  PROVE  Coined
<1> DEFINE bond == disputes[n].bond * Param.appealBondMultiple
<1>1. PICK sent \in Payments(bond) :
        LET st == Inflow(CreditExcess(Receive(Store, sent), acct, sent, bond), bond) IN
        Commit([st EXCEPT !.disputes[n].status = "appealed", !.disputes[n].appealBond = bond,
                          !.disputes[n].ballotRound = 2, !.disputes[n].ballotEnds = now + BallotPeriod[2],
                          !.held.bonds = @ + bond])
  BY DEF Appeal
<1> DEFINE paid == CreditExcess(Receive(Store, sent), acct, sent, bond)
           st == Inflow(paid, bond)
           ends == now + BallotPeriod[2]
           e == [disputes[n] EXCEPT !.status = "appealed", !.appealBond = bond, !.ballotRound = 2, !.ballotEnds = ends]
           t == [st EXCEPT !.disputes[n].status = "appealed", !.disputes[n].appealBond = bond,
                           !.disputes[n].ballotRound = 2, !.disputes[n].ballotEnds = ends,
                           !.held.bonds = @ + bond]
<1>2. Commit(t)
  BY <1>1
<1>3. DisputeAmounts(disputes[n]) /\ disputes[n].status = "decided"
  BY StoreBalanced DEF Appeal, Balanced, Pledges
<1>4. bond \in Nat
  <2>1. disputes[n].bond \in Nat /\ Param.appealBondMultiple \in Nat
    BY <1>3, AmountsAssumption DEF DisputeAmounts
  <2> QED
    BY <2>1
<1> HIDE DEF bond, ends
<1>5. Balances(paid, Store, -bond) /\ Balanced(paid)
  BY <1>1, <1>4, StoreBalanced, AskedReceived DEF Balances
<1>6. paid.disputes = disputes
  <2>1. paid.disputes = Store.disputes
    BY <1>1, <1>4, StoreBalanced, AskedReceived
  <2> QED
    BY <2>1, StoreBalanced
<1> HIDE DEF paid
<1>7. Moves(st, paid, 0, 0)
  BY <1>5, InflowMoves DEF Balanced
<1>8. Balances(st, paid, 0) /\ Balanced(st) /\ st.disputes = disputes
  BY <1>5, <1>6, <1>7, MovesBalances DEF Balances, Moves
<1> HIDE DEF st
<1>9. DOMAIN st = Tables
  BY <1>8 DEF Balanced, Booked, Amounts
<1>10. /\ DOMAIN t = Tables /\ t.feed = st.feed /\ t.providers = st.providers /\ t.credits = st.credits
       /\ t.balance = st.balance /\ t.held = [st.held EXCEPT !.bonds = @ + bond]
  BY <1>9 DEF Tables
<1>11. t.disputes = [st.disputes EXCEPT ![n] = e]
  BY <1>3, <1>8, <1>9 DEF Tables, DisputeAmounts, DisputeFields
<1>12. DisputeAmounts(e) /\ Pending(e) = Pending(st.disputes[n]) + bond
  BY <1>3, <1>4, <1>8 DEF DisputeAmounts, DisputeFields, DisputeStatuses, Pending
<1> HIDE DEF t, e
<1>13. Balances(t, st, bond)
  <2>1. n \in DOMAIN st.disputes
    BY <1>8
  <2> QED
    BY <1>4, <1>8, <1>10, <1>11, <1>12, <2>1, AmendedBalances
<1>14. Balances(st, Store, -bond)
  <2>1. Balances(st, Store, -bond + 0)
    BY <1>4, <1>5, <1>8, StoreBalanced, BalancesAdd
  <2> QED
    BY <1>4, <2>1
<1>15. Balances(t, Store, 0)
  BY <1>4, <1>13, <1>14, StoreBalanced, BalancesBack
<1> QED
  BY <1>2, <1>15, BalancedAndCommitted


\* A dispute whose bonds are left alone.
LEMMA AmendedAlone ==
  ASSUME NEW st, NEW t, NEW n \in DOMAIN st.disputes, NEW e, Balanced(st),
         DisputeAmounts(e), Pending(e) = Pending(st.disputes[n]),
         DOMAIN t = Tables, t.feed = st.feed, t.providers = st.providers, t.credits = st.credits,
         t.balance = st.balance, t.disputes = [st.disputes EXCEPT ![n] = e], t.held = st.held
  PROVE  Balances(t, st, 0)
<1>1. Booked(st) /\ Pledges(st.disputes)
  BY DEF Balanced
<1>2. Pledges(t.disputes) /\ BondsOf(t.disputes) = BondsOf(st.disputes) - Pending(st.disputes[n]) + Pending(e)
  BY <1>1, BondsAmended
<1>3. BondsOf(t.disputes) = BondsOf(st.disputes)
  <2>1. BondsOf(st.disputes) \in Int /\ Pending(st.disputes[n]) \in Int
    BY <1>1, PendingNat
  <2> QED
    BY <1>2, <2>1
<1>4. Booked(t)
  BY <1>1 DEF Booked, Amounts
<1>5. Spare(t) = Spare(st) - 0
  BY <1>1, SpareIsInt DEF Spare
<1> QED
  BY <1>2, <1>3, <1>4, <1>5 DEF Balances, Balanced

LEMMA ResolveOpenCoined ==
  ASSUME Coining, NEW n \in DOMAIN disputes, ResolveOpen(n)
  PROVE  Coined
<1> DEFINE st == Store
           ends == now + BallotPeriod[2]
           again == [disputes[n] EXCEPT !.status = "appealed", !.ballotRound = 2, !.ballotEnds = ends]
           rolled == [st EXCEPT !.disputes[n].status = "appealed", !.disputes[n].ballotRound = 2,
                                !.disputes[n].ballotEnds = ends]
<1>1. PICK b : Commit(IF b.outcome = "ROLL" THEN rolled
                      ELSE [st EXCEPT !.disputes[n].status = "decided", !.disputes[n].outcome = b.outcome,
                                      !.disputes[n].firstOutcome = b.outcome, !.disputes[n].tierDecided = b.tier,
                                      !.disputes[n].decidedAt = now])
  BY DEF ResolveOpen
<1> DEFINE final == [disputes[n] EXCEPT !.status = "decided", !.outcome = b.outcome, !.firstOutcome = b.outcome,
                                        !.tierDecided = b.tier, !.decidedAt = now]
           decided == [st EXCEPT !.disputes[n].status = "decided", !.disputes[n].outcome = b.outcome,
                                 !.disputes[n].firstOutcome = b.outcome, !.disputes[n].tierDecided = b.tier,
                                 !.disputes[n].decidedAt = now]
<1>2. Commit(IF b.outcome = "ROLL" THEN rolled ELSE decided)
  BY <1>1
<1>3. Balanced(st) /\ DOMAIN st = Tables /\ st.disputes = disputes
  BY StoreBalanced DEF Balanced, Booked, Amounts
<1>4. DisputeAmounts(st.disputes[n]) /\ st.disputes[n].status = "open" /\ DOMAIN st.disputes[n] = DisputeFields
  BY <1>3 DEF ResolveOpen, Balanced, Pledges, DisputeAmounts
<1> HIDE DEF st, ends
<1>5. DisputeAmounts(again) /\ Pending(again) = Pending(st.disputes[n])
  BY <1>3, <1>4 DEF DisputeAmounts, DisputeFields, DisputeStatuses, Pending
<1>6. DisputeAmounts(final) /\ Pending(final) = Pending(st.disputes[n])
  BY <1>3, <1>4 DEF DisputeAmounts, DisputeFields, DisputeStatuses, Pending
<1>7. /\ DOMAIN rolled = Tables /\ rolled.feed = st.feed /\ rolled.providers = st.providers
      /\ rolled.credits = st.credits /\ rolled.balance = st.balance /\ rolled.held = st.held
  BY <1>3 DEF Tables
<1>8. /\ DOMAIN decided = Tables /\ decided.feed = st.feed /\ decided.providers = st.providers
      /\ decided.credits = st.credits /\ decided.balance = st.balance /\ decided.held = st.held
  BY <1>3 DEF Tables
<1>9. rolled.disputes = [st.disputes EXCEPT ![n] = again]
  BY <1>3, <1>4 DEF Tables, DisputeFields
<1>10. decided.disputes = [st.disputes EXCEPT ![n] = final]
  BY <1>3, <1>4 DEF Tables, DisputeFields
<1> HIDE DEF rolled, decided, again, final
<1>11. Balances(rolled, st, 0)
  BY <1>3, <1>5, <1>7, <1>9, AmendedAlone
<1>12. Balances(decided, st, 0)
  BY <1>3, <1>6, <1>8, <1>10, AmendedAlone
<1> QED
  BY <1>2, <1>11, <1>12, BalancedAndCommitted DEF st

LEMMA DisputeOpsCoined ==
  ASSUME Coining, Recording, Seating, DisputeOps
  PROVE  Coined
<1>1. ASSUME NEW n \in DOMAIN disputes, NEW outcome, NEW tier, disputes[n].status # "resolved",
             Commit(Apply(Store, n, outcome, tier))
      PROVE  Coined
  <2>1. n \in Running(Store)
    BY <1>1, StoreBalanced DEF Running
  <2>2. Apply(Store, n, outcome, tier).ok
    BY <1>1 DEF Commit
  <2>3. Balances(Apply(Store, n, outcome, tier), Store, 0)
    BY <2>1, <2>2, StoreBalanced, StoreOnRecord, ApplyBalances
  <2> QED
    BY <1>1, <2>3, BalancedAndCommitted
<1>2. ASSUME NEW n \in DOMAIN disputes, ResolveDispute(n)
      PROVE  Coined
  <2>1. CASE ResolveDecided(n)
    BY <1>1, <2>1 DEF ResolveDecided
  <2>2. CASE ResolveAppealed(n)
    <3>1. PICK b : Commit(Apply(Store, n, b.outcome, b.tier))
      BY <2>2 DEF ResolveAppealed
    <3> QED
      BY <1>1, <2>2, <3>1 DEF ResolveAppealed
  <2> QED
    BY <1>2, <2>1, <2>2, ResolveOpenCoined DEF ResolveDispute
<1>3. ASSUME NEW resolveAt, ReopenOneOff(resolveAt)
      PROVE  Coined
  <2>1. Moves(FeedResetForReopen(Store, resolveAt), Store, 0, 0)
    BY StoreBalanced, ReopenMoves
  <2> QED
    BY <1>3, <2>1, MovedAndCommitted DEF ReopenOneOff
<1> QED
  BY <1>2, <1>3, DisputeCoined, AppealCoined DEF DisputeOps


\* An activation of what was refused is refused.
LEMMA ActivateRefused ==
  ASSUME NEW st, DOMAIN st = Tables, st.ok = FALSE
  PROVE  Activate(st).ok = FALSE
<1> DEFINE startAt == IF Recurs THEN (now - (now % Spec0.interval)) + Spec0.interval ELSE Spec0.resolveAt
           drip == IF Recurs THEN DripFor(st.feed.subscriptionPrice) ELSE 0
           a == Require(st, Recurs \/ Spec0.resolveAt > now)
           b == FeedActivate(a, startAt, drip)
<1>1. Activate(st) = DepositRefund(b)
  BY DEF Activate
<1>2. DOMAIN a = Tables /\ a.ok = FALSE
  BY DEF Require, Tables
<1> HIDE DEF startAt, drip, a
<1>3. DOMAIN b = Tables /\ b.ok = FALSE
  BY <1>2 DEF FeedActivate, SplitSubscription, Tables
<1> HIDE DEF b
<1> DEFINE amount == b.feed.deposit + b.feed.prepaid
           c == [b EXCEPT !.feed.deposit = 0, !.feed.prepaid = 0, !.held.deposits = @ - amount]
<1>4. DepositRefund(b) = b \/ DepositRefund(b) = PayProposer(c, amount)
  BY DEF DepositRefund
<1>5. DOMAIN c = Tables /\ c.ok = FALSE
  BY <1>3 DEF Tables
<1> HIDE DEF c, amount
<1>6. PayProposer(c, amount).ok = FALSE
  BY <1>5 DEF PayProposer, Send, Require, Tables
<1> QED
  BY <1>1, <1>3, <1>4, <1>6

\* Nobody spends on a feed what it does not have.
LEMMA OverspentRefused ==
  ASSUME NEW st, NEW acct, NEW deposit, NEW funding, DOMAIN st = Tables,
         (deposit + funding <= st.credits[acct]) = FALSE, st.credits[acct] \in Int, deposit + funding \in Int
  PROVE  /\ DOMAIN CreditSpendOnFeed(st, acct, deposit, funding) = Tables
         /\ CreditSpendOnFeed(st, acct, deposit, funding).ok = FALSE
<1> DEFINE t == CreditSpend(st, acct, deposit + funding)
<1>1. (st.credits[acct] >= deposit + funding) = FALSE
  OBVIOUS
<1>2. DOMAIN t = Tables /\ t.ok = FALSE
  BY <1>1 DEF CreditSpend, Require, Tables
<1> HIDE DEF t
<1> QED
  BY <1>2 DEF CreditSpendOnFeed, Tables, t

LEMMA FundingIsNat ==
  Funding \in Nat /\ Param.feedDeposit \in Nat
BY AmountsAssumption DEF Funding

LEMMA ProposedByRealm ==
  ASSUME NEW st, Booked(st), (IF ~Recurs /\ Spec0.trusted
                              THEN Activate(CreditSpendOnFeed(st, Proposer, Param.feedDeposit, Funding))
                              ELSE CreditSpendOnFeed(st, Proposer, Param.feedDeposit, Funding)).ok
  PROVE  Param.feedDeposit + Funding <= st.credits[Proposer]
<1> DEFINE filed == CreditSpendOnFeed(st, Proposer, Param.feedDeposit, Funding)
<1>1. DOMAIN st = Tables /\ st.credits[Proposer] \in Int /\ Param.feedDeposit + Funding \in Int
  BY FundingIsNat, ConstantsAssumption DEF Booked, Amounts
<1> SUFFICES ASSUME ~(Param.feedDeposit + Funding <= st.credits[Proposer])
             PROVE  FALSE
  OBVIOUS
<1>2. (Param.feedDeposit + Funding <= st.credits[Proposer]) = FALSE
  OBVIOUS
<1>3. DOMAIN filed = Tables /\ filed.ok = FALSE
  BY <1>1, <1>2, OverspentRefused
<1> HIDE DEF filed
<1>4. Activate(filed).ok = FALSE
  BY <1>3, ActivateRefused
<1> QED
  BY <1>3, <1>4 DEF filed

LEMMA ProposeCoined ==
  ASSUME Coining, ProposeFeed
  PROVE  Coined
<1> DEFINE st == FeedSetStatus(Store, "proposed")
<1>1. Moves(st, Store, 0, 0) /\ Booked(st)
  BY StoreBalanced, FeedSetStatusMoves DEF Moves
<1>2. CASE Spec0.fromRealm
  <2> DEFINE filed == CreditSpendOnFeed(st, Proposer, Param.feedDeposit, Funding)
  <2>1. Commit(IF ~Recurs /\ Spec0.trusted THEN Activate(filed) ELSE filed)
    BY <1>2 DEF ProposeFeed
  <2> HIDE DEF st
  <2>2. Param.feedDeposit + Funding <= st.credits[Proposer]
    BY <1>1, <2>1, ProposedByRealm DEF Commit
  <2>3. Moves(filed, st, 0, 0)
    BY <1>1, <2>2, FundingIsNat, ConstantsAssumption, CreditSpendOnFeedMoves
  <2> HIDE DEF filed
  <2>4. Moves(filed, Store, 0, 0) /\ Booked(filed)
    BY <1>1, <2>3, StoreBalanced, MovesNoneAdd
  <2>5. Moves(Activate(filed), Store, 0, 0)
    BY <2>4, StoreBalanced, ActivateMoves, MovesNoneAdd
  <2> QED
    BY <2>1, <2>4, <2>5, MovedAndCommitted
<1>3. CASE ~Spec0.fromRealm
  <2>1. PICK sent \in Payments(Param.feedDeposit + Funding) :
          Commit(CreditSpendOnFeed(CreditDeposit(Receive(st, sent), Proposer, sent),
                                   Proposer, Param.feedDeposit, sent - Param.feedDeposit))
    BY <1>3 DEF ProposeFeed
  <2> DEFINE received == Receive(st, sent)
             deposited == CreditDeposit(received, Proposer, sent)
             rest == sent - Param.feedDeposit
             filed == CreditSpendOnFeed(deposited, Proposer, Param.feedDeposit, rest)
  <2> HIDE DEF st
  <2>2. sent \in Nat /\ rest \in Nat /\ Param.feedDeposit + rest = sent
    <3>1. Param.feedDeposit + Funding \in Nat
      BY FundingIsNat
    <3>2. sent \in Nat /\ Param.feedDeposit + Funding <= sent
      BY <3>1, PaymentCovers
    <3> QED
      BY <3>2, FundingIsNat
  <2> HIDE DEF rest
  <2>3. Booked(received)
    BY <1>1, <2>2, ReceivedBooked
  <2>4. Moves(deposited, received, sent, 0)
    BY <2>2, <2>3, CreditDepositMoves, ConstantsAssumption
  <2>5. sent <= deposited.credits[Proposer]
    <3>1. /\ DOMAIN received = Tables /\ received.credits \in [Accounts -> Nat] /\ Proposer \in Accounts
      BY <2>3, ConstantsAssumption DEF Booked, Amounts
    <3> HIDE DEF received
    <3>2. deposited.credits[Proposer] = received.credits[Proposer] + sent
      BY <3>1 DEF CreditDeposit, Inflow, Require, Tables
    <3> QED
      BY <2>2, <3>1, <3>2
  <2>6. Moves(deposited, st, 0, 0) /\ Booked(deposited)
    BY <1>1, <2>2, <2>4, ReceivedAndBooked
  <2> HIDE DEF deposited
  <2>7. Moves(filed, deposited, 0, 0)
    BY <2>2, <2>5, <2>6, FundingIsNat, ConstantsAssumption, CreditSpendOnFeedMoves
  <2> HIDE DEF filed
  <2>8. Moves(filed, st, 0, 0) /\ Booked(filed)
    BY <1>1, <2>6, <2>7, MovesNoneAdd
  <2>9. Moves(filed, Store, 0, 0)
    BY <1>1, <2>8, StoreBalanced, MovesNoneAdd
  <2> QED
    BY <2>1, <2>9, MovedAndCommitted DEF filed, deposited, received, rest
<1> QED
  BY <1>2, <1>3

LEMMA DeprecateCoined ==
  ASSUME Coining, NEW spam, DeprecateFeed(spam)
  PROVE  Coined
<1> DEFINE refunded == IF feed.status # "proposed" THEN Store
                       ELSE IF spam THEN DepositToFees(Store) ELSE DepositRefund(Store)
           swept == IF Recurs THEN FeedPoolToFees(refunded) ELSE FeedPoolRefund(refunded)
<1>1. Commit(Retire(swept))
  BY DEF DeprecateFeed
<1>2. Moves(DepositToFees(Store), Store, 0, 0) /\ Moves(DepositRefund(Store), Store, 0, 0) /\ Moves(Store, Store, 0, 0)
  BY StoreBalanced, DepositToFeesMoves, DepositRefundMoves, MovesNothing
<1>3. Moves(refunded, Store, 0, 0) /\ Booked(refunded)
  BY <1>2 DEF Moves
<1> HIDE DEF refunded
<1>4. Moves(FeedPoolToFees(refunded), refunded, 0, 0) /\ Moves(FeedPoolRefund(refunded), refunded, 0, 0)
  BY <1>3, FeedPoolToFeesMoves, FeedPoolRefundMoves
<1>5. Moves(swept, refunded, 0, 0)
  BY <1>4
<1> HIDE DEF swept
<1>6. Moves(swept, Store, 0, 0) /\ Booked(swept)
  BY <1>3, <1>5, StoreBalanced, MovesNoneAdd
<1>7. Moves(Retire(swept), Store, 0, 0)
  BY <1>6, StoreBalanced, RetireMoves, MovesNoneAdd
<1> QED
  BY <1>1, <1>7, MovedAndCommitted

LEMMA UpdateCoined ==
  ASSUME Coining, NEW u \in Updates, UpdateFeed(u)
  PROVE  Coined
<1> DEFINE drip == IF Recurs /\ u.subscriptionPrice # feed.subscriptionPrice
                   THEN DripFor(u.subscriptionPrice) ELSE Store.feed.drip
           t == [Store EXCEPT
                   !.feed.subscriberPrice = u.subscriberPrice, !.feed.subscriptionPrice = u.subscriptionPrice,
                   !.feed.providerMinStake = u.providerMinStake, !.feed.toleranceBps = u.toleranceBps,
                   !.feed.quarantineBps = u.quarantineBps, !.feed.disputeWindow = u.disputeWindow,
                   !.feed.drip = drip]
<1>1. Commit(t)
  BY DEF UpdateFeed, Store
<1>2. u.subscriberPrice \in Nat /\ u.subscriptionPrice \in Nat /\ u.providerMinStake \in Nat
  BY AmountsAssumption
<1>3. drip \in Nat
  <2>1. DripFor(u.subscriptionPrice) \in Nat
    BY <1>2, DripIsNat
  <2>2. Store.feed.drip \in Nat
    BY StoreBalanced DEF Booked, Amounts, FeedAmounts
  <2> QED
    BY <2>1, <2>2
<1> HIDE DEF drip
<1>4. Moves(t, Store, 0, 0)
  BY <1>2, <1>3, StoreBalanced, RepricedMoves
<1> QED
  BY <1>1, <1>4, MovedAndCommitted

LEMMA PruneRoundsCoined ==
  ASSUME Coining, NEW maxRounds, PruneRounds(maxRounds)
  PROVE  Coined
<1> DEFINE st == FeedPromoteFinal(Store)
<1>1. Commit(Pruned(st, maxRounds))
  BY DEF PruneRounds
<1>2. Moves(st, Store, 0, 0) /\ Booked(st)
  BY StoreBalanced, FeedPromoteFinalMoves DEF Moves
<1> HIDE DEF st
<1>3. Moves(Pruned(st, maxRounds), Store, 0, 0)
  BY <1>2, StoreBalanced, PrunedMoves, MovesNoneAdd
<1> QED
  BY <1>1, <1>3, MovedAndCommitted


LEMMA PruneFeedCoined ==
  ASSUME Coining, PruneFeed
  PROVE  Coined
<1> DEFINE ready == { p \in Providers : providers[p].status = "unbonding" /\ now >= providers[p].unbondReadyAt }
           settled == SettleProviders(Store, ready)
           swept == FeedPoolToFees(settled)
           empty == {swept.feed.pool, swept.feed.penaltyCarry, swept.feed.deposit, swept.feed.prepaid} = {0}
           checked == Require(swept, empty)
<1>1. Commit([checked EXCEPT !.feed.status = "pruned", !.slotlog = {}])
  BY DEF PruneFeed
<1>2. \A p \in Providers : Store.providers[p].stake = 0 /\ (p \in ready \/ Store.providers[p].unbondAmount = 0)
  BY StoreBalanced DEF PruneFeed
<1>3. ready \in SUBSET Providers
  OBVIOUS
<1> HIDE DEF ready
<1>4. Moves(settled, Store, 0, 0) /\ Booked(settled)
  BY <1>2, <1>3, StoreBalanced, SettleProvidersMoves DEF Moves
<1> HIDE DEF settled
<1>5. Moves(swept, Store, 0, 0) /\ Booked(swept)
  BY <1>4, StoreBalanced, FeedPoolToFeesMoves, MovesNoneAdd
<1> HIDE DEF swept, empty
<1>6. Moves(checked, Store, 0, 0) /\ Booked(checked)
  BY <1>5, StoreBalanced, RequireMoves, MovesNoneAdd
<1> HIDE DEF checked
<1>7. Moves([checked EXCEPT !.feed.status = "pruned", !.slotlog = {}], Store, 0, 0)
  BY <1>6, StoreBalanced, GoneMoves, MovesNoneAdd
<1> QED
  BY <1>1, <1>7, MovedAndCommitted

LEMMA FeedOpsCoined ==
  ASSUME Coining, FeedOps
  PROVE  Coined
<1>1. CASE ActivateFeed
  <2>1. Moves(Activate(Store), Store, 0, 0)
    BY StoreBalanced, ActivateMoves
  <2> QED
    BY <1>1, <2>1, MovedAndCommitted DEF ActivateFeed
<1> QED
  BY <1>1, ProposeCoined, DeprecateCoined, UpdateCoined, PruneRoundsCoined, PruneFeedCoined DEF FeedOps

LEMMA PricesAreNat ==
  ASSUME Coining
  PROVE  feed.subscriberPrice \in Nat /\ feed.subscriptionPrice \in Nat
BY StoreBalanced DEF Booked, Amounts, FeedAmounts

\* A sponsor's payment, and what it makes of the status.
LEMMA SponsoredMoves ==
  ASSUME NEW st, NEW sent \in Nat, Booked(st)
  PROVE  LET paid == SponsorPay(Receive(st, sent), sent) IN
         Moves(paid, st, 0, 0) /\ Moves(FeedSetStatus(paid, "active"), st, 0, 0) /\ Moves(Resubscribed(paid), st, 0, 0)
<1> DEFINE received == Receive(st, sent)
           paid == SponsorPay(received, sent)
<1>1. Booked(received)
  BY ReceivedBooked
<1>2. Moves(paid, received, sent, 0)
  BY <1>1, SponsorPayMoves
<1>3. Moves(paid, st, 0, 0) /\ Booked(paid)
  BY <1>2, ReceivedAndBooked
<1> HIDE DEF paid
<1>4. Moves(FeedSetStatus(paid, "active"), st, 0, 0) /\ Moves(Resubscribed(paid), st, 0, 0)
  BY <1>3, FeedSetStatusMoves, ResubscribedMoves, MovesNoneAdd
<1> QED
  BY <1>3, <1>4 DEF paid, received

\* Nobody subscribes from credit it does not have.
LEMMA OverspentSubscription ==
  ASSUME NEW st, NEW acct, NEW price, DOMAIN st = Tables,
         Resubscribed(SplitSubscription(CreditSpend(st, acct, price), price)).ok,
         st.credits[acct] \in Int, price \in Int
  PROVE  price <= st.credits[acct]
<1> SUFFICES ASSUME ~(price <= st.credits[acct])
             PROVE  FALSE
  OBVIOUS
<1> DEFINE t == CreditSpend(st, acct, price)
           u == SplitSubscription(t, price)
<1>1. (st.credits[acct] >= price) = FALSE
  OBVIOUS
<1>2. DOMAIN t = Tables /\ t.ok = FALSE
  BY <1>1 DEF CreditSpend, Require, Tables
<1> HIDE DEF t
<1>3. DOMAIN u = Tables /\ u.ok = FALSE
  BY <1>2 DEF SplitSubscription, Tables
<1> HIDE DEF u
<1>4. Resubscribed(u).ok = FALSE
  BY <1>3 DEF Resubscribed, FeedSetStatus, Tables
<1> QED
  BY <1>4 DEF u, t

LEMMA SubscribeFromCreditCoined ==
  ASSUME Coining, NEW acct \in Accounts, SubscribeFromCredit(acct)
  PROVE  Coined
<1> DEFINE price == feed.subscriberPrice
           spent == CreditSpend(Store, acct, price)
           split == SplitSubscription(spent, price)
<1>1. Commit(Resubscribed(split))
  BY DEF SubscribeFromCredit
<1>2. price \in Nat
  BY PricesAreNat
<1> HIDE DEF price
<1>3. price <= Store.credits[acct]
  <2>1. DOMAIN Store = Tables /\ Store.credits[acct] \in Int /\ price \in Int
    BY <1>2, StoreBalanced DEF Booked, Amounts
  <2>2. Resubscribed(split).ok
    BY <1>1 DEF Commit
  <2> QED
    BY <2>1, <2>2, OverspentSubscription
<1>4. Moves(spent, Store, -price, 0) /\ Booked(spent)
  BY <1>2, <1>3, StoreBalanced, CreditSpendMoves DEF Moves
<1> HIDE DEF spent
<1>5. Moves(split, spent, price, 0)
  BY <1>2, <1>4, SplitSubscriptionMoves
<1> HIDE DEF split
<1>6. -price \in Int /\ price \in Int /\ -price + price = 0
  BY <1>2
<1>7. Moves(split, Store, 0, 0) /\ Booked(split)
  BY <1>4, <1>5, <1>6, StoreBalanced, MovesBack
<1>8. Moves(Resubscribed(split), Store, 0, 0)
  BY <1>7, StoreBalanced, ResubscribedMoves, MovesNoneAdd
<1> QED
  BY <1>1, <1>8, MovedAndCommitted

LEMMA PlainTransferCoins ==
  ASSUME Coining, PlainTransfer
  PROVE  Coining'
<1>1. PICK amount \in Given : Commit(Receive(Store, amount))
  BY DEF PlainTransfer
<1>2. amount \in Nat /\ -amount \in Int /\ amount \in Int
  BY GivenIsNat
<1>3. Moves(Receive(Store, amount), Store, -amount, 0)
  BY <1>2, StoreBalanced, ReceiveMoves
<1>4. Balances(Receive(Store, amount), Store, -amount)
  BY <1>2, <1>3, StoreBalanced, MovesBalances
<1> QED
  BY <1>1, <1>2, <1>4, CoinsCommitted

LEMMA FundingOpsCoined ==
  ASSUME Coining, FundingOps
  PROVE  Coining' /\ (Surplus' = Surplus \/ PlainTransfer)
<1>1. CASE Sponsor
  <2>1. PICK sent \in Payments(feed.subscriptionPrice) :
          LET paid == SponsorPay(Receive(Store, sent), sent) IN
          Commit(IF feed.status = "unfunded" THEN FeedSetStatus(paid, "active") ELSE paid)
    BY <1>1 DEF Sponsor
  <2>2. sent \in Nat
    BY PricesAreNat, PaymentCovers
  <2> QED
    BY <2>1, <2>2, StoreBalanced, SponsoredMoves, MovedAndCommitted DEF Coined
<1>2. CASE SubscribeRealm
  <2>1. PICK sent \in Payments(feed.subscriberPrice) : Commit(Resubscribed(SponsorPay(Receive(Store, sent), sent)))
    BY <1>2 DEF SubscribeRealm
  <2>2. sent \in Nat
    BY PricesAreNat, PaymentCovers
  <2> QED
    BY <2>1, <2>2, StoreBalanced, SponsoredMoves, MovedAndCommitted DEF Coined
<1>3. CASE FundBounty
  <2>1. PICK sent \in Given : Commit(BountyIn(Receive(Store, sent), sent))
    BY <1>3 DEF FundBounty
  <2>2. sent \in Nat
    BY GivenIsNat
  <2>3. Moves(BountyIn(Receive(Store, sent), sent), Receive(Store, sent), sent, 0)
    BY <2>2, StoreBalanced, ReceivedBooked, BountyInMoves
  <2>4. Moves(BountyIn(Receive(Store, sent), sent), Store, 0, 0)
    BY <2>2, <2>3, StoreBalanced, ReceivedAndBooked
  <2> QED
    BY <2>1, <2>4, MovedAndCommitted DEF Coined
<1>4. CASE ForwardFees
  <2>1. Commit(Send([Store EXCEPT !.held.feesPending = 0], Store.held.feesPending))
    BY <1>4, StoreBalanced DEF ForwardFees
  <2>2. Moves(Send([Store EXCEPT !.held.feesPending = 0], Store.held.feesPending), Store, 0, 0)
    BY StoreBalanced, FeesForwardedMoves
  <2> QED
    BY <2>1, <2>2, MovedAndCommitted DEF Coined
<1>5. CASE SubscribeFree
  BY <1>5, StoreBalanced, ResubscribedMoves, MovedAndCommitted DEF SubscribeFree, Coined
<1>6. ASSUME NEW acct \in Accounts, DepositFor(acct)
      PROVE  Coined
  <2>1. PICK sent \in Payments(feed.subscriberPrice) : Commit(CreditDeposit(Receive(Store, sent), acct, sent))
    BY <1>6 DEF DepositFor
  <2>2. sent \in Nat
    BY PricesAreNat, PaymentCovers
  <2>3. Moves(CreditDeposit(Receive(Store, sent), acct, sent), Receive(Store, sent), sent, 0)
    BY <2>2, StoreBalanced, ReceivedBooked, CreditDepositMoves
  <2>4. Moves(CreditDeposit(Receive(Store, sent), acct, sent), Store, 0, 0)
    BY <2>2, <2>3, StoreBalanced, ReceivedAndBooked
  <2> QED
    BY <2>1, <2>4, MovedAndCommitted
<1>7. ASSUME NEW acct \in Accounts, WithdrawCredit(acct)
      PROVE  Coined
  <2>1. credits[acct] \in Nat /\ Store.credits[acct] = credits[acct] /\ credits[acct] <= Store.credits[acct]
    BY StoreBalanced DEF Booked, Amounts
  <2>2. Moves(CreditWithdraw(Store, acct, credits[acct]), Store, 0, 0)
    BY <2>1, StoreBalanced, CreditWithdrawMoves
  <2> QED
    BY <1>7, <2>2, MovedAndCommitted DEF WithdrawCredit
<1> QED
  BY <1>1, <1>2, <1>3, <1>4, <1>6, <1>7, <1>5, PlainTransferCoins, SubscribeFromCreditCoined DEF FundingOps, Coined


-----------------------------------------------------------------------------
(* A feed that is gone leaves nothing. *)

\* The books are a record of categories and nothing else.
IsBooks(h) == h = [c \in Categories |-> h[c]]

\* When the feed is gone, nobody is bonded on it and it has no coins.
Emptied ==
  feed.status = "pruned" =>
    /\ \A p \in Providers : providers[p].status = "none"
    /\ feed.pool = 0 /\ feed.penaltyCarry = 0 /\ feed.deposit = 0 /\ feed.prepaid = 0
    /\ IsBooks(held)

\* What a step that concerns an account alone leaves.
Aside(t, st) == DOMAIN t = Tables /\ t.feed = st.feed /\ t.providers = st.providers /\ IsBooks(t.held)

LEMMA ReceiveAside ==
  ASSUME NEW st, NEW sent, DOMAIN st = Tables, DOMAIN st.held = Categories, IsBooks(st.held)
  PROVE  Aside(Receive(st, sent), st) /\ DOMAIN Receive(st, sent).held = Categories
BY DEF Aside, Receive, Tables

LEMMA SendAside ==
  ASSUME NEW st, NEW amount, DOMAIN st = Tables, DOMAIN st.held = Categories, IsBooks(st.held)
  PROVE  Aside(Send(st, amount), st) /\ DOMAIN Send(st, amount).held = Categories
BY DEF Aside, Send, Require, Tables

LEMMA CreditDepositAside ==
  ASSUME NEW st, NEW acct, NEW amount, DOMAIN st = Tables, DOMAIN st.held = Categories, IsBooks(st.held)
  PROVE  Aside(CreditDeposit(st, acct, amount), st)
<1> DEFINE t == CreditDeposit(st, acct, amount)
<1>1. /\ DOMAIN t = Tables /\ t.feed = st.feed /\ t.providers = st.providers
      /\ t.held = [st.held EXCEPT !.credits = @ + amount]
  BY DEF CreditDeposit, Inflow, Require, Tables
<1> HIDE DEF t
<1>2. IsBooks(t.held)
  BY <1>1 DEF IsBooks
<1> QED
  BY <1>1, <1>2 DEF Aside, t

LEMMA CreditWithdrawAside ==
  ASSUME NEW st, NEW acct, NEW amount, DOMAIN st = Tables, DOMAIN st.held = Categories, IsBooks(st.held)
  PROVE  Aside(CreditWithdraw(st, acct, amount), st)
<1> DEFINE t == CreditSpend(st, acct, amount)
<1>1. /\ DOMAIN t = Tables /\ t.feed = st.feed /\ t.providers = st.providers
      /\ t.held = [st.held EXCEPT !.credits = @ - amount]
  BY DEF CreditSpend, Require, Tables
<1> HIDE DEF t
<1>2. IsBooks(t.held) /\ DOMAIN t.held = Categories
  BY <1>1 DEF IsBooks
<1>3. Aside(Send(t, amount), t)
  BY <1>1, <1>2, SendAside
<1>4. Aside(Send(t, amount), st)
  BY <1>1, <1>3 DEF Aside
<1> QED
  BY <1>4 DEF CreditWithdraw, t

LEMMA AsideCommitted ==
  ASSUME NEW st, Coining, Emptied, Aside(st, Store), Commit(st)
  PROVE  Emptied'
<1>1. feed' = feed /\ providers' = providers /\ held' = st.held
  BY StoreBalanced DEF Aside, Commit
<1> QED
  BY <1>1 DEF Emptied, Aside

\* With the feed gone, only accounts act.
LEMMA GoneStays ==
  ASSUME Coining, Recording, Emptied, feed.status = "pruned", [Next]_vars
  PROVE  Emptied'
<1>1. ~Serving(feed) /\ feed.status \notin {"none", "proposed", "active", "unfunded", "deprecated"}
  BY DEF Serving
<1>2. \A p \in Providers : providers[p].status = "none"
  BY DEF Emptied
<1>3. \A n \in DOMAIN disputes : disputes[n].status = "resolved"
  BY StoreOnRecord DEF OnRecord, LogSound, Running
<1>4. DOMAIN Store = Tables /\ DOMAIN Store.held = Categories /\ IsBooks(Store.held)
  BY StoreBalanced DEF Booked, Amounts, HeldAmounts, Emptied
<1>5. ~ProviderOps
  BY <1>1, <1>2 DEF ProviderOps, Register, TopUp, RequestUnbond, ForceUnbond, Withdraw, Unjail, ClaimRewards, Member
<1>6. ~RoundOps
  BY <1>1, <1>2 DEF RoundOps, Submit, MaySubmit, MayAnswer, Finalize, CatchUp
<1>7. ~DisputeOps
  <2>1. ASSUME NEW n \in DOMAIN disputes, ResolveDispute(n) PROVE FALSE
    <3>1. ResolveOpen(n) => disputes[n].status = "open"
      BY ONLY DEF ResolveOpen
    <3>2. ResolveDecided(n) => disputes[n].status = "decided"
      BY ONLY DEF ResolveDecided
    <3>3. ResolveAppealed(n) => disputes[n].status = "appealed"
      BY ONLY DEF ResolveAppealed
    <3>4. disputes[n].status \in {"open", "decided", "appealed"}
      BY ONLY <2>1, <3>1, <3>2, <3>3 DEF ResolveDispute
    <3> QED
      BY ONLY <1>3, <3>4
  <2>2. ASSUME NEW acct, NEW n \in DOMAIN disputes, Appeal(acct, n)
        PROVE  FALSE
    <3>1. disputes[n].status = "decided"
      BY <2>2 DEF Appeal
    <3> QED
      BY <1>3, <3>1
  <2>3. \A acct, id, v, tier : ~Dispute(acct, id, v, tier)
    BY DEF Dispute, Disputable
  <2>4. \A at : ~ReopenOneOff(at)
    BY <1>1 DEF ReopenOneOff
  <2> QED
    BY <2>1, <2>2, <2>3, <2>4 DEF DisputeOps
<1>8. ~FeedOps
  BY <1>1 DEF FeedOps, ProposeFeed, ActivateFeed, DeprecateFeed, UpdateFeed, PruneRounds, PruneFeed, RetentionPassed
<1>9. ASSUME FundingOps PROVE Emptied'
  <2>1. CASE ForwardFees
    <3> DEFINE st == [Store EXCEPT !.held.feesPending = 0]
    <3>1. Aside(st, Store) /\ DOMAIN st.held = Categories
      <4>1. /\ DOMAIN st = Tables /\ st.feed = Store.feed /\ st.providers = Store.providers
            /\ st.held = [Store.held EXCEPT !.feesPending = 0]
        BY <1>4 DEF Tables
      <4> HIDE DEF st
      <4>2. IsBooks(st.held) /\ DOMAIN st.held = Categories
        BY <1>4, <4>1 DEF IsBooks
      <4> QED
        BY <4>1, <4>2 DEF Aside
    <3>2. Commit(Send(st, held.feesPending))
      BY <2>1 DEF ForwardFees
    <3> HIDE DEF st
    <3>3. Aside(Send(st, held.feesPending), st)
      BY <3>1, SendAside DEF Aside
    <3>4. Aside(Send(st, held.feesPending), Store)
      BY <3>1, <3>3 DEF Aside
    <3> QED
      BY <3>2, <3>4, AsideCommitted
  <2>2. CASE PlainTransfer
    BY <1>4, <2>2, ReceiveAside, AsideCommitted DEF PlainTransfer
  <2>3. ASSUME NEW acct, DepositFor(acct) PROVE Emptied'
    <3>1. PICK sent : Commit(CreditDeposit(Receive(Store, sent), acct, sent))
      BY <2>3 DEF DepositFor
    <3>2. Aside(CreditDeposit(Receive(Store, sent), acct, sent), Receive(Store, sent))
      BY <1>4, ReceiveAside, CreditDepositAside DEF Aside
    <3>3. Aside(CreditDeposit(Receive(Store, sent), acct, sent), Store)
      BY <1>4, <3>2, ReceiveAside DEF Aside
    <3> QED
      BY <3>1, <3>3, AsideCommitted
  <2>4. ASSUME NEW acct, WithdrawCredit(acct) PROVE Emptied'
    BY <1>4, <2>4, CreditWithdrawAside, AsideCommitted DEF WithdrawCredit
  <2> QED
    BY <1>1, <1>9, <2>1, <2>2, <2>3, <2>4
    DEF FundingOps, Sponsor, SubscribeRealm, SubscribeFree, FundBounty, SubscribeFromCredit
<1>10. ASSUME UNCHANGED tables PROVE Emptied'
  BY <1>10 DEF tables, Emptied
<1> QED
  BY <1>5, <1>6, <1>7, <1>8, <1>9, <1>10 DEF Next, Tick, vars

\* The prune that ends a feed takes all it has.
LEMMA PruneEmpties ==
  ASSUME Coining, PruneFeed
  PROVE  Emptied'
<1> DEFINE ready == { p \in Providers : providers[p].status = "unbonding" /\ now >= providers[p].unbondReadyAt }
           settled == SettleProviders(Store, ready)
           swept == FeedPoolToFees(settled)
           empty == {swept.feed.pool, swept.feed.penaltyCarry, swept.feed.deposit, swept.feed.prepaid} = {0}
           checked == Require(swept, empty)
           gone == [checked EXCEPT !.feed.status = "pruned", !.slotlog = {}]
<1>1. Commit(gone)
  BY DEF PruneFeed
<1>2. \A p \in Providers : Store.providers[p].stake = 0 /\ (p \in ready \/ Store.providers[p].unbondAmount = 0)
  BY StoreBalanced DEF PruneFeed
<1>3. ready \in SUBSET Providers
  OBVIOUS
<1> HIDE DEF ready
<1>4. Booked(settled)
  BY <1>2, <1>3, StoreBalanced, SettleProvidersMoves DEF Moves
<1>5. settled.providers = [p \in Providers |-> NoProvider]
  BY StoreBalanced DEF SettleProviders, Send, Require, Booked, Amounts, Tables
<1> HIDE DEF settled
<1>6. Booked(swept) /\ swept.providers = settled.providers /\ IsBooks(swept.held)
  <2>1. Booked(swept)
    BY <1>4, FeedPoolToFeesMoves DEF Moves
  <2>2. DOMAIN settled = Tables /\ DOMAIN settled.held = Categories
    BY <1>4 DEF Booked, Amounts, HeldAmounts
  <2> DEFINE amount == settled.feed.pool + settled.feed.penaltyCarry
  <2>3. /\ swept.providers = settled.providers
        /\ swept.held = [settled.held EXCEPT !.pools = @ - amount, !.feesPending = @ + amount]
    BY <2>2 DEF FeedPoolToFees, Tables
  <2> HIDE DEF swept, amount
  <2>4. IsBooks(swept.held)
    BY <2>2, <2>3 DEF IsBooks
  <2> QED
    BY <2>1, <2>3, <2>4
<1>7. DOMAIN swept = Tables /\ DOMAIN swept.feed = FeedFields
  BY <1>6 DEF Booked, Amounts, FeedAmounts
<1> HIDE DEF swept, empty
<1>8. /\ DOMAIN checked = Tables /\ checked.feed = swept.feed /\ checked.providers = swept.providers
      /\ checked.held = swept.held /\ checked.ok = (swept.ok /\ empty)
  BY <1>7 DEF Require, Tables
<1> HIDE DEF checked
<1>9. gone.ok = checked.ok
  BY <1>8 DEF Tables
<1>10. empty
  <2>1. gone.ok
    BY <1>1 DEF Commit
  <2>2. swept.ok /\ empty
    BY <1>8, <1>9, <2>1
  <2> QED
    BY <2>2
<1>11. swept.feed.pool = 0 /\ swept.feed.penaltyCarry = 0 /\ swept.feed.deposit = 0 /\ swept.feed.prepaid = 0
  BY <1>10 DEF empty
<1>12. /\ gone.feed = [swept.feed EXCEPT !.status = "pruned"]
       /\ gone.providers = [p \in Providers |-> NoProvider] /\ gone.held = swept.held
  BY <1>5, <1>6, <1>8 DEF Tables
<1> HIDE DEF gone
<1>13. /\ feed' = [swept.feed EXCEPT !.status = "pruned"]
       /\ providers' = [p \in Providers |-> NoProvider] /\ held' = swept.held
  BY <1>1, <1>12 DEF Commit
<1>14. feed'.pool = 0 /\ feed'.penaltyCarry = 0 /\ feed'.deposit = 0 /\ feed'.prepaid = 0
  BY <1>7, <1>11, <1>13 DEF FeedFields, NoFeed
<1>15. \A p \in Providers : providers'[p].status = "none"
  BY <1>13 DEF NoProvider
<1> QED
  BY <1>6, <1>13, <1>14, <1>15 DEF Emptied

LEMMA StepEmptied ==
  ASSUME Coining, Recording, Seating, Emptied, [Next]_vars
  PROVE  Emptied'
<1>1. CASE feed.status = "pruned"
  BY <1>1, GoneStays
<1>2. CASE feed.status # "pruned"
  <2>1. Lasting \/ PruneFeed
    BY StepRecording
  <2> QED
    BY <1>2, <2>1, PruneEmpties DEF Lasting, Emptied
<1> QED
  BY <1>1, <1>2


-----------------------------------------------------------------------------
(* The coins of the realm, always. *)

LEMMA InitCoins ==
  ASSUME Init
  PROVE  Coining /\ Emptied /\ Surplus = 0
<1> DEFINE t == Store
<1>1. /\ DOMAIN t = Tables /\ t.feed = NoFeed /\ t.disputes = << >> /\ t.held = NothingHeld /\ t.balance = 0
      /\ t.providers = [p \in Providers |-> NoProvider] /\ t.credits = [a \in Accounts |-> 0]
      /\ feed = NoFeed /\ held = NothingHeld /\ balance = 0
  BY DEF Init, Installed, NewStore, Store, Tables
<1> HIDE DEF t
<1>2. FeedAmounts(NoFeed) /\ NoFeed.deposit = 0 /\ NoFeed.prepaid = 0 /\ NoFeed.pool = 0 /\ NoFeed.penaltyCarry = 0
  BY AmountsAssumption DEF FeedAmounts, FeedFields, NoFeed
<1>3. Purse(NoProvider) /\ NoProvider.stake = 0 /\ NoProvider.unbondAmount = 0 /\ NoProvider.rewards = 0
  BY DEF Purse, ProviderFields, NoProvider
<1>4. HeldAmounts(NothingHeld) /\ HeldTotal(NothingHeld) = 0
  BY DEF HeldAmounts, HeldTotal, Categories, NothingHeld
<1>5. Amounts(t)
  BY <1>1, <1>2, <1>3, <1>4 DEF Amounts
<1>6. IsFiniteSet(Providers) /\ IsFiniteSet(Accounts)
  BY ConstantsAssumption, AmountsAssumption
<1>7. StakesOf(t.providers) = 0 /\ UnbondsOf(t.providers) = 0 /\ RewardsOf(t.providers) = 0
  <2>1. \A p \in Providers : /\ t.providers[p].stake = 0 /\ t.providers[p].unbondAmount = 0
                             /\ t.providers[p].rewards = 0
    BY <1>1, <1>3
  <2> QED
    BY <1>6, <2>1, SumOfNothing DEF StakesOf, UnbondsOf, RewardsOf
<1>8. SumFunction(t.credits) = 0
  BY <1>1, <1>6, SumOfNothing
<1>9. Booked(t)
  BY <1>1, <1>2, <1>5, <1>7, <1>8 DEF Booked, NothingHeld
<1>10. t.disputes \in Seq({}) /\ DOMAIN t.disputes = {}
  BY <1>1
<1>11. Pledges(t.disputes) /\ BondsOf(t.disputes) = 0
  <2>1. IsSequence(t.disputes)
    BY <1>10, SequenceOf
  <2> QED
    BY <1>10, <2>1, SumNothing DEF Pledges, BondsOf
<1>12. Balanced(t)
  BY <1>1, <1>9, <1>11 DEF Balanced, NothingHeld
<1>13. Surplus = 0
  BY <1>1, <1>4 DEF Surplus
<1>14. Emptied
  BY <1>1 DEF Emptied, NoFeed
<1> QED
  BY <1>12, <1>13, <1>14 DEF Coining, t

LEMMA StepCoins ==
  ASSUME Coining, Recording, Seating, [Next]_vars
  PROVE  Coining' /\ (Surplus' = Surplus \/ PlainTransfer)
<1>1. ASSUME UNCHANGED tables
      PROVE  Coined
  <2>1. Store' = Store /\ Surplus' = Surplus
    BY <1>1 DEF Store, Surplus, tables
  <2> QED
    BY <2>1 DEF Coined, Coining
<1> QED
  BY <1>1, ProviderOpsCoined, RoundOpsCoined, DisputeOpsCoined, FeedOpsCoined, FundingOpsCoined
  DEF Next, Tick, vars, Coined

\* The bonds that wait, as a sum over the disputes that run.
LEMMA BondsOfRunning ==
  ASSUME Coining
  PROVE  BondsOf(disputes) = BondsAtStake
<1> DEFINE pledged == [d \in UnresolvedOnes |-> disputes[d].bond + disputes[d].appealBond]
           pending == [n \in DOMAIN disputes |-> Pending(disputes[n])]
<1>1. Pledges(disputes)
  BY StoreBalanced DEF Balanced
<1>2. IsFiniteSet(DOMAIN disputes) /\ UnresolvedOnes \in SUBSET DOMAIN disputes
  BY <1>1, SequenceDomain DEF Pledges, UnresolvedOnes
<1>3. pledged \in [UnresolvedOnes -> Int]
  BY <1>1 DEF Pledges, DisputeAmounts, UnresolvedOnes
<1>4. \A n \in DOMAIN disputes : pending[n] = IF n \in UnresolvedOnes THEN pledged[n] ELSE 0
  BY DEF Pending, UnresolvedOnes
<1>5. DOMAIN pending = DOMAIN disputes
  OBVIOUS
<1> HIDE DEF pledged, pending
<1>6. SumFunction(pending) = SumFunction(pledged)
  BY <1>2, <1>3, <1>4, <1>5, SumPart
<1> QED
  BY <1>6 DEF BondsOf, BondsAtStake, pledged, pending

LEMMA BooksMatch ==
  ASSUME Coining
  PROVE  HeldMatchesRecords
<1>1. 0 <= held.bonds /\ held.bonds <= BondsAtStake /\ (SharesFit => held.bonds = BondsAtStake)
  BY BondsOfRunning, StoreBalanced DEF Balanced
<1>2. Booked(Store) /\ Store.held = held /\ Store.feed = feed /\ Store.providers = providers /\ Store.credits = credits
  BY StoreBalanced DEF Store
<1> QED
  BY <1>1, <1>2 DEF HeldMatchesRecords, SumOverProviders, Booked, StakesOf, UnbondsOf, RewardsOf

LEMMA NothingLeft ==
  ASSUME Coining, Recording, Emptied
  PROVE  NothingLeftBehind
<1> SUFFICES ASSUME feed.status = "pruned"
             PROVE  held = [NothingHeld EXCEPT !.credits = held.credits, !.feesPending = held.feesPending]
  BY DEF NothingLeftBehind
<1>1. /\ \A p \in Providers : providers[p].status = "none"
      /\ feed.pool = 0 /\ feed.penaltyCarry = 0 /\ feed.deposit = 0 /\ feed.prepaid = 0
      /\ IsBooks(held)
  BY DEF Emptied
<1>2. HeldMatchesRecords
  BY BooksMatch
<1>3. \A p \in Providers : providers[p].stake = 0 /\ providers[p].unbondAmount = 0 /\ providers[p].rewards = 0
  BY <1>1, StoreBalanced DEF Booked, Amounts, Purse
<1>4. held.stakes = 0 /\ held.unbonding = 0 /\ held.rewards = 0
  BY <1>2, <1>3, SumOfNothing, ConstantsAssumption DEF HeldMatchesRecords, SumOverProviders
<1>5. held.pools = 0 /\ held.deposits = 0
  BY <1>1, <1>2 DEF HeldMatchesRecords
<1>6. held.bonds = 0
  <2>1. UnresolvedOnes = {}
    BY StoreOnRecord DEF OnRecord, LogSound, Running, UnresolvedOnes
  <2>2. BondsAtStake = 0
    BY <2>1, SumNothing DEF BondsAtStake
  <2>3. 0 <= held.bonds /\ held.bonds <= 0 /\ held.bonds \in Int
    BY <1>2, <2>2, StoreBalanced DEF HeldMatchesRecords, Booked, Amounts, HeldAmounts
  <2> QED
    BY ONLY <2>3
<1> DEFINE e == [NothingHeld EXCEPT !.credits = held.credits, !.feesPending = held.feesPending]
<1>7. /\ e = [c \in Categories |-> e[c]]
      /\ e.stakes = 0 /\ e.unbonding = 0 /\ e.rewards = 0 /\ e.pools = 0 /\ e.deposits = 0 /\ e.bonds = 0
      /\ e.credits = held.credits /\ e.feesPending = held.feesPending
  BY DEF NothingHeld, Categories
<1>8. Categories = {"stakes", "unbonding", "credits", "pools", "rewards", "bonds", "feesPending", "deposits"}
  BY DEF Categories, NothingHeld
<1> HIDE DEF e
<1>9. \A c \in Categories : held[c] = e[c]
  BY <1>4, <1>5, <1>6, <1>7, <1>8
<1> QED
  BY <1>1, <1>7, <1>9 DEF IsBooks, e

\* The coins of the realm are conserved, for every set of providers and accounts and all prices,
\* shares and roundings: the books are always the sum of the records, only coins sent past the
\* entry points change what the realm has beyond its books, and a feed that is gone has left nothing
\* in them.  The bonds alone may be less than the records say, never below nothing, and only where
\* the shares of a forfeit are set to more than the whole, which core/params.gno allows.
THEOREM CoinsAlwaysConserved == Spec => CoinsConserved
<1>1. Init => (Coining /\ Recording /\ Seating /\ Emptied) /\ HeldMatchesRecords /\ Surplus = 0
  BY InitCoins, InitRecording, InitSeats, BooksMatch
<1>2. (Coining /\ Recording /\ Seating /\ Emptied) /\ [Next]_vars => (Coining /\ Recording /\ Seating /\ Emptied)'
  BY StepCoins, StepRecording, StepSeats, StepEmptied
<1>3. (Coining /\ Recording /\ Seating /\ Emptied) => HeldMatchesRecords /\ NothingLeftBehind
  BY BooksMatch, NothingLeft
<1>4. (Coining /\ Recording /\ Seating /\ Emptied) /\ [Next]_vars => (Surplus' = Surplus \/ PlainTransfer)
  BY StepCoins
<1> QED
  BY <1>1, <1>2, <1>3, <1>4, PTL DEF Spec, CoinsConserved


-----------------------------------------------------------------------------
(* The realm can pay. *)

\* What the realm has covers its books.
Covered(st) == Booked(st) /\ Spare(st) >= 0 /\ st.held.bonds \in Nat

LEMMA BalancedCovers ==
  ASSUME NEW st, Balanced(st), Spare(st) >= 0
  PROVE  Covered(st)
BY SpareIsInt DEF Balanced, Covered

\* No category is ever short, so a covered realm owes nobody more than it has.
LEMMA BalanceIsNat ==
  ASSUME NEW st, Covered(st)
  PROVE  st.balance \in Nat
<1>1. /\ Purses(st.providers) /\ FeedAmounts(st.feed) /\ st.credits \in [Accounts -> Nat]
      /\ st.balance \in Int /\ HeldAmounts(st.held)
  BY DEF Covered, Booked, Amounts, Purses
<1>2. st.held.stakes \in Nat /\ st.held.unbonding \in Nat /\ st.held.rewards \in Nat
  BY <1>1, PurseSums DEF Covered, Booked
<1>3. st.held.credits \in Nat
  BY <1>1, SumNat, AmountsAssumption DEF Covered, Booked
<1>4. st.held.pools \in Nat /\ st.held.deposits \in Nat
  BY <1>1 DEF Covered, Booked, FeedAmounts
<1>5. st.held.bonds \in Nat /\ st.held.feesPending \in Nat
  BY <1>1 DEF Covered, HeldAmounts
<1>6. HeldTotal(st.held) \in Nat
  BY <1>2, <1>3, <1>4, <1>5 DEF HeldTotal
<1>7. st.balance - HeldTotal(st.held) >= 0
  BY DEF Covered, Spare
<1> QED
  BY <1>1, <1>6, <1>7

\* A payment that leaves the realm covered is made.
LEMMA SendPays ==
  ASSUME NEW st, NEW amount \in Nat, st.balance \in Int, DOMAIN st = Tables, Covered(Send(st, amount)), st.ok = TRUE
  PROVE  Send(st, amount).ok = TRUE
<1>1. Send(st, amount).balance \in Nat
  BY BalanceIsNat
<1>2. CASE amount > 0
  <2> DEFINE t == Require(st, amount <= st.balance)
  <2>1. DOMAIN t = Tables /\ t.balance = st.balance /\ t.ok = (st.ok /\ amount <= st.balance)
    BY DEF Require, Tables
  <2> HIDE DEF t
  <2>2. Send(st, amount) = [t EXCEPT !.balance = @ - amount]
    BY <1>2 DEF Send, t
  <2>3. Send(st, amount).balance = st.balance - amount /\ Send(st, amount).ok = t.ok
    BY <2>1, <2>2 DEF Tables
  <2>4. amount <= st.balance
    BY <1>1, <2>3
  <2> QED
    BY <2>1, <2>3, <2>4
<1>3. CASE ~(amount > 0)
  BY <1>3 DEF Send
<1> QED
  BY <1>2, <1>3

LEMMA CoveredOn ==
  ASSUME NEW st, NEW t, Covered(st), Moves(t, st, 0, 0)
  PROVE  Covered(t)
BY SpareIsInt DEF Covered, Moves


LEMMA UnbondIsPaid ==
  ASSUME NEW st, NEW p \in Providers, Covered(st), st.ok = TRUE
  PROVE  Covered(ProviderPayUnbonded(st, p)) /\ ProviderPayUnbonded(st, p).ok = TRUE
<1> DEFINE amount == st.providers[p].unbondAmount
           t == [st EXCEPT !.providers[p].unbondAmount = 0, !.held.unbonding = @ - amount]
<1>1. Booked(st) /\ DOMAIN st = Tables
  BY DEF Covered, Booked, Amounts
<1>2. DOMAIN t = Tables /\ t.balance = st.balance /\ t.ok = TRUE
  BY <1>1 DEF Tables
<1>3. amount \in Nat /\ st.balance \in Int
  BY <1>1 DEF Booked, Amounts, Purse
<1> HIDE DEF t, amount
<1>4. Covered(ProviderPayUnbonded(st, p))
  BY <1>1, ProviderPayUnbondedMoves, CoveredOn
<1>5. ProviderPayUnbonded(st, p) = Send(t, amount)
  BY DEF ProviderPayUnbonded, t, amount
<1> QED
  BY <1>2, <1>3, <1>4, <1>5, SendPays

LEMMA RewardIsPaid ==
  ASSUME NEW st, NEW p \in Providers, Covered(st), st.ok = TRUE
  PROVE  Covered(RewardPay(st, p)) /\ RewardPay(st, p).ok = TRUE
<1> DEFINE amount == st.providers[p].rewards
           t == [st EXCEPT !.providers[p].rewards = 0, !.held.rewards = @ - amount]
<1>1. Booked(st) /\ DOMAIN st = Tables
  BY DEF Covered, Booked, Amounts
<1>2. DOMAIN t = Tables /\ t.balance = st.balance /\ t.ok = TRUE
  BY <1>1 DEF Tables
<1>3. amount \in Nat /\ st.balance \in Int
  BY <1>1 DEF Booked, Amounts, Purse
<1> HIDE DEF t, amount
<1>4. Covered(RewardPay(st, p))
  BY <1>1, RewardPayMoves, CoveredOn
<1>5. RewardPay(st, p) = Send(t, amount)
  BY DEF RewardPay, t, amount
<1> QED
  BY <1>2, <1>3, <1>4, <1>5, SendPays

LEMMA ExitPays ==
  ASSUME Coining, Surplus >= 0
  PROVE  ExitNeverPanics
<1> SUFFICES ASSUME NEW p \in Providers, providers[p].status = "unbonding"
             PROVE  ProviderDelete(RewardPay(ProviderPayUnbonded(Store, p), p), p).ok
  BY DEF ExitNeverPanics
<1> DEFINE a == ProviderPayUnbonded(Store, p)
           b == RewardPay(a, p)
<1>1. Covered(Store) /\ Store.ok = TRUE /\ Store.providers = providers
  <2>1. Balanced(Store) /\ Booked(Store) /\ Spare(Store) >= 0 /\ Store.providers = providers
    BY StoreBalanced
  <2>2. Store.ok = TRUE
    BY DEF Store
  <2> QED
    BY <2>1, <2>2, BalancedCovers
<1>2. Booked(Store) /\ Store.providers[p].stake = 0
  BY <1>1 DEF Covered, Booked, Amounts, Purse
<1>3. /\ Covered(a) /\ a.ok = TRUE /\ Booked(a)
      /\ a.providers[p].unbondAmount = 0 /\ a.providers[p].stake = 0
  BY <1>1, <1>2, UnbondIsPaid, UnbondPaid DEF Covered
<1> HIDE DEF a
<1>4. /\ Covered(b) /\ b.ok = TRUE
      /\ b.providers[p].unbondAmount = 0 /\ b.providers[p].stake = 0 /\ b.providers[p].rewards = 0
  BY <1>3, RewardIsPaid, RewardPaid
<1>5. DOMAIN b = Tables
  BY <1>4 DEF Covered, Booked, Amounts
<1> HIDE DEF b
<1>6. ProviderDelete(b, p).ok = TRUE
  BY <1>4, <1>5 DEF ProviderDelete, Require, Tables
<1> QED
  BY <1>6 DEF a, b

\* Coins sent past the entry points only add to what the realm has beyond its books.
LEMMA TransferAdds ==
  ASSUME Coining, PlainTransfer, Surplus >= 0
  PROVE  Surplus' >= 0
<1>1. PICK amount \in Given : Commit(Receive(Store, amount))
  BY DEF PlainTransfer
<1>2. amount \in Nat /\ -amount \in Int /\ amount \in Int
  BY GivenIsNat
<1>3. Moves(Receive(Store, amount), Store, -amount, 0)
  BY <1>2, StoreBalanced, ReceiveMoves
<1>4. Balances(Receive(Store, amount), Store, -amount)
  BY <1>2, <1>3, StoreBalanced, MovesBalances
<1>5. Surplus' = Surplus - (-amount)
  BY <1>1, <1>2, <1>4, CoinsCommitted
<1> QED
  BY <1>2, <1>5, StoreBalanced

\* No provider that waited out its unbonding is ever held back by a panic, whatever was slashed, paid
\* or rounded before: the realm always has what it owes, and the record that goes is empty.
THEOREM ExitsNeverPanic == Spec => []ExitNeverPanics
<1>1. Init => Coining /\ Recording /\ Seating /\ Surplus >= 0
  BY InitCoins, InitRecording, InitSeats
<1>2. (Coining /\ Recording /\ Seating /\ Surplus >= 0) /\ [Next]_vars => (Coining /\ Recording /\ Seating /\ Surplus >= 0)'
  BY StepCoins, StepRecording, StepSeats, TransferAdds
<1>3. (Coining /\ Recording /\ Seating /\ Surplus >= 0) => ExitNeverPanics
  BY ExitPays
<1> QED
  BY <1>1, <1>2, <1>3, PTL DEF Spec

-----------------------------------------------------------------------------
(***************************************************************************)
(* No handler of the core realm that must go through can be stopped by a   *)
(* panic: the next round can be closed, and a dispute resolved.            *)
(*                                                                         *)
(* A handler panics where an operator asks for what does not hold.  What   *)
(* operators ask is of three kinds: that a payment is covered, which the   *)
(* books answer (the realm has at least what they say); that a slot which  *)
(* is cleared is occupied, which the seating answers; and that a round or  *)
(* a dispute is on record, which the record answers.                       *)
(***************************************************************************)

\* No operator has panicked so far, and the realm has what its books say.
Able(st) == st.ok = TRUE /\ Covered(st)

\* It has amount in bonds, at the least.
Bonded(st, amount) == Able(st) /\ amount <= st.held.bonds

LEMMA AbleBooked ==
  ASSUME NEW st, Able(st)
  PROVE  /\ Booked(st) /\ DOMAIN st = Tables /\ DOMAIN st.feed = FeedFields /\ st.balance \in Int
         /\ st.held.bonds \in Nat
BY DEF Able, Covered, Booked, Amounts, FeedAmounts

LEMMA AbleOn ==
  ASSUME NEW st, NEW t, Able(st), Moves(t, st, 0, 0), t.ok = TRUE
  PROVE  Able(t)
BY CoveredOn DEF Able

LEMMA BondedOn ==
  ASSUME NEW st, NEW t, NEW a \in Nat, NEW b \in Nat, Bonded(st, a + b), Moves(t, st, 0, a), t.ok = TRUE
  PROVE  Bonded(t, b)
BY SpareIsInt DEF Bonded, Able, Covered, Moves

LEMMA RequireAble ==
  ASSUME NEW st, NEW cond, cond, Able(st)
  PROVE  Able(Require(st, cond))
<1>1. Require(st, cond).ok = TRUE
  BY AbleBooked DEF Require, Tables, Able
<1> QED
  BY <1>1, AbleBooked, RequireMoves, AbleOn

\* Where nothing is asked.
LEMMA QuietOps ==
  ASSUME NEW st, Able(st)
  PROVE  /\ \A id, rd : PutRound(st, id, rd).ok = TRUE
         /\ \A id, status, tier, v : RoundFinalise(st, id, status, tier, v).ok = TRUE
         /\ \A id : FeedSetCursor(st, id).ok = TRUE
         /\ \A id, v, tier : FeedSetValue(st, id, v, tier).ok = TRUE
         /\ \A n : [st EXCEPT !.feed.emptyStreak = n].ok = TRUE
         /\ \A status : FeedSetStatus(st, status).ok = TRUE
         /\ EmptyClosed(st).ok = TRUE
         /\ FeedPromoteFinal(st).ok = TRUE
         /\ FeedPoolToFees(st).ok = TRUE
         /\ FundingStatus(st).ok = TRUE
         /\ \A who, readyAt : ProviderStartUnbond(st, who, readyAt).ok = TRUE
<1> USE AbleBooked DEF Able, Tables
<1>1. \A id, rd : PutRound(st, id, rd).ok = TRUE
  BY DEF PutRound
<1>2. \A id, status, tier, v : RoundFinalise(st, id, status, tier, v).ok = TRUE
  BY <1>1 DEF RoundFinalise
<1>3. \A id : FeedSetCursor(st, id).ok = TRUE
  BY DEF FeedSetCursor
<1>4. \A id, v, tier : FeedSetValue(st, id, v, tier).ok = TRUE
  BY DEF FeedSetValue
<1>5. \A n : [st EXCEPT !.feed.emptyStreak = n].ok = TRUE
  OBVIOUS
<1>6. \A status : FeedSetStatus(st, status).ok = TRUE
  BY DEF FeedSetStatus
<1>7. EmptyClosed(st).ok = TRUE
  BY DEF EmptyClosed
<1>8. FeedPromoteFinal(st).ok = TRUE
  BY DEF FeedPromoteFinal, SetFinal
<1>9. FeedPoolToFees(st).ok = TRUE
  BY DEF FeedPoolToFees
<1>10. FundingStatus(st).ok = TRUE
  BY <1>6 DEF FundingStatus
<1>11. \A who, readyAt : ProviderStartUnbond(st, who, readyAt).ok = TRUE
  BY DEF ProviderStartUnbond
<1> QED
  BY <1>1, <1>2, <1>3, <1>4, <1>5, <1>6, <1>7, <1>8, <1>9, <1>10, <1>11

-----------------------------------------------------------------------------
(* Slots. *)

LEMMA ClearAble ==
  ASSUME NEW st, NEW cleared, NEW from, Able(st), \A s \in cleared : st.slots[s] # NoOne
  PROVE  Able(FeedClearSlots(st, cleared, from))
<1> DEFINE asked == \A s \in cleared : st.slots[s] # NoOne
           r == Require(st, asked)
<1>1. Able(r)
  BY RequireAble
<1>2. FeedClearSlots(st, cleared, from).ok = r.ok
  BY AbleBooked DEF FeedClearSlots, Require, Tables
<1>3. Moves(FeedClearSlots(st, cleared, from), st, 0, 0)
  BY AbleBooked, FeedClearSlotsMoves
<1> HIDE DEF r
<1> QED
  BY <1>1, <1>2, <1>3, AbleOn DEF Able

LEMMA LeaveAble ==
  ASSUME NEW st, NEW who \in SUBSET Providers, Able(st), Seated(st)
  PROVE  Able(Leave(st, who))
<1> DEFINE cleared == { st.providers[p].slot : p \in { q \in who : st.providers[q].status = "active" } }
           emptied == FeedClearSlots(st, cleared, ObligedFrom(st.feed))
<1>1. cleared = { s \in Slots : st.slots[s] \in who }
  BY SeatsOfRecord
<1>2. \A s \in cleared : st.slots[s] # NoOne
  BY <1>1, ConstantsAssumption
<1> HIDE DEF cleared
<1>3. Able(emptied)
  BY <1>2, ClearAble
<1> HIDE DEF emptied
<1>4. ProviderStartUnbond(emptied, who, now + Param.unbondPeriod).ok = TRUE
  BY <1>3, QuietOps
<1>5. Leave(st, who) = ProviderStartUnbond(emptied, who, now + Param.unbondPeriod)
  BY DEF Leave, emptied, cleared
<1>6. Moves(Leave(st, who), st, 0, 0)
  BY AbleBooked, LeaveMoves
<1> QED
  BY <1>4, <1>5, <1>6, AbleOn

LEMMA AfterEmptyAble ==
  ASSUME NEW st, Able(st), Seated(st)
  PROVE  Able(AfterEmpty(st))
<1> DEFINE t == FeedPoolToFees(st)
           who == { p \in Providers : t.providers[p].status \in {"active", "jailed"} }
           u == Leave(t, who)
<1>1. Able(t) /\ Seated(t)
  BY AbleBooked, FeedPoolToFeesMoves, QuietOps, AbleOn, FeedPoolToFeesKeeps, SeatingKept, SeatedShaped
<1>2. Retire(t) = FeedSetStatus(u, "deprecated") /\ who \in SUBSET Providers
  BY DEF Retire
<1> HIDE DEF t, who
<1>3. Able(u)
  BY <1>1, <1>2, LeaveAble
<1> HIDE DEF u
<1>4. Able(FeedSetStatus(u, "deprecated"))
  BY <1>3, AbleBooked, FeedSetStatusMoves, QuietOps, AbleOn
<1> QED
  BY <1>2, <1>4 DEF AfterEmpty, t

-----------------------------------------------------------------------------
(* Closing a round. *)

\* Whoever is jailed sits in the slot that is cleared, and what an alert earns was taken.
LEMMA LivenessAble ==
  ASSUME NEW st, NEW id, NEW agg, NEW funded, Able(st), HeldByProviders(st, id)
  PROVE  Able(Liveness(st, id, agg, funded))
<1> DEFINE
      seat == SeatHeld(st, id)
      owing == DOMAIN seat
      submitted == DOMAIN GetRound(st, id).subs
      verdict == Sentences(st, id, agg, funded, seat)
      cleared == { seat[p] : p \in { q \in owing : verdict[q].jailed } }
      fromStake == SumFunction([p \in owing |-> verdict[p].fromStake])
      fromUnbond == SumFunction([p \in owing |-> verdict[p].fromUnbond])
      moved == SumFunction([p \in owing |-> verdict[p].moved])
      earned == [p \in owing |-> MulBps(verdict[p].fromStake + verdict[p].fromUnbond, Param.alerterShareBps)]
      alert == SumFunction(earned)
      judged == [st EXCEPT
        !.providers = [p \in Providers |-> IF p \in owing THEN verdict[p].rec ELSE st.providers[p]],
        !.feed.penaltyCarry = @ + (fromStake + fromUnbond - alert),
        !.held.pools = @ + (fromStake + fromUnbond - alert),
        !.held.stakes = @ - fromStake - moved,
        !.held.unbonding = @ - fromUnbond + moved]
      emptied == FeedClearSlots(judged, cleared, id + 1)
<1>1. Liveness(st, id, agg, funded) = Send(emptied, alert)
  <2> HIDE DEF verdict, seat
  <2>1. Liveness(st, id, agg, funded) = Enforce(st, id, seat, verdict)
    BY DEF Liveness, Judged, verdict, seat
  <2> QED
    BY <2>1 DEF Enforce
<1>2. owing \subseteq Providers
  <2>1. owing = { ObligedHolder(st, s, id) : s \in ObligedSlots(st, id) }
    BY DEF SeatHeld
  <2> QED
    BY <2>1, ObligedIsProvider DEF ObligedSlots
<1> HIDE DEF seat, submitted
<1>3. \A p \in owing :
        LET j == Judge(st.providers[p], id, seat[p] \in submitted, agg.ok /\ seat[p] \notin agg.eligible, funded) IN
        /\ verdict[p] = Sentenced(j, st.slots[seat[p]] = p, seat[p] \in submitted)
        /\ Cut(j, st.providers[p])
  BY <1>2, JudgeCut DEF Sentences, submitted, Booked, Amounts, Able, Covered
<1> HIDE DEF verdict
<1>4. \A p \in owing :
        /\ verdict[p].fromStake \in Nat /\ verdict[p].fromUnbond \in Nat
        /\ verdict[p].jailed => st.slots[seat[p]] = p
  <2> SUFFICES ASSUME NEW p \in owing
               PROVE  /\ verdict[p].fromStake \in Nat /\ verdict[p].fromUnbond \in Nat
                      /\ verdict[p].jailed => st.slots[seat[p]] = p
    OBVIOUS
  <2> DEFINE j == Judge(st.providers[p], id, seat[p] \in submitted, agg.ok /\ seat[p] \notin agg.eligible, funded)
             sits == st.slots[seat[p]] = p
             stays == ~(sits /\ IsJailed(j.rec, seat[p] \in submitted))
  <2>1. verdict[p] = Sentence(j, stays) /\ Cut(j, st.providers[p])
    BY <1>3 DEF Sentenced
  <2>2. ~stays => sits
    OBVIOUS
  <2> HIDE DEF j, stays
  <2>3. verdict[p].fromStake = j.fromStake /\ verdict[p].fromUnbond = j.fromUnbond /\ verdict[p].jailed = ~stays
    BY <2>1 DEF Sentence
  <2> QED
    BY <2>1, <2>2, <2>3 DEF Cut
<1>5. \A p \in owing : verdict[p].jailed => st.slots[seat[p]] = p
  BY <1>4
<1>6. \A s \in cleared : st.slots[s] # NoOne
  BY <1>2, <1>5, ConstantsAssumption
<1>7. alert \in Nat
  <2>1. \A p \in owing : earned[p] \in Nat
    <3> SUFFICES ASSUME NEW p \in owing
                 PROVE  MulBps(verdict[p].fromStake + verdict[p].fromUnbond, Param.alerterShareBps) \in Nat
      OBVIOUS
    <3>1. verdict[p].fromStake + verdict[p].fromUnbond \in Nat
      BY <1>4
    <3> QED
      BY <3>1, ShareOfAmount, AmountsAssumption
  <2>2. IsFiniteSet(owing) /\ earned \in [owing -> Nat]
    BY <1>2, <2>1, ConstantsAssumption, FS_Subset
  <2> HIDE DEF earned
  <2> QED
    BY <2>2, SumNat
<1> HIDE DEF cleared, fromStake, fromUnbond, moved, alert, earned
<1>8. DOMAIN judged = Tables /\ judged.ok = TRUE /\ judged.slots = st.slots /\ judged.balance = st.balance
  BY AbleBooked DEF Able, Tables
<1> HIDE DEF judged
<1>9. emptied.ok = TRUE /\ DOMAIN emptied = Tables /\ emptied.balance \in Int
  BY <1>6, <1>8, AbleBooked DEF FeedClearSlots, Require, Tables
<1> HIDE DEF emptied
<1>10. Moves(Send(emptied, alert), st, 0, 0)
  BY <1>1, AbleBooked, LivenessMoves
<1>11. Covered(Send(emptied, alert))
  BY <1>10, CoveredOn DEF Able
<1>12. Send(emptied, alert).ok = TRUE
  BY <1>7, <1>9, <1>11, SendPays
<1> QED
  BY <1>1, <1>11, <1>12 DEF Able

\* What the cranker is tipped leaves the pool.
LEMMA RoundPayoutAble ==
  ASSUME NEW st, NEW eligible \in SUBSET Providers, Able(st),
         \A p \in eligible : st.providers[p].status # "none"
  PROVE  Able(RoundPayout(st, eligible))
<1> DEFINE n == Cardinality(eligible)
           sh == Shares(st.feed, n)
           t == [st EXCEPT !.feed.pool = @ - sh.drip, !.feed.penaltyCarry = sh.dust,
                           !.providers = [p \in Providers |->
                              IF p \in eligible THEN [st.providers[p] EXCEPT !.rewards = @ + sh.each]
                                                ELSE st.providers[p]],
                           !.held.pools = @ - (sh.each * n + sh.tip), !.held.rewards = @ + sh.each * n]
<1>1. RoundPayout(st, eligible) = Send(t, sh.tip)
  BY DEF RoundPayout, PayShares
<1>2. n \in Nat
  BY ConstantsAssumption, FS_Subset, FS_CardinalityType
<1>3. sh.tip \in Nat
  <2>1. FeedAmounts(st.feed)
    BY AbleBooked DEF Booked, Amounts
  <2> QED
    BY <1>2, <2>1, SharesAddUp
<1> HIDE DEF n, sh
<1>4. DOMAIN t = Tables /\ t.ok = TRUE /\ t.balance \in Int
  BY AbleBooked DEF Able, Tables
<1> HIDE DEF t
<1>5. Moves(Send(t, sh.tip), st, 0, 0)
  BY <1>1, AbleBooked, RoundPayoutMoves
<1>6. Covered(Send(t, sh.tip))
  BY <1>5, CoveredOn DEF Able
<1> QED
  BY <1>1, <1>3, <1>4, <1>6, SendPays DEF Able

LEMMA ClosedAble ==
  ASSUME NEW st, NEW id, NEW agg, NEW tier, Able(st)
  PROVE  Able(Closed(st, id, agg, tier))
<1> DEFINE a == RoundFinalise(st, id, "empty", tier, agg.value)
           b == FeedSetCursor(a, id)
           c == RoundFinalise(st, id, "aggregated", tier, agg.value)
           d == FeedSetCursor(c, id)
           e == FeedSetValue(d, id, agg.value, tier)
           z == [e EXCEPT !.feed.emptyStreak = 0]
<1>1. Closed(st, id, agg, tier) = IF tier = "empty" THEN EmptyClosed(b) ELSE z
  BY DEF Closed
<1>2. Able(a) /\ Able(c)
  BY RoundFinaliseMoves, QuietOps, AbleOn, AbleBooked
<1> HIDE DEF a, c
<1>3. Able(b) /\ Able(d)
  BY <1>2, FeedSetCursorMoves, QuietOps, AbleOn, AbleBooked
<1> HIDE DEF b, d
<1>4. EmptyClosed(b).ok = TRUE /\ Able(e)
  BY <1>3, FeedSetValueMoves, QuietOps, AbleOn, AbleBooked
<1> HIDE DEF e
<1>5. z.ok = TRUE
  BY <1>4, QuietOps
<1>6. Moves(Closed(st, id, agg, tier), st, 0, 0)
  BY AbleBooked, ClosedMoves
<1> HIDE DEF z
<1> QED
  BY <1>1, <1>4, <1>5, <1>6, AbleOn

LEMMA SettledAble ==
  ASSUME NEW st, NEW id, NEW agg, NEW tier, Able(st), Seated(st), Due(st, id), HeldByProviders(st, id),
         \A s \in agg.eligible : s \in Slots /\ ObligedHolder(st, s, id) # NoOne
  PROVE  Able(Settled(st, id, agg, tier))
<1> DEFINE
      paid == IF tier = "empty" THEN {} ELSE { ObligedHolder(st, s, id) : s \in agg.eligible }
      funded == st.feed.status = "active"
      judged == Liveness(st, id, agg, funded)
      payed == RoundPayout(judged, paid)
      closed == Closed(payed, id, agg, tier)
<1>1. Settled(st, id, agg, tier) = AfterEmpty(FundingStatus(closed))
  BY DEF Settled
<1>2. paid \in SUBSET Providers /\ \A p \in paid : st.providers[p].status # "none"
  BY ObligedIsProvider
<1> HIDE DEF paid, funded
<1>3. Able(judged) /\ SameMembers(judged, st)
  BY AbleBooked, LivenessAble, LivenessMoves
<1>4. Seated(judged) /\ Due(judged, id)
  BY LivenessKeepsSeats
<1> HIDE DEF judged
<1>5. \A p \in paid : judged.providers[p].status # "none"
  BY <1>2, <1>3 DEF SameMembers
<1>6. Able(payed) /\ Seated(payed) /\ Due(payed, id)
  BY <1>2, <1>3, <1>4, <1>5, RoundPayoutAble, RoundPayoutKeeps, SeatingKept, DueKept, SeatedShaped
<1> HIDE DEF payed
<1>7. Able(closed) /\ Seated(closed)
  BY <1>6, ClosedAble, ClosedKeepsSeats
<1> HIDE DEF closed
<1>8. Able(FundingStatus(closed)) /\ Seated(FundingStatus(closed))
  BY <1>7, FundingStatusMoves, QuietOps, AbleOn, AbleBooked, FundingStatusKeepsSeats
<1> QED
  BY <1>1, <1>8, AfterEmptyAble

LEMMA FinaliseAble ==
  ASSUME NEW st, NEW id, Able(st), Seated(st), Due(st, id), HeldByProviders(st, id), GetRound(st, id).status = "open"
  PROVE  Able(Finalise(st, id))
<1> DEFINE
      isOpen == GetRound(st, id).status = "open"
      first == GetRound(st, id)
      required == Require(st, isOpen)
      put == PutRound(required, id, first)
      all == put.rounds[id].subs
      subs == [s \in DOMAIN all \cap ObligedSlots(put, id) |-> all[s]]
      agg == AggregateOf(put, id)
      promoted == Promoted(put, agg)
      tier == TierOf(promoted, agg, Cardinality(ObligedSlots(put, id)))
<1>1. Finalise(st, id) = Settled(promoted, id, agg, tier)
  BY DEF Finalise, FinaliseOnRecord, FinaliseAs
<1>2. agg.eligible \subseteq ObligedSlots(put, id)
  <2>1. agg.eligible \subseteq DOMAIN subs
    BY EligibleAnswered DEF AggregateOf
  <2> QED
    BY <2>1
<1>3. Able(required)
  BY RequireAble
<1>4. Seated(required) /\ Due(required, id)
  BY RequireKeeps, SeatingKept, DueKept, SeatedShaped
<1>5. required.slotlog = st.slotlog /\ required.providers = st.providers
  BY AbleBooked DEF Require, Tables
<1> HIDE DEF isOpen, first, agg, subs, all, required
<1>6. Able(put)
  BY <1>3, PutRoundMoves, QuietOps, AbleOn, AbleBooked
<1>7. Seated(put) /\ Due(put, id)
  BY <1>4, PutRoundKeeps, SeatingKept, DueKept, SeatedShaped
<1>8. put.slotlog = st.slotlog /\ put.providers = st.providers
  BY <1>3, <1>5, AbleBooked DEF PutRound, Tables
<1> HIDE DEF put
<1>9. Able(promoted)
  BY <1>6, FeedPromoteFinalMoves, QuietOps, AbleOn, AbleBooked DEF Promoted
<1>10. Seated(promoted) /\ Due(promoted, id)
  BY <1>7, PromotedKeepsSeats, SeatingKept, DueKept, SeatedShaped
<1>11. promoted.slotlog = put.slotlog /\ promoted.providers = put.providers
  BY <1>6, AbleBooked DEF Promoted, FeedPromoteFinal, SetFinal, Tables
<1> HIDE DEF promoted, tier
<1>12. HeldByProviders(promoted, id)
  BY <1>8, <1>11 DEF HeldByProviders
<1>13. \A s \in agg.eligible : s \in Slots /\ ObligedHolder(promoted, s, id) # NoOne
  BY <1>2, <1>11 DEF ObligedSlots, ObligedHolder
<1> QED
  BY <1>1, <1>9, <1>10, <1>12, <1>13, SettledAble

LEMMA SkipAble ==
  ASSUME NEW st, NEW id, Able(st), Seated(st), Due(st, id)
  PROVE  Able(Skip(st, id))
<1> DEFINE t == RoundFinalise(st, id, "skipped", "", 0)
           u == FeedSetCursor(t, id)
           v == EmptyClosed(u)
<1>1. Skip(st, id) = AfterEmpty(v)
  BY DEF Skip
<1>2. Able(t) /\ Seated(t) /\ Due(t, id)
  <2>1. Moves(t, st, 0, 0) /\ t.ok = TRUE
    BY RoundFinaliseMoves, QuietOps, AbleBooked
  <2>2. SameSeating(t, st)
    BY RoundFinaliseKeeps, SeatedShaped
  <2> HIDE DEF t
  <2> QED
    BY <2>1, <2>2, AbleOn, SeatingKept, DueKept
<1> HIDE DEF t
<1>3. Able(u) /\ Seated(u)
  BY <1>2, FeedSetCursorMoves, QuietOps, AbleOn, AbleBooked, CursorSet
<1> HIDE DEF u
<1>4. Able(v) /\ Seated(v)
  BY <1>3, EmptyClosedMoves, QuietOps, AbleOn, AbleBooked, EmptyClosedKeeps, SeatingKept, SeatedShaped
<1> QED
  BY <1>1, <1>4, AfterEmptyAble

-----------------------------------------------------------------------------
(* Bonds. *)

LEMMA BondReleaseAble ==
  ASSUME NEW st, NEW a \in Nat, NEW b \in Nat, Bonded(st, a + b)
  PROVE  Bonded(BondRelease(st, a), b)
<1> DEFINE r == Require(st, a <= st.held.bonds)
           t == [r EXCEPT !.held.bonds = @ - a]
           u == BondRelease(st, a)
<1>1. Able(st) /\ st.held.bonds \in Nat /\ a <= st.held.bonds
  BY AbleBooked DEF Bonded
<1>2. Moves(u, st, 0, a)
  BY <1>1, AbleBooked, BondReleaseMoves
<1>3. u.ok = TRUE
  <2>1. CASE a > 0
    <3>1. u = Send(t, a)
      BY <2>1 DEF BondRelease
    <3>2. DOMAIN t = Tables /\ t.ok = TRUE /\ t.balance \in Int
      BY <1>1, AbleBooked DEF Require, Able, Tables
    <3> HIDE DEF t, u
    <3>3. Covered(u)
      BY <1>1, <1>2, SpareIsInt DEF Able, Covered, Moves
    <3> QED
      BY <3>1, <3>2, <3>3, SendPays
  <2>2. CASE ~(a > 0)
    BY <1>1, <2>2 DEF BondRelease, Able
  <2> QED
    BY <2>1, <2>2
<1> HIDE DEF u
<1> QED
  BY <1>2, <1>3, BondedOn DEF u

LEMMA FundVotersAble ==
  ASSUME NEW st, NEW a \in Nat, NEW b \in Nat, Bonded(st, a + b)
  PROVE  Bonded(FundVoters(st, a), b)
BY BondReleaseAble DEF FundVoters

LEMMA BondToPoolAble ==
  ASSUME NEW st, NEW a \in Nat, NEW b \in Nat, Bonded(st, a + b)
  PROVE  Bonded(BondToPool(st, a), b)
<1>1. Able(st) /\ a <= st.held.bonds
  BY AbleBooked DEF Bonded
<1>2. BondToPool(st, a).ok = TRUE
  BY <1>1, AbleBooked DEF BondToPool, Require, Able, Tables
<1>3. Moves(BondToPool(st, a), st, 0, a)
  BY <1>1, AbleBooked, BondToPoolMoves
<1> QED
  BY <1>2, <1>3, BondedOn

LEMMA BondToFeesAble ==
  ASSUME NEW st, NEW a \in Nat, NEW b \in Nat, Bonded(st, a + b)
  PROVE  Bonded(BondToFees(st, a), b)
<1>1. Able(st) /\ a <= st.held.bonds
  BY AbleBooked DEF Bonded
<1>2. BondToFees(st, a).ok = TRUE
  BY <1>1, AbleBooked DEF BondToFees, Require, Able, Tables
<1>3. Moves(BondToFees(st, a), st, 0, a)
  BY <1>1, AbleBooked, BondToFeesMoves
<1> QED
  BY <1>2, <1>3, BondedOn

LEMMA ConsumeBondAble ==
  ASSUME NEW st, NEW bond \in Nat, NEW bps \in 0 .. Bps, NEW b \in Nat, Bonded(st, bond + b)
  PROVE  Bonded(ConsumeBond(st, bond, bps), b)
<1> DEFINE consumed == MulBps(bond, bps)
           half == consumed \div 2
           voted == FundVoters(st, half)
           fees == BondToFees(voted, consumed - half)
<1>1. ConsumeBond(st, bond, bps) = BondRelease(fees, bond - consumed)
  BY DEF ConsumeBond
<1>2. consumed \in Nat /\ consumed <= bond
  BY ShareOfAmount
<1> HIDE DEF consumed
<1>3. half \in Nat /\ half <= consumed
  BY <1>2
<1> HIDE DEF half
<1>4. /\ consumed - half \in Nat /\ bond - consumed \in Nat
      /\ (consumed - half) + ((bond - consumed) + b) \in Nat /\ (bond - consumed) + b \in Nat
      /\ half + ((consumed - half) + ((bond - consumed) + b)) = bond + b
  BY <1>2, <1>3
<1>5. Bonded(voted, (consumed - half) + ((bond - consumed) + b))
  BY <1>3, <1>4, FundVotersAble
<1> HIDE DEF voted
<1>6. Bonded(fees, (bond - consumed) + b)
  BY <1>4, <1>5, BondToFeesAble
<1> HIDE DEF fees
<1>7. Bonded(BondRelease(fees, bond - consumed), b)
  BY <1>4, <1>6, BondReleaseAble
<1> QED
  BY <1>1, <1>7

LEMMA SettleAppealBondAble ==
  ASSUME NEW st, NEW d, NEW outcome, NEW b \in Nat, Bonds(d), Bonded(st, d.appealBond + b)
  PROVE  Bonded(SettleAppealBond(st, d, outcome), b)
<1>1. d.appealBond \in Nat /\ Param.appealConsumeBps \in 0 .. Bps
  BY AmountsAssumption DEF Bonds
<1>2. CASE d.appealBond = 0
  BY <1>2 DEF SettleAppealBond
<1>3. Bonded(BondRelease(st, d.appealBond), b)
  BY <1>1, BondReleaseAble
<1>4. Bonded(ConsumeBond(st, d.appealBond, Param.appealConsumeBps), b)
  BY <1>1, ConsumeBondAble
<1> QED
  BY <1>2, <1>3, <1>4 DEF SettleAppealBond

-----------------------------------------------------------------------------
(* Deciding a dispute. *)

\* An ejected provider sits in the slot that is cleared; what was taken of the stakes is in the bonds.
LEMMA CarryOutAble ==
  ASSUME NEW st, NEW slash, NEW b \in Nat, Bonded(st, b), DOMAIN slash \subseteq Providers,
         \A p \in DOMAIN slash : Struck(slash[p], st.providers[p])
  PROVE  TakenBy(slash) \in Nat /\ Bonded(CarryOut(st, slash), TakenBy(slash) + b)
<1> DEFINE
      out == { p \in DOMAIN slash : slash[p].ejected }
      seated == { p \in out : st.providers[p].status = "active" }
      cleared == { s \in Slots : st.slots[s] \in seated /\ st.providers[st.slots[s]].slot = s }
      fromStake == SumFunction([p \in DOMAIN slash |-> slash[p].fromStake])
      fromUnbond == SumFunction([p \in DOMAIN slash |-> slash[p].fromUnbond])
      moved == SumFunction([p \in out |-> st.providers[p].stake - slash[p].fromStake])
      cut == [st EXCEPT !.providers = [p \in Providers |-> IF p \in DOMAIN slash THEN slash[p].rec ELSE st.providers[p]],
                        !.held.stakes = @ - fromStake - moved,
                        !.held.unbonding = @ - fromUnbond + moved,
                        !.held.bonds = @ + fromStake + fromUnbond]
<1>1. CarryOut(st, slash) = FeedClearSlots(cut, cleared, ObligedFrom(st.feed))
  BY DEF CarryOut
<1>2. Able(st) /\ b <= st.held.bonds /\ st.held.bonds \in Nat
  BY AbleBooked DEF Bonded
<1>3. \A s \in cleared : st.slots[s] # NoOne
  BY ConstantsAssumption
<1> HIDE DEF fromStake, fromUnbond, moved, cleared
<1>4. DOMAIN cut = Tables /\ cut.ok = TRUE /\ cut.slots = st.slots
  BY <1>2, AbleBooked DEF Able, Tables
<1> HIDE DEF cut
<1>5. CarryOut(st, slash).ok = TRUE
  BY <1>1, <1>3, <1>4 DEF FeedClearSlots, Require, Tables
<1>6. TakenBy(slash) \in Nat /\ Moves(CarryOut(st, slash), st, 0, -TakenBy(slash))
  BY <1>2, AbleBooked, CarryOutMoves
<1> QED
  BY <1>2, <1>5, <1>6, SpareIsInt DEF Bonded, Able, Covered, Moves

LEMMA RouteTakenAble ==
  ASSUME NEW st, NEW taken \in Nat, NEW b \in Nat, Bonded(st, (taken + Overdraw(taken)) + b)
  PROVE  Bonded(RouteTaken(st, taken), b)
<1> DEFINE toDisputer == MulBps(taken, Param.forfeitSplitWinnerBps)
           toVoters == MulBps(taken, Param.forfeitSplitVotersBps)
           rest == Rest(taken, toDisputer, toVoters)
           won == BondRelease(st, toDisputer)
           voted == FundVoters(won, toVoters)
<1>1. Divided(taken, toDisputer, toVoters)
  BY ForfeitDivided
<1>2. RouteTaken(st, taken) = BondToFees(voted, rest)
  BY <1>1 DEF RouteTaken, Divided
<1> HIDE DEF toDisputer, toVoters
<1>3. /\ toDisputer \in Nat /\ toVoters \in Nat /\ rest \in Nat
      /\ toDisputer + (toVoters + (rest + b)) = (taken + Overdraw(taken)) + b
  <2>1. /\ toDisputer \in Nat /\ toVoters \in Nat /\ rest \in Nat
        /\ toDisputer + toVoters + rest = taken + Overdraw(taken)
    BY <1>1 DEF Divided
  <2> HIDE DEF rest
  <2> QED
    BY ONLY <2>1, b \in Nat
<1> HIDE DEF rest
<1>4. toVoters + (rest + b) \in Nat /\ rest + b \in Nat
  BY <1>3
<1>5. Bonded(won, toVoters + (rest + b))
  BY <1>3, <1>4, BondReleaseAble
<1> HIDE DEF won
<1>6. Bonded(voted, rest + b)
  BY <1>3, <1>4, <1>5, FundVotersAble
<1> HIDE DEF voted
<1> QED
  BY <1>2, <1>3, <1>6, BondToFeesAble

LEMMA QuietRulings ==
  ASSUME NEW st, Able(st)
  PROVE  /\ \A id, tier : Able(RoundRestartWindow(st, id, tier))
         /\ \A id, v : Able(RoundOverturn(st, id, v))
         /\ \A id : Able(RoundVoid(st, id))
<1>1. \A id, tier : RoundRestartWindow(st, id, tier).ok = TRUE
  BY AbleBooked DEF RoundRestartWindow, PutRound, Able, Tables
<1>2. \A id, v : RoundOverturn(st, id, v).ok = TRUE
  BY AbleBooked DEF RoundOverturn, PutRound, Able, Tables
<1>3. \A id : RoundVoid(st, id).ok = TRUE
  BY AbleBooked DEF RoundVoid, PutRound, Able, Tables
<1>4. /\ \A id, tier : Moves(RoundRestartWindow(st, id, tier), st, 0, 0)
      /\ \A id, v : Moves(RoundOverturn(st, id, v), st, 0, 0)
      /\ \A id : Moves(RoundVoid(st, id), st, 0, 0)
  BY AbleBooked, RoundRestartWindowMoves, RoundOverturnMoves, RoundVoidMoves
<1> QED
  BY <1>1, <1>2, <1>3, <1>4, AbleOn

LEMMA UpholdAble ==
  ASSUME NEW st, NEW d, Bonds(d), Bonded(st, d.bond + Overdraw(d.bond))
  PROVE  Able(Uphold(st, d))
<1> DEFINE bond == d.bond
           toProviders == MulBps(bond, Param.forfeitSplitWinnerBps)
           toVoters == MulBps(bond, Param.forfeitSplitVotersBps)
           rest == Rest(bond, toProviders, toVoters)
           pooled == BondToPool(st, toProviders)
           voted == FundVoters(pooled, toVoters)
           fees == BondToFees(voted, rest)
<1>1. bond \in Nat /\ Divided(bond, toProviders, toVoters)
  BY ForfeitDivided DEF Bonds
<1>2. Uphold(st, d) = RoundRestartWindow(fees, d.round, d.priorTier)
  BY <1>1 DEF Uphold, Divided
<1> HIDE DEF toProviders, toVoters
<1>3. /\ toProviders \in Nat /\ toVoters \in Nat /\ rest \in Nat
      /\ toProviders + (toVoters + (rest + 0)) = bond + Overdraw(bond)
  <2>1. /\ toProviders \in Nat /\ toVoters \in Nat /\ rest \in Nat
        /\ toProviders + toVoters + rest = bond + Overdraw(bond)
    BY <1>1 DEF Divided
  <2> HIDE DEF rest
  <2> QED
    BY ONLY <2>1
<1> HIDE DEF rest
<1>4. toVoters + (rest + 0) \in Nat /\ rest + 0 \in Nat /\ 0 \in Nat
  BY <1>3
<1>5. Bonded(pooled, toVoters + (rest + 0))
  BY <1>3, <1>4, BondToPoolAble
<1> HIDE DEF pooled
<1>6. Bonded(voted, rest + 0)
  BY <1>3, <1>4, <1>5, FundVotersAble
<1> HIDE DEF voted
<1>7. Bonded(fees, 0)
  BY <1>3, <1>4, <1>6, BondToFeesAble
<1> HIDE DEF fees
<1> QED
  BY <1>2, <1>7, QuietRulings DEF Bonded

LEMMA OverturnAble ==
  ASSUME NEW st, NEW d, NEW tier, Bonds(d), HeldByProviders(st, d.round),
         Bonded(st, d.bond + Overdraw(TakenBy(Slashes(st, Refuted(st, d), tier))))
  PROVE  Able(Overturn(st, d, tier))
<1> DEFINE who == Refuted(st, d)
           slash == Slashes(st, who, tier)
           taken == TakenBy(slash)
           over == Overdraw(taken)
           a == CarryOut(st, slash)
           b == RouteTaken(a, taken)
           c == BondRelease(b, d.bond)
<1>1. Overturn(st, d, tier) = RoundOverturn(c, d.round, d.proposedValue)
  BY DEF Overturn, OverturnWith
<1>2. d.bond \in Nat /\ 0 \in Nat /\ d.bond + 0 = d.bond /\ Bonded(st, d.bond + over)
  BY DEF Bonds
<1>3. who \subseteq Providers
  BY DEF Refuted, HeldByProviders
<1> HIDE DEF who
<1>4. DOMAIN slash \subseteq Providers /\ \A p \in DOMAIN slash : Struck(slash[p], st.providers[p])
  BY <1>2, <1>3, SlashProviderStrikes DEF Slashes, Bonded, Able, Covered, Booked, Amounts
<1> HIDE DEF slash
<1>5. taken \in Nat /\ over \in Nat
  BY <1>2, <1>4, CarryOutPays, ForfeitDivided DEF Bonded, Able, Covered, Divided
<1> HIDE DEF over
<1>6. Bonded(a, taken + (d.bond + over))
  <2>1. d.bond + over \in Nat
    BY <1>2, <1>5
  <2> QED
    BY <1>2, <1>4, <2>1, CarryOutAble
<1> HIDE DEF a, taken
<1>7. Bonded(b, d.bond)
  <2>1. taken + (d.bond + over) = (taken + over) + d.bond
    BY <1>2, <1>5
  <2>2. Bonded(a, (taken + Overdraw(taken)) + d.bond)
    BY <1>6, <2>1 DEF over
  <2> QED
    BY <1>2, <1>5, <2>2, RouteTakenAble
<1> HIDE DEF b
<1>8. Bonded(c, 0)
  <2>1. Bonded(b, d.bond + 0)
    BY <1>2, <1>7
  <2> QED
    BY <1>2, <2>1, BondReleaseAble
<1> HIDE DEF c
<1> QED
  BY <1>1, <1>8, QuietRulings DEF Bonded

LEMMA VoidAble ==
  ASSUME NEW st, NEW d, Bonds(d), Bonded(st, d.bond)
  PROVE  Able(Void(st, d))
<1>1. d.bond \in Nat /\ 0 \in Nat /\ Param.voidConsumeBps \in 0 .. Bps /\ Bonded(st, d.bond + 0)
  BY AmountsAssumption DEF Bonds
<1>2. Bonded(ConsumeBond(st, d.bond, Param.voidConsumeBps), 0)
  BY <1>1, ConsumeBondAble
<1> QED
  BY <1>2, QuietRulings DEF Void, Bonded

\* A running dispute has its bonds in the books, if the shares of forfeits fit.
LEMMA PendingIsBonded ==
  ASSUME NEW st, NEW n \in DOMAIN st.disputes, Able(st), Balanced(st), SharesFit
  PROVE  Bonded(st, Pending(st.disputes[n]))
<1> DEFINE f == [k \in DOMAIN st.disputes |-> Pending(st.disputes[k])]
<1>1. /\ IsFiniteSet(DOMAIN st.disputes) /\ f \in [DOMAIN st.disputes -> Nat]
      /\ st.held.bonds = SumFunction(f)
  BY SequenceDomain, PendingNat DEF Balanced, Pledges, BondsOf
<1>2. f[n] <= SumFunction(f)
  <2> HIDE DEF f
  <2> QED
    BY <1>1, SumCovers
<1> QED
  BY <1>1, <1>2 DEF Bonded

\* What a ruling looks at is not touched when the appeal bond is settled.
SameSubject(t, st) ==
  /\ DOMAIN t = Tables
  /\ t.rounds = st.rounds /\ t.slotlog = st.slotlog /\ t.providers = st.providers /\ t.feed = st.feed

LEMMA SubjectKept ==
  ASSUME NEW st, DOMAIN st = Tables
  PROVE  /\ \A cond : SameSubject(Require(st, cond), st)
         /\ \A amount : SameSubject(BondRelease(st, amount), st)
         /\ \A amount : SameSubject(BondToFees(st, amount), st)
<1>1. \A cond : SameSubject(Require(st, cond), st)
  BY DEF Require, SameSubject, Tables
<1>2. \A amount : SameSubject(BondRelease(st, amount), st)
  BY DEF BondRelease, Send, Require, SameSubject, Tables
<1>3. \A amount : SameSubject(BondToFees(st, amount), st)
  BY DEF BondToFees, Require, SameSubject, Tables
<1> QED
  BY <1>1, <1>2, <1>3

LEMMA SettleKeepsSubject ==
  ASSUME NEW st, NEW d, NEW outcome, DOMAIN st = Tables
  PROVE  SameSubject(SettleAppealBond(st, d, outcome), st)
<1>1. SameSubject(st, st)
  BY DEF SameSubject
<1>2. SameSubject(BondRelease(st, d.appealBond), st)
  BY SubjectKept
<1>3. SameSubject(ConsumeBond(st, d.appealBond, Param.appealConsumeBps), st)
  <2> DEFINE consumed == MulBps(d.appealBond, Param.appealConsumeBps)
             half == consumed \div 2
             a == FundVoters(st, half)
             b == BondToFees(a, consumed - half)
             c == BondRelease(b, d.appealBond - consumed)
  <2>1. ConsumeBond(st, d.appealBond, Param.appealConsumeBps) = c
    BY DEF ConsumeBond
  <2> HIDE DEF consumed, half
  <2>2. SameSubject(a, st)
    BY SubjectKept DEF FundVoters
  <2> HIDE DEF a
  <2>3. SameSubject(b, a)
    BY <2>2, SubjectKept DEF SameSubject
  <2> HIDE DEF b
  <2>4. SameSubject(c, b)
    BY <2>3, SubjectKept DEF SameSubject
  <2> HIDE DEF c
  <2> QED
    BY <2>1, <2>2, <2>3, <2>4 DEF SameSubject
<1> QED
  BY <1>1, <1>2, <1>3 DEF SettleAppealBond

\* What the outcome of a dispute draws beyond its bonds.
OverdrawnBy(st, d, outcome, tier) ==
  CASE outcome = "UPHOLD" -> Overdraw(d.bond)
    [] outcome = "OVERTURN" -> Overdraw(TakenBy(Slashes(st, Refuted(st, d), tier)))
    [] OTHER -> 0

LEMMA OverdrawnIsNat ==
  ASSUME NEW st, NEW d, NEW outcome, NEW tier, Booked(st), Bonds(d), HeldByProviders(st, d.round)
  PROVE  OverdrawnBy(st, d, outcome, tier) \in Nat /\ (SharesFit => OverdrawnBy(st, d, outcome, tier) = 0)
<1>1. Overdraw(d.bond) \in Nat /\ (SharesFit => Overdraw(d.bond) = 0)
  BY ForfeitDivided DEF Divided, Bonds
<1> DEFINE taken == TakenBy(Slashes(st, Refuted(st, d), tier))
<1>2. taken \in Nat
  BY OverturnPays
<1> HIDE DEF taken
<1>3. Overdraw(taken) \in Nat /\ (SharesFit => Overdraw(taken) = 0)
  BY <1>2, ForfeitDivided DEF Divided
<1> QED
  BY <1>1, <1>3 DEF OverdrawnBy, taken

\* Whatever the ballots say of a running dispute can be applied, if there are bonds for it.
LEMMA ApplyAble ==
  ASSUME NEW st, NEW n \in Running(st), NEW outcome \in {"UPHOLD", "OVERTURN", "VOID"}, NEW tier,
         Able(st), Balanced(st), OnRecord(st),
         LET d == st.disputes[n] IN
         SharesFit \/ Bonded(st, d.bond + d.appealBond + OverdrawnBy(st, d, outcome, tier))
  PROVE  Apply(st, n, outcome, tier).ok = TRUE
<1> DEFINE d == st.disputes[n]
           over == OverdrawnBy(st, d, outcome, tier)
           able == CanApply(st, d)
           asked == Require(st, able)
           settled == SettleAppealBond(asked, d, outcome)
           u == Decide(settled, d, outcome, tier)
<1>1. SharesFit \/ Bonded(st, d.bond + d.appealBond + over)
  OBVIOUS
<1>2. Apply(st, n, outcome, tier) = Resolved(u, n, outcome, tier)
  BY DEF Apply
<1>3. n \in DOMAIN st.disputes /\ d.status # "resolved"
  BY DEF Running
<1>4. Bonds(d) /\ Pending(d) = d.appealBond + d.bond
  BY <1>3 DEF Balanced, Pledges, DisputeAmounts, Bonds, Pending
<1>5. able /\ d.round \in Nat
  BY DEF CanApply, OnRecord, LogSound, DisputesSound, RoundsSound
<1>6. over \in Nat /\ (SharesFit => over = 0)
  BY <1>4, <1>5, OnRecordHolders, OverdrawnIsNat DEF Balanced
<1>7. Bonded(st, d.appealBond + (d.bond + over))
  <2>1. SharesFit => Bonded(st, d.appealBond + d.bond)
    BY <1>3, <1>4, PendingIsBonded
  <2> DEFINE x == d.bond
             y == d.appealBond
  <2>2. x \in Nat /\ y \in Nat
    BY <1>4 DEF Bonds
  <2> HIDE DEF x, y, over
  <2>3. x + y + over = y + (x + over) /\ (SharesFit => y + x = y + (x + over))
    BY ONLY <1>6, <2>2
  <2> QED
    BY <1>1, <2>1, <2>3 DEF x, y
<1>8. Bonded(asked, d.appealBond + (d.bond + over)) /\ SameRecord(asked, st) /\ SameSubject(asked, st)
  <2>1. asked.held = st.held
    BY AbleBooked DEF Require, Tables
  <2>2. Able(asked)
    BY <1>5, RequireAble
  <2>3. SameRecord(asked, st)
    BY RequireLeaves, OnRecordFramed
  <2>4. SameSubject(asked, st)
    BY AbleBooked, SubjectKept
  <2> HIDE DEF asked, over
  <2> QED
    BY <1>7, <2>1, <2>2, <2>3, <2>4 DEF Bonded
<1> HIDE DEF d, able, asked
<1>9. Bonded(settled, d.bond + over) /\ SameRecord(settled, st) /\ SameSubject(settled, st)
  <2> HIDE DEF over
  <2>1. d.bond + over \in Nat
    BY <1>4, <1>6 DEF Bonds
  <2>2. Bonded(settled, d.bond + over)
    BY <1>4, <1>8, <2>1, SettleAppealBondAble
  <2>3. SameSubject(settled, asked)
    BY <1>8, SettleKeepsSubject DEF SameSubject
  <2>4. SameSubject(settled, st)
    BY <1>8, <2>3 DEF SameSubject
  <2> QED
    BY <1>8, <2>2, <2>4, SettleAppealBondLeaves, RecordChained, FrameKept
<1> HIDE DEF settled
<1>10. HeldByProviders(settled, d.round)
  BY <1>5, <1>9, SameRecordHolders
<1>11. Able(u)
  <2>1. CASE outcome = "UPHOLD"
    <3>1. Bonded(settled, d.bond + Overdraw(d.bond))
      BY <1>9, <2>1 DEF OverdrawnBy
    <3> QED
      BY <1>4, <2>1, <3>1, UpholdAble DEF Decide
  <2>2. CASE outcome = "OVERTURN"
    <3>1. Refuted(settled, d) = Refuted(st, d)
      BY <1>9 DEF Refuted, SameSubject
    <3>2. \A who : Slashes(settled, who, tier) = Slashes(st, who, tier)
      BY <1>9 DEF Slashes, SameSubject
    <3>3. over = Overdraw(TakenBy(Slashes(settled, Refuted(settled, d), tier)))
      BY <2>2, <3>1, <3>2 DEF OverdrawnBy
    <3> HIDE DEF over
    <3>4. Bonded(settled, d.bond + Overdraw(TakenBy(Slashes(settled, Refuted(settled, d), tier))))
      BY <1>9, <3>3
    <3> QED
      BY <1>4, <1>10, <2>2, <3>4, OverturnAble DEF Decide
  <2>3. CASE outcome = "VOID"
    <3>1. Bonded(settled, d.bond)
      <4>1. over = 0 /\ d.bond \in Nat
        BY <1>4, <2>3 DEF OverdrawnBy, Bonds
      <4> HIDE DEF over
      <4> QED
        BY <1>9, <4>1
    <3> QED
      BY <1>4, <2>3, <3>1, VoidAble DEF Decide
  <2> QED
    BY <2>1, <2>2, <2>3
<1> HIDE DEF u
<1>12. Resolved(u, n, outcome, tier).ok = u.ok
  BY <1>11, AbleBooked DEF Resolved, Tables
<1> QED
  BY <1>2, <1>11, <1>12 DEF Able

-----------------------------------------------------------------------------
(* The theorems. *)

LEMMA StoreAble ==
  ASSUME Coining, Surplus >= 0
  PROVE  Able(Store) /\ Balanced(Store)
<1>1. Balanced(Store) /\ Booked(Store) /\ Spare(Store) >= 0
  BY StoreBalanced
<1>2. Store.ok = TRUE
  BY DEF Store
<1> QED
  BY <1>1, <1>2, BalancedCovers DEF Able

LEMMA CrankGoesOn ==
  ASSUME Seating, Recording, Coining, Surplus >= 0
  PROVE  CrankNeverPanics
<1> SUFFICES ASSUME Serving(feed), NEW id \in ClosedNext
             PROVE  IF id \in DOMAIN rounds THEN Finalise(Store, id).ok ELSE Skip(Store, id).ok
  BY DEF CrankNeverPanics
<1>1. IsNext(id) /\ id \in Nat /\ IsClosed(Sched(feed), id, now) /\ (IsOneOff(Sched(feed)) => id = 0)
  <2>1. NextRound(feed.haveLast, feed.lastFinalized) \in Nat
    BY StoreOnRecord DEF NextRound, OnRecord, Cursors
  <2> QED
    BY <2>1 DEF ClosedNext, Finalisable, IsNext
<1>2. Due(Store, id)
  BY <1>1, ClosedExists, NextIsDue
<1>3. Able(Store) /\ Seated(Store) /\ HeldByProviders(Store, id)
  BY <1>1, StoreAble, StoreShaped, StoreOnRecord, OnRecordHolders
<1>4. GetRound(Store, id).status = "open"
  <2>1. id = NextRound(Store.feed.haveLast, Store.feed.lastFinalized)
    BY <1>1, StoreOnRecord DEF IsNext
  <2>2. ~(Store.feed.haveLast /\ id <= Store.feed.lastFinalized)
    BY <1>1, <2>1, StoreOnRecord, NextIsPastOldest DEF OnRecord
  <2>3. CASE id \in DOMAIN Store.rounds
    BY <2>2, <2>3, StoreOnRecord DEF GetRound, OnRecord, RoundsSound
  <2>4. CASE id \notin DOMAIN Store.rounds
    BY <2>4 DEF GetRound, FreshRound
  <2> QED
    BY <2>3, <2>4
<1>5. Able(Finalise(Store, id)) /\ Able(Skip(Store, id))
  BY <1>2, <1>3, <1>4, FinaliseAble, SkipAble
<1> QED
  BY <1>5 DEF Able

LEMMA BallotsName ==
  ASSUME NEW e, NEW b \in BallotOutcomes(e), b.outcome # "ROLL"
  PROVE  b.outcome \in {"UPHOLD", "OVERTURN", "VOID"}
<1> DEFINE all == IF e.ballotRound = 1 THEN {"UPHOLD", "VOID", "ROLL"} ELSE {"UPHOLD", "VOID"}
<1>1. all \subseteq {"UPHOLD", "VOID", "ROLL"}
  BY SMT
<1>2. \/ b \in { [outcome |-> "OVERTURN", tier |-> t] : t \in {"minor", e.tierAsked} }
      \/ b \in { [outcome |-> o, tier |-> ""] : o \in all }
  BY Zenon DEF BallotOutcomes
<1> HIDE DEF all
<1>3. CASE b \in { [outcome |-> "OVERTURN", tier |-> t] : t \in {"minor", e.tierAsked} }
  BY <1>3
<1>4. CASE b \in { [outcome |-> o, tier |-> ""] : o \in all }
  <2>1. PICK o \in all : b = [outcome |-> o, tier |-> ""]
    BY <1>4
  <2>2. b.outcome = o
    BY <2>1
  <2> QED
    BY <1>1, <2>1, <2>2
<1> QED
  BY <1>2, <1>3, <1>4

LEMMA ResolutionGoesOn ==
  ASSUME Recording, Coining, Surplus >= 0
  PROVE  ResolutionNeverPanics
<1> SUFFICES ASSUME NEW n \in UnresolvedOnes, NEW b \in BallotOutcomes(disputes[n]), b.outcome # "ROLL"
             PROVE  \/ Apply(Store, n, b.outcome, b.tier).ok
                    \/ ~SharesFit /\ held.bonds < BondsNeeded(n, b)
  BY DEF ResolutionNeverPanics
<1>1. n \in Running(Store)
  BY StoreOnRecord DEF Running, UnresolvedOnes
<1>2. b.outcome \in {"UPHOLD", "OVERTURN", "VOID"}
  <2> DEFINE e == disputes[n]
  <2> HIDE DEF e
  <2>1. b \in BallotOutcomes(e)
    BY DEF e
  <2> QED
    BY <2>1, BallotsName
<1> DEFINE d == disputes[n]
           over == OverdrawnBy(Store, d, b.outcome, b.tier)
           need == d.bond + d.appealBond + over
<1>3. Able(Store) /\ Balanced(Store) /\ OnRecord(Store) /\ Store.disputes = disputes /\ Store.held = held
  BY StoreAble, StoreOnRecord, StoreBalanced
<1>4. BondsNeeded(n, b) = need
  BY DEF BondsNeeded, OverdrawnBy
<1>5. Bonds(d) /\ HeldByProviders(Store, d.round)
  <2>1. n \in DOMAIN disputes /\ d.status # "resolved"
    BY DEF UnresolvedOnes
  <2>2. d.round \in Nat
    BY <1>1, <1>3 DEF OnRecord, DisputesSound, RoundsSound
  <2> QED
    BY <1>3, <2>1, <2>2, OnRecordHolders DEF Balanced, Pledges, DisputeAmounts, Bonds
<1>6. need \in Nat /\ held.bonds \in Nat
  <2>1. over \in Nat
    BY <1>3, <1>5, OverdrawnIsNat DEF Balanced
  <2> HIDE DEF over
  <2> QED
    BY <1>3, <1>5, <2>1, AbleBooked DEF Bonds
<1> HIDE DEF need
<1>7. SharesFit \/ held.bonds < need \/ Bonded(Store, need)
  BY <1>3, <1>6 DEF Bonded
<1>8. CASE SharesFit \/ Bonded(Store, need)
  <2>1. Apply(Store, n, b.outcome, b.tier).ok = TRUE
    BY <1>1, <1>2, <1>3, <1>8, ApplyAble DEF need
  <2> QED
    BY <2>1
<1> QED
  BY <1>4, <1>7, <1>8

\* Nothing stops the calendar of a serving feed, for every set of providers and all prices, slashes and
\* roundings: the next round, once closed, can always be finalised, or written off if nobody answered
\* (CatchUp and Finalize in rounds.gno).  Who is jailed for it sits in the slot that is cleared, and
\* the alert and the tip come out of coins the realm has.
THEOREM CrankAlwaysGoesOn == Spec => []CrankNeverPanics
<1>1. Init => Coining /\ Recording /\ Seating /\ Surplus >= 0
  BY InitCoins, InitRecording, InitSeats
<1>2. (Coining /\ Recording /\ Seating /\ Surplus >= 0) /\ [Next]_vars => (Coining /\ Recording /\ Seating /\ Surplus >= 0)'
  BY StepCoins, StepRecording, StepSeats, TransferAdds
<1>3. (Coining /\ Recording /\ Seating /\ Surplus >= 0) => CrankNeverPanics
  BY CrankGoesOn
<1> QED
  BY <1>1, <1>2, <1>3, PTL DEF Spec

\* No dispute is left standing by a panic: whatever its ballot says, and however often it was appealed,
\* the outcome can be applied (apply in disputes.gno), for every set of providers and all slashes.
\* The bonds of a running dispute are in the books, what a slash takes is added to them before it
\* is handed on, and its round is still on record.  Only shares of forfeits set to more than the
\* whole can leave too little of the bonds, and then the bonds are less than the outcome asks for.
THEOREM DisputesAlwaysResolvable == Spec => []ResolutionNeverPanics
<1>1. Init => Coining /\ Recording /\ Seating /\ Surplus >= 0
  BY InitCoins, InitRecording, InitSeats
<1>2. (Coining /\ Recording /\ Seating /\ Surplus >= 0) /\ [Next]_vars => (Coining /\ Recording /\ Seating /\ Surplus >= 0)'
  BY StepCoins, StepRecording, StepSeats, TransferAdds
<1>3. (Coining /\ Recording /\ Seating /\ Surplus >= 0) => ResolutionNeverPanics
  BY ResolutionGoesOn
<1> QED
  BY <1>1, <1>2, <1>3, PTL DEF Spec

=============================================================================
