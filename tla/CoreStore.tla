------------------------------ MODULE CoreStore ------------------------------
(***************************************************************************)
(* The tables of the core realm (core/state.gno, core/money.gno) as they   *)
(* concern one feed, and the StateRef methods that change them.            *)
(*                                                                         *)
(* A handler of the implementation asks the realm for its store and calls  *)
(* StateRef methods on it in order.  Here Store is the record of all       *)
(* tables, a method is an operator from a store to a store, a handler is a *)
(* composition of them, and Commit installs the result.  A method that     *)
(* would panic clears st.ok, and Commit refuses such a store: a panic      *)
(* reverts the whole transaction.                                          *)
(*                                                                         *)
(* Nil is an absent record: a round is absent when its id is not in DOMAIN *)
(* rounds, a provider when its status is "none".  Coins leave to or arrive *)
(* from accounts outside the realm, of which only balance is kept.         *)
(***************************************************************************)
EXTENDS Schedule, Aggregation, Sequences, FiniteSetsExt

CONSTANTS
  Providers,      \* accounts that may bond on the feed
  NoOne,          \* the blank address: an empty slot
  Slots,          \* 0 .. MaxSlots-1 (the code has 15)
  Values,         \* what a provider or a disputer may name
  Accounts,       \* holders of prepaid credit
  Proposer,       \* the account that proposed the feed
  Param,          \* the governed parameters, a record by their names
  Spec0,          \* the feed's spec as proposed, a record by its field names
  JailingsWindow, \* the 30 days over which jailings accumulate
  BallotPeriod    \* how long the DAO's ballot takes in round 1 and round 2

VARIABLES
  now,        \* block time
  feed,       \* the Feed record
  providers,  \* the Provider records
  slots,      \* feed.Slots: who sits where now
  slotlog,    \* who held a slot from which round on
  rounds,     \* the Round records
  disputes,   \* the DisputeRecords, numbered from 1
  credits,    \* prepaid balances
  held,       \* what the realm's coins are made of
  balance     \* the coins the realm has

tables == <<feed, providers, slots, slotlog, rounds, disputes, credits, held, balance>>
vars == <<now, tables>>

Store ==
  [feed |-> feed, providers |-> providers, slots |-> slots, slotlog |-> slotlog,
   rounds |-> rounds, disputes |-> disputes, credits |-> credits, held |-> held,
   balance |-> balance, ok |-> TRUE]

Commit(st) ==
  /\ st.ok
  /\ feed' = st.feed
  /\ providers' = st.providers
  /\ slots' = st.slots
  /\ slotlog' = st.slotlog
  /\ rounds' = st.rounds
  /\ disputes' = st.disputes
  /\ credits' = st.credits
  /\ held' = st.held
  /\ balance' = st.balance
  /\ now' = now

Require(st, cond) == [st EXCEPT !.ok = @ /\ cond]

NoSlot == -1

Smaller(a, b) == IF a <= b THEN a ELSE b

-----------------------------------------------------------------------------
(* Records. *)

NoFeed ==
  [status |-> "none", startAt |-> 0, deposit |-> 0, prepaid |-> 0, pool |-> 0, drip |-> 0,
   penaltyCarry |-> 0, activeCount |-> 0, haveLast |-> FALSE, lastFinalized |-> 0,
   haveValue |-> FALSE, lastValue |-> 0, lastTier |-> "", lastRound |-> 0, lastFinalAt |-> 0,
   haveFinal |-> FALSE, finalValue |-> 0, finalRound |-> 0, finalAt |-> 0, finalCursor |-> 0,
   oldestRound |-> 0, emptyStreak |-> 0, reopened |-> FALSE, deprecatedAt |-> 0,
   openDisputes |-> 0, lastDisputeAt |-> 0, disputesInRow |-> 0,
   subscriberPrice |-> Spec0.subscriberPrice, subscriptionPrice |-> Spec0.subscriptionPrice,
   providerMinStake |-> Spec0.providerMinStake, toleranceBps |-> Spec0.toleranceBps,
   quarantineBps |-> Spec0.quarantineBps, disputeWindow |-> Spec0.disputeWindow]

NoProvider ==
  [status |-> "none", slot |-> NoSlot, stake |-> 0, obligedFrom |-> 0, consecutiveMisses |-> 0,
   strikes |-> 0, strikeWindowStart |-> 0, missSlashedEpoch |-> 0, minorsEpoch |-> 0,
   epochStart |-> 0, jailings |-> 0, jailingsSince |-> 0, jailedAt |-> 0, unbondAmount |-> 0,
   unbondReadyAt |-> 0, rewards |-> 0]

FreshRound ==
  [status |-> "open", tier |-> "", value |-> 0, subs |-> << >>, finalisedAt |-> 0, disputeID |-> 0]

NothingHeld ==
  [stakes |-> 0, unbonding |-> 0, credits |-> 0, pools |-> 0, rewards |-> 0, bonds |-> 0,
   feesPending |-> 0, deposits |-> 0]

Recurs == Spec0.recurring

Sched(f) ==
  IF Recurs THEN Recurring(f.startAt, Spec0.interval, Spec0.submitWindow)
            ELSE OneOff(f.startAt, Spec0.submitWindow)

-----------------------------------------------------------------------------
(* Money (money.gno): coins arrive with a call, are booked to categories,   *)
(* and leave only after a category was reduced.                             *)

HeldTotal(h) ==
  h.stakes + h.unbonding + h.credits + h.pools + h.rewards + h.bonds + h.feesPending + h.deposits

\* The coins attached to a user's call are on the realm's account before it runs.
Receive(st, sent) == [st EXCEPT !.balance = @ + sent]

Inflow(st, amount) == Require(st, amount > 0 /\ HeldTotal(st.held) + amount <= st.balance)

\* Nothing to send is no send; a category was reduced by the caller.
Send(st, amount) ==
  IF amount > 0 THEN [Require(st, amount <= st.balance) EXCEPT !.balance = @ - amount] ELSE st

CreditDeposit(st, acct, amount) ==
  [Inflow(st, amount) EXCEPT !.credits[acct] = @ + amount, !.held.credits = @ + amount]

CreditSpend(st, acct, amount) ==
  [Require(st, amount > 0 /\ st.credits[acct] >= amount)
     EXCEPT !.credits[acct] = @ - amount, !.held.credits = @ - amount]

CreditWithdraw(st, acct, amount) == Send(CreditSpend(st, acct, amount), amount)

\* What a caller sent beyond what was asked becomes its credit.
CreditExcess(st, acct, sent, asked) ==
  IF sent > asked THEN CreditDeposit(st, acct, sent - asked) ELSE st

\* Mutant: a requesting realm's refund is not booked.
PayProposerUnbooked(st, amount) ==
  IF Spec0.fromRealm THEN [st EXCEPT !.credits[Proposer] = @ + amount] ELSE Send(st, amount)

PayProposer(st, amount) ==
  IF Spec0.fromRealm
  THEN [st EXCEPT !.credits[Proposer] = @ + amount, !.held.credits = @ + amount]
  ELSE Send(st, amount)

SplitSubscription(st, amount) ==
  LET share == MulBps(amount, Param.feeSplitProvidersBps) IN
  [st EXCEPT !.feed.pool = @ + share, !.held.pools = @ + share,
             !.held.feesPending = @ + (amount - share)]

-----------------------------------------------------------------------------
(* Feeds. *)

FeedSetStatus(st, status) ==
  [st EXCEPT !.feed.status = status,
             !.feed.deprecatedAt = IF status = "deprecated" THEN now ELSE @]

\* The escrowed prepayment becomes the pool (one-off) or takes the fee split.
FeedActivate(st, startAt, drip) ==
  LET pre == st.feed.prepaid
      act == [st EXCEPT !.feed.status = "active", !.feed.startAt = startAt, !.feed.drip = drip,
                        !.feed.prepaid = 0, !.held.deposits = @ - pre]
  IN IF pre = 0 THEN act
     ELSE IF Recurs THEN SplitSubscription(act, pre)
     ELSE [act EXCEPT !.feed.pool = @ + pre, !.held.pools = @ + pre]

\* Mutant: the escrow is paid back and kept on record.
DepositRefundAgain(st) ==
  LET amount == st.feed.deposit + st.feed.prepaid IN
  IF amount = 0 THEN st ELSE PayProposer([st EXCEPT !.held.deposits = @ - amount], amount)

DepositRefund(st) ==
  LET amount == st.feed.deposit + st.feed.prepaid IN
  IF amount = 0 THEN st
  ELSE PayProposer([st EXCEPT !.feed.deposit = 0, !.feed.prepaid = 0, !.held.deposits = @ - amount],
                   amount)

DepositToFees(st) ==
  LET dep == st.feed.deposit
      pre == st.feed.prepaid
  IN PayProposer([st EXCEPT !.feed.deposit = 0, !.feed.prepaid = 0,
                            !.held.deposits = @ - dep - pre, !.held.feesPending = @ + dep],
                 pre)

\* The proposal deposit and the first funding, from the proposer's credit.
CreditSpendOnFeed(st, acct, deposit, funding) ==
  [CreditSpend(st, acct, deposit + funding)
     EXCEPT !.feed.deposit = @ + deposit, !.feed.prepaid = @ + funding,
            !.held.deposits = @ + deposit + funding]

FeedPoolToFees(st) ==
  LET amount == st.feed.pool + st.feed.penaltyCarry IN
  [st EXCEPT !.feed.pool = 0, !.feed.penaltyCarry = 0, !.held.pools = @ - amount,
             !.held.feesPending = @ + amount]

FeedPoolRefund(st) ==
  LET amount == st.feed.pool + st.feed.penaltyCarry IN
  PayProposer([st EXCEPT !.feed.pool = 0, !.feed.penaltyCarry = 0, !.held.pools = @ - amount], amount)

SponsorPay(st, amount) == SplitSubscription(Inflow(st, amount), amount)

BountyIn(st, amount) ==
  [Inflow(st, amount) EXCEPT !.feed.pool = @ + amount, !.held.pools = @ + amount]

-----------------------------------------------------------------------------
(* Slots and their log. *)

\* Entries are keyed by slot and first round: writing one replaces its key.
LogSet(log, entries) ==
  { e \in log : ~ \E n \in entries : n.slot = e.slot /\ n.from = e.from } \cup entries

LogEntry(s, from, holder) == [slot |-> s, from |-> from, holder |-> holder]

SlotHolderAt(log, s, r) ==
  LET upto == { e \in log : e.slot = s /\ e.from <= r } IN
  IF upto = {} THEN NoOne
  ELSE (CHOOSE e \in upto : \A x \in upto : x.from <= e.from).holder

FeedAssignSlot(st, s, p, from) ==
  [Require(st, st.slots[s] = NoOne)
     EXCEPT !.slots[s] = p, !.feed.activeCount = @ + 1,
            !.slotlog = LogSet(@, {LogEntry(s, from, p)})]

\* Mutants: the seats stay counted, the log is told of a round before.
FeedClearSlotsUncounted(st, cleared, from) ==
  [Require(st, \A s \in cleared : st.slots[s] # NoOne)
     EXCEPT !.slots = [s \in Slots |-> IF s \in cleared THEN NoOne ELSE st.slots[s]],
            !.slotlog = LogSet(@, { LogEntry(s, from, NoOne) : s \in cleared })]

FeedClearSlotsEarly(st, cleared, from) ==
  [FeedClearSlotsUncounted(st, cleared, from - 1) EXCEPT !.feed.activeCount = @ - Cardinality(cleared)]

\* Clearing several slots at once, all from the same round on.
FeedClearSlots(st, cleared, from) ==
  [Require(st, \A s \in cleared : st.slots[s] # NoOne)
     EXCEPT !.slots = [s \in Slots |-> IF s \in cleared THEN NoOne ELSE st.slots[s]],
            !.feed.activeCount = @ - Cardinality(cleared),
            !.slotlog = LogSet(@, { LogEntry(s, from, NoOne) : s \in cleared })]

-----------------------------------------------------------------------------
(* Providers.  A change of one record is an operator on records; the store   *)
(* operators apply it and book the coins it moves.                           *)

NewProvider(st, p, stake, s, from) ==
  [Inflow(st, stake)
     EXCEPT !.providers[p] = [NoProvider EXCEPT !.status = "active", !.slot = s, !.stake = stake,
                                                !.obligedFrom = from, !.epochStart = now,
                                                !.jailingsSince = now],
            !.held.stakes = @ + stake]

ProviderAddStake(st, p, amount) ==
  [Inflow(st, amount) EXCEPT !.providers[p].stake = @ + amount, !.held.stakes = @ + amount]

\* Mutant: the unbonding stake also stays bonded.
UnbondingTwice(pr, readyAt) ==
  [pr EXCEPT !.status = "unbonding", !.slot = NoSlot, !.unbondAmount = @ + pr.stake,
             !.unbondReadyAt = readyAt]

Unbonding(pr, readyAt) ==
  [pr EXCEPT !.status = "unbonding", !.slot = NoSlot, !.unbondAmount = @ + pr.stake, !.stake = 0,
             !.unbondReadyAt = readyAt]

\* The whole stake of every provider in who moves to unbonding.
ProviderStartUnbond(st, who, readyAt) ==
  LET moved == SumFunction([p \in who |-> st.providers[p].stake]) IN
  [st EXCEPT !.providers = [p \in Providers |-> IF p \in who THEN Unbonding(st.providers[p], readyAt)
                                                            ELSE st.providers[p]],
             !.held.stakes = @ - moved, !.held.unbonding = @ + moved]

ProviderPayUnbonded(st, p) ==
  LET amount == st.providers[p].unbondAmount IN
  Send([st EXCEPT !.providers[p].unbondAmount = 0, !.held.unbonding = @ - amount], amount)

RewardPay(st, p) ==
  LET amount == st.providers[p].rewards IN
  Send([st EXCEPT !.providers[p].rewards = 0, !.held.rewards = @ - amount], amount)

\* Mutant: a slash is taken from the stake alone.
TakenFromStakeAlone(pr, amount) == [stake |-> amount, unbond |-> 0]

\* A slash comes out of the stake first, then out of what unbonds.
TakenFrom(pr, amount) ==
  LET stake == Smaller(amount, pr.stake) IN
  [stake |-> stake, unbond |-> Smaller(amount - stake, pr.unbondAmount)]

ProviderDelete(st, p) ==
  LET pr == st.providers[p] IN
  [Require(st, pr.stake = 0 /\ pr.unbondAmount = 0 /\ pr.rewards = 0)
     EXCEPT !.providers[p] = NoProvider]

-----------------------------------------------------------------------------
(* Rounds and the served value. *)

GetRound(st, id) == IF id \in DOMAIN st.rounds THEN st.rounds[id] ELSE FreshRound

PutRound(st, id, rd) ==
  [st EXCEPT !.rounds = [k \in DOMAIN st.rounds \cup {id} |-> IF k = id THEN rd ELSE st.rounds[k]]]

RoundFinalise(st, id, status, tier, value) ==
  PutRound(st, id, [GetRound(st, id) EXCEPT !.status = status, !.tier = tier, !.value = value,
                                            !.finalisedAt = now])

FeedSetCursor(st, id) == [st EXCEPT !.feed.haveLast = TRUE, !.feed.lastFinalized = id]

FeedSetValue(st, id, value, tier) ==
  [st EXCEPT !.feed.haveValue = TRUE, !.feed.lastValue = value, !.feed.lastTier = tier,
             !.feed.lastRound = id, !.feed.lastFinalAt = now]

\* The feed serves round id as its latest.
Serves(st, id) == st.feed.haveValue /\ st.feed.lastRound = id

Unresolved(st, d) == d \in DOMAIN st.disputes /\ st.disputes[d].status # "resolved"

\* Mutants: promotion does not wait for a dispute, or stops at a void round.
HoldsPromotionUndisputed(st, id, t) ==
  /\ id \in DOMAIN st.rounds
  /\ \/ st.rounds[id].status = "open"
     \/ st.rounds[id].status = "aggregated" /\ st.rounds[id].finalisedAt + st.feed.disputeWindow > t

HoldsPromotionAtVoid(st, id, t) ==
  id \in DOMAIN st.rounds /\ (HoldsPromotionUndisputed(st, id, t) \/ Unresolved(st, st.rounds[id].disputeID)
                               \/ st.rounds[id].status = "void")

\* Promotion stops at a round that is open, in its dispute window or under dispute.
HoldsPromotion(st, id, t) ==
  /\ id \in DOMAIN st.rounds
  /\ LET rd == st.rounds[id] IN
     \/ rd.status = "open"
     \/ /\ rd.status = "aggregated"
        /\ \/ rd.finalisedAt + st.feed.disputeWindow > t
           \/ Unresolved(st, rd.disputeID)

\* Where the walk from the last-final cursor ends at time t.
WalkEnd(st, t) ==
  LET f == st.feed
      held_at == { id \in f.finalCursor .. f.lastFinalized : HoldsPromotion(st, id, t) }
  IN IF ~f.haveLast \/ f.finalCursor > f.lastFinalized THEN f.finalCursor
     ELSE IF held_at = {} THEN f.lastFinalized + 1 ELSE Min(held_at)

\* The aggregates a walk that ends at end passes over.
Passed(st, end) ==
  { id \in st.feed.finalCursor .. (end - 1) : id \in DOMAIN st.rounds /\ st.rounds[id].status = "aggregated" }

Recorded(f) == [ok |-> f.haveFinal, value |-> f.finalValue, round |-> f.finalRound, at |-> f.finalAt]

FinalRecord(rd, id) == [ok |-> TRUE, value |-> rd.value, round |-> id, at |-> rd.finalisedAt]

\* The newest of the aggregates passed, or what is on record.
Newest(st, passed) ==
  IF passed = {} THEN Recorded(st.feed) ELSE FinalRecord(st.rounds[Max(passed)], Max(passed))

\* The last final round as of t.
LatestFinal(st, t) == Newest(st, Passed(st, WalkEnd(st, t)))

SetFinal(st, lf, cursor) ==
  [st EXCEPT !.feed.haveFinal = lf.ok, !.feed.finalValue = lf.value, !.feed.finalRound = lf.round,
             !.feed.finalAt = lf.at, !.feed.finalCursor = cursor]

\* The walk, written back.  The code walks at most 64 rounds a call; fewer exist here.
FeedPromoteFinal(st) == SetFinal(st, LatestFinal(st, now), WalkEnd(st, now))

\* Mutant: the dust is lost.
SharesWithoutDust(f, n) ==
  LET drip == IF Recurs THEN Smaller(f.drip, f.pool) ELSE f.pool
      pool == drip + f.penaltyCarry
      tip == MulBps(pool, Param.crankTipBps)
  IN [drip |-> drip, tip |-> tip, each |-> IF n = 0 THEN 0 ELSE (pool - tip) \div n, dust |-> 0]

\* What a round pays n eligible providers each and the cranker, and what is carried on.
Shares(f, n) ==
  LET drip == IF Recurs THEN Smaller(f.drip, f.pool) ELSE f.pool
      pool == drip + f.penaltyCarry
      tip == MulBps(pool, Param.crankTipBps)
      each == IF n = 0 THEN 0 ELSE (pool - tip) \div n
  IN [drip |-> drip, tip |-> tip, each |-> each, dust |-> pool - tip - each * n]

PayShares(st, eligible, sh) ==
  LET n == Cardinality(eligible) IN
  Send([st EXCEPT !.feed.pool = @ - sh.drip, !.feed.penaltyCarry = sh.dust,
                  !.providers = [p \in Providers |->
                     IF p \in eligible THEN [st.providers[p] EXCEPT !.rewards = @ + sh.each]
                                       ELSE st.providers[p]],
                  !.held.pools = @ - (sh.each * n + sh.tip), !.held.rewards = @ + sh.each * n],
       sh.tip)

RoundPayout(st, eligible) == PayShares(st, eligible, Shares(st.feed, Cardinality(eligible)))

\* A method that changes a round also changes the served value's tier when it is the latest.
RoundMarkDisputed(st, id, d) ==
  LET s1 == PutRound(st, id, [st.rounds[id] EXCEPT !.disputeID = d, !.tier = "disputed"]) IN
  IF Serves(st, id) THEN [s1 EXCEPT !.feed.lastTier = "disputed"] ELSE s1

RoundOverturn(st, id, value) ==
  LET s1 == PutRound(st, id, [st.rounds[id] EXCEPT !.value = value, !.status = "aggregated", !.tier = "final"])
      s2 == IF st.feed.haveFinal /\ st.feed.finalRound = id
            THEN [s1 EXCEPT !.feed.finalValue = value] ELSE s1
  IN IF Serves(st, id) THEN [s2 EXCEPT !.feed.lastValue = value, !.feed.lastTier = "final"] ELSE s2

RoundVoid(st, id) ==
  LET s1 == PutRound(st, id, [st.rounds[id] EXCEPT !.status = "void", !.tier = "void"]) IN
  IF Serves(st, id) THEN [s1 EXCEPT !.feed.lastTier = "void"] ELSE s1

RoundRestartWindow(st, id, tier) ==
  LET s1 == PutRound(st, id, [st.rounds[id] EXCEPT !.status = "aggregated", !.tier = tier, !.finalisedAt = now]) IN
  IF Serves(st, id) THEN [s1 EXCEPT !.feed.lastTier = tier, !.feed.lastFinalAt = now] ELSE s1

-----------------------------------------------------------------------------
(* Bonds: what leaves held.bonds, and where it goes. *)

\* Back to the disputer or the appellant, or to the DAO for the voters.
BondRelease(st, amount) ==
  IF amount > 0
  THEN Send([Require(st, amount <= st.held.bonds) EXCEPT !.held.bonds = @ - amount], amount)
  ELSE st

FundVoters(st, amount) == BondRelease(st, amount)

BondToPool(st, amount) ==
  IF amount > 0
  THEN [Require(st, amount <= st.held.bonds)
          EXCEPT !.held.bonds = @ - amount, !.feed.penaltyCarry = @ + amount, !.held.pools = @ + amount]
  ELSE st

BondToFees(st, amount) ==
  IF amount > 0
  THEN [Require(st, amount <= st.held.bonds)
          EXCEPT !.held.bonds = @ - amount, !.held.feesPending = @ + amount]
  ELSE st

=============================================================================
