------------------------------ MODULE DaoStore ------------------------------
(***************************************************************************)
(* The tables of the DAO realm (dao/state.gno, dao/money.gno) and the      *)
(* StateRef methods that change members, fees and ballots.                 *)
(*                                                                         *)
(* As in CoreStore, Store is the record of all tables, a method is an      *)
(* operator from a store to a store, and Commit installs what a handler    *)
(* made of it unless a method panicked (st.ok).  A member is absent while  *)
(* it is not known; a ballot is absent when its number is not in DOMAIN    *)
(* ballots.  Members' wallets hold the PYTH they could stake.              *)
(***************************************************************************)
EXTENDS Tally, Checkpoint, Ledger

CONSTANTS
  Members,   \* accounts that may stake
  Param      \* the governed parameters, a record by their names

ASSUME MembersAssumption == IsFiniteSet(Members)

VARIABLES
  now,        \* block time
  epoch,      \* the voting-weight epoch, height / epochBlocks + 1
  members,    \* the Member records
  power,      \* the checkpointed stakes
  fees,       \* the fee accumulator
  ballots,    \* the Ballot records, numbered from 1, with their commits and reveals
  proposals,  \* the Proposal records, numbered from 1, with their votes
  held,       \* what the realm's balances are made of
  ugnot,      \* the coins the realm has
  pyth,       \* the PYTH the realm has
  wallets     \* the PYTH members have

tables == <<members, power, fees, ballots, proposals, held, ugnot, pyth, wallets>>

Store ==
  [members |-> members, power |-> power, fees |-> fees, ballots |-> ballots, proposals |-> proposals,
   held |-> held, ugnot |-> ugnot, pyth |-> pyth, wallets |-> wallets, ok |-> TRUE]

Installed(st) ==
  /\ members = st.members /\ power = st.power /\ fees = st.fees /\ ballots = st.ballots
  /\ proposals = st.proposals /\ held = st.held /\ ugnot = st.ugnot /\ pyth = st.pyth
  /\ wallets = st.wallets

Commit(st) ==
  /\ st.ok
  /\ members' = st.members
  /\ power' = st.power
  /\ fees' = st.fees
  /\ ballots' = st.ballots
  /\ proposals' = st.proposals
  /\ held' = st.held
  /\ ugnot' = st.ugnot
  /\ pyth' = st.pyth
  /\ wallets' = st.wallets
  /\ now' = now /\ epoch' = epoch

Require(st, cond) == [st EXCEPT !.ok = @ /\ cond]

Lesser(a, b) == IF a <= b THEN a ELSE b

NoMember ==
  [known |-> FALSE, staked |-> 0, unbondAmount |-> 0, unbondReadyAt |-> 0, cursor |-> 0,
   pendingUgnot |-> 0, pendingPyth |-> 0, vestedUntil |-> 0, vestFloor |-> 0,
   penaltyWindowAt |-> 0, penaltyInWindow |-> 0, fee |-> NoPosition]

NothingHeld ==
  [stakedPyth |-> 0, unbondingPyth |-> 0, rewardPyth |-> 0, feeUgnot |-> 0, rewardUgnot |-> 0,
   depositUgnot |-> 0, knownUgnot |-> 0, pendingPyth |-> 0]

Live(mb) == mb.staked + mb.unbondAmount

PowerAt(st, m, e) == ValueAt(st.power.series[m], e)
TotalPowerAt(st, e) == ValueAt(st.power.total, e)

-----------------------------------------------------------------------------
(* Coins and tokens (money.gno).                                             *)

SendUgnot(st, amount) ==
  [Require(st, amount > 0 /\ amount <= st.ugnot /\ amount <= st.held.knownUgnot)
     EXCEPT !.ugnot = @ - amount, !.held.knownUgnot = @ - amount]

SendPyth(st, m, amount) ==
  [Require(st, amount <= st.pyth) EXCEPT !.pyth = @ - amount, !.wallets[m] = @ + amount]

PullPyth(st, m, amount) ==
  [Require(st, amount <= st.wallets[m]) EXCEPT !.pyth = @ + amount, !.wallets[m] = @ - amount]

TreasuryUgnot(st) == st.held.knownUgnot - st.held.feeUgnot - st.held.rewardUgnot - st.held.depositUgnot

TreasuryPyth(st) == st.pyth - st.held.stakedPyth - st.held.unbondingPyth - st.held.rewardPyth

\* The part of the credited rewards that the penalty pool does not cover.
ReservedPyth(st) ==
  LET owed == st.held.pendingPyth - st.held.rewardPyth IN IF owed > 0 THEN owed ELSE 0

TreasuryPythFree(st) ==
  LET free == TreasuryPyth(st) - ReservedPyth(st) IN IF free < 0 THEN 0 ELSE free

-----------------------------------------------------------------------------
(* Fees.                                                                     *)

FeesBumped(st, delta, toStakers) ==
  [st EXCEPT !.fees = Bump(@, toStakers), !.held.feeUgnot = @ + toStakers, !.held.knownUgnot = @ + delta]

\* Attributes the coins that arrived since the last time.
FeesSync(st) ==
  LET delta == st.ugnot - st.held.knownUgnot IN
  IF delta <= 0 THEN st ELSE FeesBumped(st, delta, (delta * Param.stakerFeeShareBps) \div Bps)

\* A member's position follows its stake; whoever changes a stake syncs the fees first.
Reshared(st, m, shares) ==
  [st EXCEPT !.fees = Rebased(@, st.members[m].fee, shares),
             !.members[m].fee = Holding(st.fees, @, shares)]

PaidFees(st, m, amount) ==
  LET claimed == [st EXCEPT !.fees = PaidTo(@, st.members[m].fee), !.members[m].fee = Claimed(st.fees, @)]
  IN IF amount = 0 THEN claimed ELSE SendUgnot([claimed EXCEPT !.held.feeUgnot = @ - amount], amount)

MemberPayFees(st, m) == PaidFees(st, m, Owed(st.fees, st.members[m].fee))

-----------------------------------------------------------------------------
(* Stakes.  A change of stake counts from the next epoch on.                 *)

\* Mutant: it counts from this epoch on.
PowerSetNow(st, m) == [st EXCEPT !.power = BookSet(@, m, epoch, st.members[m].staked)]

PowerSet(st, m) ==
  [Require(st, CanSet(st.power, m, epoch + 1, st.members[m].staked))
     EXCEPT !.power = BookSet(@, m, epoch + 1, st.members[m].staked)]

\* A newcomer owes nothing for the ballots opened before.
Joined(st, m) ==
  IF st.members[m].known THEN st
  ELSE [st EXCEPT !.members[m] =
          [NoMember EXCEPT !.known = TRUE, !.penaltyWindowAt = now, !.cursor = Len(st.ballots)]]

Staked(st, m, amount) ==
  [Reshared(st, m, st.members[m].fee.shares + amount)
     EXCEPT !.members[m].staked = @ + amount, !.held.stakedPyth = @ + amount]

MemberStake(st, m, amount) ==
  PowerSet(Staked(PullPyth(Joined(FeesSync(st), m), m, amount), m, amount), m)

Unstaked(st, m, amount, readyAt) ==
  [Reshared(st, m, st.members[m].fee.shares - amount)
     EXCEPT !.members[m].staked = @ - amount, !.members[m].unbondAmount = @ + amount,
            !.members[m].unbondReadyAt = readyAt,
            !.held.stakedPyth = @ - amount, !.held.unbondingPyth = @ + amount]

MemberUnstake(st, m, amount, readyAt) ==
  PowerSet(Unstaked(FeesSync(Require(st, amount <= st.members[m].staked /\ st.members[m].unbondAmount = 0)),
                    m, amount, readyAt), m)

MemberPayUnbonded(st, m) ==
  LET amount == st.members[m].unbondAmount IN
  SendPyth([st EXCEPT !.members[m].unbondAmount = 0, !.held.unbondingPyth = @ - amount], m, amount)

-----------------------------------------------------------------------------
(* Penalties and rewards.                                                    *)

Taken(st, m, fromStake, fromUnbond, toTreasury) ==
  PowerSet([(IF fromStake > 0 THEN Reshared(st, m, st.members[m].fee.shares - fromStake) ELSE st)
     EXCEPT !.members[m].staked = @ - fromStake, !.members[m].unbondAmount = @ - fromUnbond,
            !.held.stakedPyth = @ - fromStake, !.held.unbondingPyth = @ - fromUnbond,
            !.held.rewardPyth = IF toTreasury THEN @ ELSE @ + fromStake + fromUnbond], m)

\* From the stake first, then from what unbonds; to the pool for coherent voters, or to the
\* treasury when there is none to pay.
MemberPenalise(st, m, amount, toTreasury) ==
  LET fromStake == Lesser(amount, st.members[m].staked)
      fromUnbond == Lesser(amount - fromStake, st.members[m].unbondAmount)
  IN IF amount <= 0 THEN st
     ELSE IF fromStake + fromUnbond = 0 THEN FeesSync(st)
     ELSE Taken(FeesSync(st), m, fromStake, fromUnbond, toTreasury)

MemberCreditReward(st, m, inPyth, inUgnot) ==
  [st EXCEPT !.members[m].pendingPyth = @ + inPyth, !.held.pendingPyth = @ + inPyth,
             !.members[m].pendingUgnot = @ + inUgnot]

\* Mutant: rewards are paid from the pool although it has less.
PayPythFromPool(st, m, amount) ==
  SendPyth([st EXCEPT !.held.rewardPyth = @ - amount,
                      !.members[m].pendingPyth = @ - amount, !.held.pendingPyth = @ - amount], m, amount)

\* The PYTH leg: from the penalty pool first, then from the treasury.
PayPyth(st, m, amount) ==
  SendPyth([st EXCEPT !.held.rewardPyth = @ - Lesser(amount, @),
                      !.members[m].pendingPyth = @ - amount, !.held.pendingPyth = @ - amount], m, amount)

PayUgnot(st, m, amount) ==
  IF amount = 0 THEN st
  ELSE SendUgnot([st EXCEPT !.members[m].pendingUgnot = 0, !.held.rewardUgnot = @ - amount], amount)

\* What neither pool nor treasury covers stays pending; the ugnot leg does not wait for it.
MemberPayRewards(st, m) ==
  LET amount == Lesser(st.members[m].pendingPyth, st.held.rewardPyth + TreasuryPyth(st)) IN
  PayUgnot(IF amount > 0 THEN PayPyth(st, m, amount) ELSE st, m, st.members[m].pendingUgnot)

-----------------------------------------------------------------------------
(* Ballots (records only; impl/v1/ballots.gno drives them).                  *)

NewBallot(st, dispute, round, major, obligated, commitEnds, revealEnds, prev) ==
  [st EXCEPT !.ballots = Append(@,
    [dispute |-> dispute, round |-> round, majorRequested |-> major, sealed |-> epoch,
     obligated |-> obligated, phase |-> "commit", commitEnds |-> commitEnds, revealEnds |-> revealEnds,
     tally |-> NoWeights, top |-> << >>, commits |-> << >>, reveals |-> << >>,
     outcome |-> "", tier |-> "", coherentWeight |-> 0, expectedPool |-> 0, bondShare |-> 0,
     resolvedAt |-> 0, prev |-> prev, final |-> FALSE, appealed |-> FALSE])]

BallotCommit(st, seq, m, choice) ==
  [st EXCEPT !.ballots[seq].commits = [x \in DOMAIN @ \cup {m} |-> IF x = m THEN choice ELSE @[x]]]

BallotReveal(st, seq, m, choice, weight, top) ==
  [Require(st, m \notin DOMAIN st.ballots[seq].reveals)
     EXCEPT !.ballots[seq].reveals = [x \in DOMAIN @ \cup {m} |->
                                        IF x = m THEN [choice |-> choice, weight |-> weight] ELSE @[x]],
            !.ballots[seq].tally[choice] = @ + weight,
            !.ballots[seq].top = top,
            !.ballots[seq].phase = "reveal"]

\* A rolled ballot is final at once: nothing will be funded for it.
BallotResolve(st, seq, outcome, tier, coherent, pool) ==
  [st EXCEPT !.ballots[seq].phase = "resolved", !.ballots[seq].outcome = outcome,
             !.ballots[seq].tier = tier, !.ballots[seq].coherentWeight = coherent,
             !.ballots[seq].expectedPool = pool, !.ballots[seq].resolvedAt = now,
             !.ballots[seq].final = @ \/ outcome = "ROLL"]

BallotFund(st, seq, amount) ==
  [Require(st, amount = 0 \/ st.held.knownUgnot + amount <= st.ugnot)
     EXCEPT !.ballots[seq].final = TRUE, !.ballots[seq].bondShare = @ + amount,
            !.held.rewardUgnot = @ + amount, !.held.knownUgnot = @ + amount]

BallotSupersede(st, seq, pool) ==
  [Require(st, st.ballots[seq].phase = "resolved" /\ ~st.ballots[seq].final)
     EXCEPT !.ballots[seq].appealed = TRUE, !.ballots[seq].coherentWeight = 0,
            !.ballots[seq].expectedPool = pool, !.ballots[seq].final = TRUE]

=============================================================================
