----------------------------- MODULE DaoMembers -----------------------------
(* Members of the DAO: stake, unstake, withdraw, settle, claim               *)
(* (dao/impl/v1/impl.gno).                                                   *)
EXTENDS DaoStore

CONSTANTS
  Stakes,    \* what a member may stake or unstake at once
  MaxFees    \* bound: coins ever forwarded as fees

\* Amounts are positive (state.gno:319, 345) and parameters in their ranges (params.gno:45-52).
ASSUME StakesAssumption ==
  /\ Stakes \subseteq Nat /\ MaxFees \in Nat
  /\ {Param.absenceSlashBps, Param.abstainSlashBps, Param.incoherenceSlashBps,
      Param.maxPenaltyPerWindowBps, Param.penaltyWindow, Param.settleMaxN, Param.stakerFeeShareBps} \subseteq Nat
  /\ Param.stakerFeeShareBps <= Bps

Rates == [absent |-> Param.absenceSlashBps, abstained |-> Param.abstainSlashBps,
          incoherent |-> Param.incoherenceSlashBps]

-----------------------------------------------------------------------------
(* Settlement: a cursor per member walks the ballots in the order in which   *)
(* they were opened, and waits at one whose outcome was not applied.         *)

\* Mutant: it does not wait for the outcome to be applied.
SettleableWhenDecided(st, seq) == seq \in DOMAIN st.ballots /\ st.ballots[seq].phase = "resolved"

Settleable(st, seq) ==
  seq \in DOMAIN st.ballots /\ st.ballots[seq].phase = "resolved" /\ st.ballots[seq].final

\* Mutant: what was taken before in the window is forgotten.
CapPenaltyAlone(st, m, penalty, resolvedAt) ==
  LET capped == Lesser(penalty, (Live(st.members[m]) * Param.maxPenaltyPerWindowBps) \div Bps)
  IN [at |-> st.members[m].penaltyWindowAt, inWindow |-> capped, penalty |-> capped]

\* The penalty after the cap of its window, which is keyed on when the ballot was decided.
CapPenalty(st, m, penalty, resolvedAt) ==
  LET mb == st.members[m]
      turned == resolvedAt - mb.penaltyWindowAt >= Param.penaltyWindow
      before == IF turned THEN 0 ELSE mb.penaltyInWindow
      room == ((Live(mb) + before) * Param.maxPenaltyPerWindowBps) \div Bps - before
      capped == Lesser(penalty, IF room < 0 THEN 0 ELSE room)
  IN [at |-> IF turned THEN resolvedAt ELSE mb.penaltyWindowAt, inWindow |-> before + capped, penalty |-> capped]

Charged(st, m, b, cap) ==
  MemberPenalise([st EXCEPT !.members[m].penaltyWindowAt = cap.at, !.members[m].penaltyInWindow = cap.inWindow],
                 m, cap.penalty, b.coherentWeight = 0)

\* Mutant: a share of what the member holds sealed, whatever it revealed.
RewardedSealed(st, m, b, w) ==
  MemberCreditReward(st, m, RewardShare(b.expectedPool, w, b.coherentWeight), RewardShare(b.bondShare, w, b.coherentWeight))

\* A share on the weight revealed, of which the coherent weight is the sum.
Rewarded(st, m, b, w) ==
  LET weight == Lesser(w, b.reveals[m].weight) IN
  MemberCreditReward(st, m, RewardShare(b.expectedPool, weight, b.coherentWeight),
                     RewardShare(b.bondShare, weight, b.coherentWeight))

\* An appealed first round settles like a rolled one.
OutcomeToSettle(b) == IF b.appealed THEN "ROLL" ELSE b.outcome

ClassOf(b, m) ==
  Classify(m \in DOMAIN b.reveals, IF m \in DOMAIN b.reveals THEN b.reveals[m].choice ELSE "", OutcomeToSettle(b))

SettledWith(st, m, b, w, class) ==
  CASE w <= 0 -> st
    [] w > 0 /\ class = "coherent" -> Rewarded(st, m, b, w)
    [] w > 0 /\ class \in DOMAIN Rates ->
         Charged(st, m, b, CapPenalty(st, m, Penalty(w, class, Rates), b.resolvedAt))
    [] OTHER -> st

\* Mutant: a ballot in which the member had no weight is not counted as settled.
SettleOneWeighed(st, m, b) ==
  LET w == Lesser(PowerAt(st, m, b.sealed), Live(st.members[m])) IN
  IF w <= 0 THEN st ELSE [SettledWith(st, m, b, w, ClassOf(b, m)) EXCEPT !.members[m].cursor = @ + 1]

\* One ballot: at the sealed weight, or at what is left of it.
SettleOne(st, m, b) ==
  [SettledWith(st, m, b, Lesser(PowerAt(st, m, b.sealed), Live(st.members[m])), ClassOf(b, m))
     EXCEPT !.members[m].cursor = @ + 1]

SettleNext(st, m) ==
  LET seq == st.members[m].cursor + 1 IN
  IF Settleable(st, seq) THEN SettleOne(st, m, st.ballots[seq]) ELSE st

\* At most maxN ballots.
Settle(st, m, maxN) ==
  LET after[n \in 0..maxN] == IF n = 0 THEN st ELSE SettleNext(after[n - 1], m)
  IN after[maxN]

\* Stake changes refuse to leave ballots behind that could be settled.
NothingLeftToSettle(st, m) == Require(st, ~Settleable(st, st.members[m].cursor + 1))

SettleStrictly(st, m) == NothingLeftToSettle(Settle(st, m, Param.settleMaxN), m)

-----------------------------------------------------------------------------
(* Handlers.                                                                 *)

StakeChecked(st, m, amount) ==
  MemberStake(Require(st, st.members[m].staked + amount >= Param.minStake), m, amount)

Stake(m, amount) ==
  Commit(StakeChecked(IF members[m].known THEN SettleStrictly(Store, m) ELSE Store, m, amount))

\* Everything, or so much that the minimum is left; and the floor while it vests.
UnstakeChecked(st, m, amount) ==
  LET rest == st.members[m].staked - amount
      allowed == rest >= 0 /\ (rest = 0 \/ rest >= Param.minStake)
                 /\ (now < st.members[m].vestedUntil => rest >= st.members[m].vestFloor)
  IN MemberUnstake(Require(st, allowed), m, amount, now + Param.unstakeCooldown)

RequestUnstake(m, amount) ==
  members[m].known /\ Commit(UnstakeChecked(SettleStrictly(Store, m), m, amount))

\* Mutant: nothing obligates a stake that unbonds.
NoObligation(st, m) == FALSE

\* A ballot that is not final and in which the member holds weight.
OpenObligation(st, m) ==
  \E seq \in st.members[m].cursor + 1 .. Len(st.ballots) :
    ~Settleable(st, seq) /\ PowerAt(st, m, st.ballots[seq].sealed) > 0

PaidUnlessObliged(st, m) == MemberPayUnbonded(Require(st, ~OpenObligation(st, m)), m)

Withdraw(m) ==
  /\ members[m].known /\ members[m].unbondAmount > 0
  /\ now >= members[m].unbondReadyAt
  /\ Commit(PaidUnlessObliged(SettleStrictly(Store, m), m))

SettleMember(m, maxN) == members[m].known /\ Commit(Settle(Store, m, maxN))

ClaimFees(m) == members[m].known /\ Commit(MemberPayFees(FeesSync(Store), m))

ClaimRewards(m) == members[m].known /\ Commit(MemberPayRewards(Settle(Store, m, Param.settleMaxN), m))

SyncFees == Commit(FeesSync(Store))

\* The core's ForwardFees, or anyone's transfer: coins arrive without a call.
CoinsArrive(amount) == fees.received + ugnot - held.knownUgnot + amount <= MaxFees /\ Commit([Store EXCEPT !.ugnot = @ + amount])

MemberOps ==
  \/ \E m \in Members, amount \in Stakes : Stake(m, amount) \/ RequestUnstake(m, amount)
  \/ \E m \in Members : Withdraw(m) \/ ClaimFees(m) \/ ClaimRewards(m)
  \/ \E m \in Members, maxN \in 1..Param.settleMaxN : SettleMember(m, maxN)
  \/ SyncFees
  \/ \E amount \in 1..MaxFees : CoinsArrive(amount)

=============================================================================
