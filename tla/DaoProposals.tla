---------------------------- MODULE DaoProposals ----------------------------
(* Proposals (dao/impl/v1/proposals.gno): a deposit or a share of the stake  *)
(* opens one, sealed weights vote, and what is carried waits for its         *)
(* timelock.                                                                 *)
(*                                                                           *)
(* A payload is a record of a kind, an amount, a member and a time.  What a kind     *)
(* changes outside this realm (the core, the court mirror, an upgrade) is    *)
(* "external": it succeeds or panics.                                        *)
EXTENDS DaoMembers

CONSTANTS
  Payloads,      \* what is proposed: [kind, amount, member, until]
  Rules,         \* by kind: quorumBps, thresholdBps, voting and timelock (kindRules)
  Deposits,      \* coins a proposer may attach
  MaxProposals,  \* bound: proposals ever opened
  Year           \* the length of a year of mints

ASSUME PayloadsAssumption == \A payload \in Payloads : payload.member \in Members /\ payload.amount \in Nat
ASSUME DepositsAssumption == Deposits \subseteq Nat

VARIABLE minted  \* by year, what was minted

ProposalChoices == {"YES", "NO", "ABSTAIN"}

\* All the PYTH there is.
TotalSupply(st) == st.pyth + SumFunction([m \in Members |-> st.wallets[m]])

MintedInYear(y) == IF y \in DOMAIN minted THEN minted[y] ELSE 0

VotingOpen(p) == p.status = "active" /\ now < p.votingEnds

-----------------------------------------------------------------------------
(* Opening.                                                                  *)

\* The live proposals among the newest ones.
CountActive(st) ==
  LET n == Len(st.proposals) IN
  Cardinality({ id \in DOMAIN st.proposals : id > n - 2 * Param.maxActiveProposals /\ VotingOpen(st.proposals[id]) })

AboveBar(st, m) ==
  st.members[m].staked > 0 /\ st.members[m].staked * Bps >= st.power.total.cur * Param.proposeBps

NewProposal(st, m, payload, deposit) ==
  LET r == Rules[payload.kind]
      ends == now + r.voting
      opened == [payload |-> payload, proposer |-> m, sealed |-> epoch, votingEnds |-> ends,
                 executable |-> ends + r.timelock, expires |-> ends + r.timelock + Param.executionWindow,
                 quorumBps |-> r.quorumBps, thresholdBps |-> r.thresholdBps, deposit |-> deposit,
                 status |-> "active", votes |-> << >>, yes |-> 0, no |-> 0, abstain |-> 0]
  IN [Require(st, st.held.knownUgnot + deposit <= st.ugnot)
        EXCEPT !.proposals = Append(@, opened), !.held.depositUgnot = @ + deposit, !.held.knownUgnot = @ + deposit]

\* Coins that come with a proposal that needs none stay: the next sync shares them out.
Propose(m, payload, sent) ==
  /\ Len(proposals) < MaxProposals
  /\ CountActive(Store) < Param.maxActiveProposals
  /\ AboveBar(Store, m) \/ sent >= Param.proposalDeposit
  /\ Commit(NewProposal([Store EXCEPT !.ugnot = @ + sent], m, payload, IF AboveBar(Store, m) THEN 0 ELSE sent))
  /\ UNCHANGED minted

-----------------------------------------------------------------------------
(* Voting.                                                                   *)

\* The sealed weight, or what is still staked of it.
WeightAt(st, m, e) == Lesser(PowerAt(st, m, e), st.members[m].staked)

Counted(st, id, m, choice, weight) ==
  [st EXCEPT !.proposals[id].votes = [x \in DOMAIN @ \cup {m} |-> IF x = m THEN choice ELSE @[x]],
             !.proposals[id].yes = IF choice = "YES" THEN @ + weight ELSE @,
             !.proposals[id].no = IF choice = "NO" THEN @ + weight ELSE @,
             !.proposals[id].abstain = IF choice = "ABSTAIN" THEN @ + weight ELSE @]

\* Mutant: a member votes again.
ProposalVoteAgain(st, id, m, choice, weight) == Counted(st, id, m, choice, weight)

ProposalVote(st, id, m, choice, weight) ==
  Counted(Require(st, m \notin DOMAIN st.proposals[id].votes), id, m, choice, weight)

Vote(m, id, choice) ==
  /\ id \in DOMAIN proposals /\ VotingOpen(proposals[id])
  /\ WeightAt(Store, m, proposals[id].sealed) > 0
  /\ Commit(ProposalVote(Store, id, m, choice, WeightAt(Store, m, proposals[id].sealed)))
  /\ UNCHANGED minted

-----------------------------------------------------------------------------
(* Executing.                                                                *)

SetStatus(st, id, status) == [st EXCEPT !.proposals[id].status = status]

DepositForfeit(st, id) ==
  [st EXCEPT !.held.depositUgnot = @ - st.proposals[id].deposit, !.proposals[id].deposit = 0]

\* Mutant: the refund comes out of the treasury.
DepositRefundAgain(st, id) ==
  LET amount == st.proposals[id].deposit IN IF amount = 0 THEN st ELSE SendUgnot(st, amount)

DepositRefund(st, id) ==
  LET amount == st.proposals[id].deposit IN
  IF amount = 0 THEN st ELSE SendUgnot(DepositForfeit(st, id), amount)

ProposalQuorate(st, p) ==
  LET total == TotalPowerAt(st, p.sealed) IN
  total > 0 /\ (p.yes + p.no + p.abstain) * Bps >= total * p.quorumBps

Carried(p) == p.yes > 0 /\ p.yes * Bps > (p.yes + p.no) * p.thresholdBps

\* The first call after the vote records how it went, and what becomes of the deposit.
Tallied(st, id, p) ==
  IF ~ProposalQuorate(st, p) THEN SetStatus(DepositForfeit(st, id), id, "rejected")
  ELSE SetStatus(DepositRefund(st, id), id, IF Carried(p) THEN "passed" ELSE "rejected")

TreasurySendUgnot(st, amount) == SendUgnot(Require(st, amount > 0 /\ amount <= TreasuryUgnot(st)), amount)

\* Mutant: what backs members' rewards is spent too.
TreasurySendPythReserved(st, m, amount) ==
  SendPyth(Require(st, amount > 0 /\ amount <= TreasuryPyth(st)), m, amount)

TreasurySendPyth(st, m, amount) ==
  SendPyth(Require(st, amount > 0 /\ amount <= TreasuryPythFree(st)), m, amount)

MintAllowed(st, amount) ==
  MintedInYear(now \div Year) + amount <= (TotalSupply(st) * Param.maxMintPerYearBps) \div Bps

Minted(st, m, amount) == [Require(st, amount > 0 /\ MintAllowed(st, amount)) EXCEPT !.wallets[m] = @ + amount]

Vested(st, m, until, floor) ==
  [Require(st, st.members[m].known) EXCEPT !.members[m].vestedUntil = until, !.members[m].vestFloor = floor]

\* What a proposal does; an external effect succeeds or not.
Applied(st, payload, succeeds) ==
  CASE payload.kind = "treasury-ugnot" -> TreasurySendUgnot(st, payload.amount)
    [] payload.kind = "treasury-pyth" -> TreasurySendPyth(st, payload.member, payload.amount)
    [] payload.kind = "mint" -> Minted(st, payload.member, payload.amount)
    [] payload.kind = "vesting" -> Vested(st, payload.member, payload.until, payload.amount)
    [] OTHER -> Require(st, succeeds)

Runs(st, id) == st.proposals[id].status = "passed" /\ now >= st.proposals[id].executable

\* Recorded as executed before the effect runs; an effect that panics reverts the call.
Executed(st, id, succeeds) ==
  IF ~Runs(st, id) THEN st
  ELSE IF now > st.proposals[id].expires THEN SetStatus(st, id, "expired")
  ELSE Applied(SetStatus(st, id, "executed"), st.proposals[id].payload, succeeds)

AfterTally(id) == IF proposals[id].status = "active" THEN Tallied(Store, id, proposals[id]) ELSE Store

MintsNow(id) ==
  Runs(AfterTally(id), id) /\ ~(now > proposals[id].expires) /\ proposals[id].payload.kind = "mint"

Execute(id, succeeds) ==
  /\ id \in DOMAIN proposals
  /\ proposals[id].status \in {"active", "passed"} /\ now >= proposals[id].votingEnds
  /\ Commit(Executed(AfterTally(id), id, succeeds))
  /\ minted' = IF MintsNow(id)
               THEN [y \in DOMAIN minted \cup {now \div Year} |->
                       IF y = now \div Year THEN MintedInYear(y) + proposals[id].payload.amount ELSE minted[y]]
               ELSE minted

\* A cancelled proposal forfeits its deposit.
Cancel(m, id) ==
  /\ id \in DOMAIN proposals /\ proposals[id].proposer = m /\ VotingOpen(proposals[id])
  /\ Commit(SetStatus(DepositForfeit(Store, id), id, "canceled"))
  /\ UNCHANGED minted

ProposalOps ==
  \/ \E m \in Members, payload \in Payloads, sent \in Deposits : Propose(m, payload, sent)
  \/ \E m \in Members, id \in DOMAIN proposals :
       Cancel(m, id) \/ \E choice \in ProposalChoices : Vote(m, id, choice)
  \/ \E id \in DOMAIN proposals, succeeds \in BOOLEAN : Execute(id, succeeds)

=============================================================================
