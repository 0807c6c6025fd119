--------------------------------- MODULE Dao ---------------------------------
(***************************************************************************)
(* The DAO realm: members and their stakes, fees, dispute ballots and      *)
(* proposals, and what must hold of them together.                         *)
(***************************************************************************)
EXTENDS DaoBallots, DaoProposals

CONSTANTS
  Allotted,  \* the PYTH each member starts with
  Treasury,  \* the PYTH the realm starts with
  MaxTime,   \* bound on block time
  MaxEpoch   \* bound on epochs

ASSUME WalletsAssumption == Allotted \in Nat /\ Treasury \in Nat

vars == <<now, epoch, tables, disputes, minted>>

EmptyStore ==
  [members |-> [m \in Members |-> NoMember], power |-> EmptyBook(Members), fees |-> NoFees,
   ballots |-> << >>, proposals |-> << >>, held |-> NothingHeld, ugnot |-> 0, pyth |-> Treasury,
   wallets |-> [m \in Members |-> Allotted], ok |-> TRUE]

Init ==
  /\ now = 1 /\ epoch = 1 /\ minted = << >>
  /\ disputes = [d \in Disputes |-> NoDispute]
  /\ Installed(EmptyStore)

\* Epochs are counted in blocks (720) and deadlines in seconds, and neither follows from the
\* other; but a cooldown is of 3 days at least, so the stake it is about no longer counts when
\* it ends.
CooldownOutlastsEpoch ==
  \A m \in Members : members[m].unbondAmount > 0 /\ members[m].unbondReadyAt <= now + 1 => power.series[m].curE <= epoch

Tick == now < MaxTime /\ CooldownOutlastsEpoch /\ now' = now + 1 /\ UNCHANGED <<epoch, tables, disputes, minted>>

NextEpoch == epoch < MaxEpoch /\ epoch' = epoch + 1 /\ UNCHANGED <<now, tables, disputes, minted>>

Next ==
  \/ Tick \/ NextEpoch
  \/ MemberOps /\ UNCHANGED <<disputes, minted>>
  \/ VoterOps /\ UNCHANGED minted
  \/ CoreOps /\ UNCHANGED minted
  \/ ProposalOps /\ UNCHANGED disputes

Spec == Init /\ [][Next]_vars

-----------------------------------------------------------------------------
(* Stakes.                                                                   *)

SumOf(amount) == SumFunction([m \in Members |-> members[m][amount]])

\* Amounts are never negative, and a cursor never passes the newest ballot: what the int64
\* fields of state.gno:30-126 are meant to hold.  Of the fees (feeUgnot) more may be credited
\* than came in (DustStays of MCPackages), and the last claims may so bring them below zero.
DaoTypeOK ==
  /\ ugnot >= 0 /\ pyth >= 0
  /\ \A f \in DOMAIN held \ {"feeUgnot"} : held[f] >= 0
  /\ \A m \in Members :
       /\ \A f \in DOMAIN NoMember \ {"known", "fee"} : members[m][f] >= 0
       /\ members[m].cursor <= Len(ballots)
       /\ wallets[m] >= 0

\* What the realm books as staked, as voting power and as shares of the fees is the sum of the
\* members' stakes, member by member; likewise what unbonds and what is owed in rewards; the
\* PYTH of the realm covers it all, and none is lost or made but by mints (state.gno:315-462).
StakesAddUp ==
  /\ \A m \in Members : power.series[m].cur = members[m].staked /\ members[m].fee.shares = members[m].staked
  /\ held.stakedPyth = SumOf("staked")
  /\ power.total.cur = held.stakedPyth /\ fees.totalShares = held.stakedPyth
  /\ held.unbondingPyth = SumOf("unbondAmount")
  /\ held.pendingPyth = SumOf("pendingPyth")
  /\ TreasuryPyth(Store) >= 0
  /\ TotalSupply(Store) = Treasury + Cardinality(Members) * Allotted
                            + SumFunction(minted)

\* No call changes what anybody's weight was at an epoch that has begun: a ballot or a proposal
\* sealed there can look it up whenever it likes (ballots.gno:22-34, plan "sealed").
SealedWeightFixed ==
  [][\A m \in Members, e \in 1..epoch : ValueAt(power'.series[m], e) = PowerAt(Store, m, e)]_vars

\* A member's stake stays where a ballot it has not settled can charge it: what it staked at the
\* seal is still staked or unbonding, but for penalties (impl.gno:78-111; the penalties are
\* those of the current window, so this is for runs in which the window does not turn).
StakeWaits ==
  \A m \in Members : \A seq \in members[m].cursor + 1 .. Len(ballots) :
    PowerAt(Store, m, ballots[seq].sealed) <= Live(members[m]) + members[m].penaltyInWindow

-----------------------------------------------------------------------------
(* Coins.                                                                    *)

\* What the coherent voters of a ballot get of a pool.
Shared(b, pool) ==
  SumFunction([m \in { x \in DOMAIN b.reveals : ClassOf(b, x) = "coherent" } |->
                 RewardShare(pool, b.reveals[m].weight, b.coherentWeight)])

\* The coins of the realm cover what it knows of, and those cover the fees, rewards and
\* deposits it owes; deposits are those of the proposals, and the rewards in coins that members
\* were credited have arrived; and the shares of a ballot's coherent voters add up to no more
\* than its pool, and than the coins the core sent for it (state.gno:494-635, 770-798,
\* ballots.gno:163-203, tally.gno:341-356).
CoinsCovered ==
  /\ held.knownUgnot <= ugnot /\ TreasuryUgnot(Store) >= 0
  /\ held.depositUgnot = SumFunction([id \in DOMAIN proposals |-> proposals[id].deposit])
  /\ SumOf("pendingUgnot") <= held.rewardUgnot
  /\ \A seq \in DOMAIN ballots : LET b == ballots[seq] IN
       b.phase = "resolved" => Shared(b, b.expectedPool) <= b.expectedPool /\ Shared(b, b.bondShare) <= b.bondShare

\* Rewards in PYTH for which neither pool nor treasury has the money.
Uncovered == held.pendingPyth - held.rewardPyth - TreasuryPyth(Store)

\* Nobody gets at the treasury but by a vote, and not even by one at what backs rewards.  Only a
\* proposal that was carried takes coins out of it: claims, refunds, rewards and syncs never do;
\* and nothing but the settlements that credit more rewards makes the realm unable to pay those
\* it credited: no vote, and no claim that settles nothing (state.gno:526-555, 646-652).
TreasuryGuarded ==
  /\ [][TreasuryUgnot(Store)' < TreasuryUgnot(Store)
          => \E id \in DOMAIN proposals : /\ proposals[id].status # "executed" /\ proposals'[id].status = "executed"
                                          /\ proposals[id].payload.kind = "treasury-ugnot"]_vars
  /\ [][(\A m \in Members : members'[m].cursor = members[m].cursor) /\ Uncovered' > 0
          => Uncovered' <= Uncovered]_vars

\* At most maxActiveProposals are live at once (docs/IMPLEMENTATION_PLAN.md:987).
ActiveBounded == Cardinality({ id \in DOMAIN proposals : VotingOpen(proposals[id]) }) <= Param.maxActiveProposals

-----------------------------------------------------------------------------
(* Ballots.                                                                  *)

RevealedFor(b, c) == { m \in DOMAIN b.reveals : b.reveals[m].choice = c }
RevealedWeight(b, S) == SumFunction([m \in S |-> b.reveals[m].weight])

\* No more is revealed than was sealed, member by member and in all, and a tally is the sum of
\* the reveals, so also for proposals; and clipping the few heaviest reveals a ballot keeps is
\* clipping them all, for the cap is so large that no other can be above it (ballots.gno:120-154,
\* proposals.gno:105-136, tally.gno:130-199, params.gno:49).
TurnoutExact ==
  /\ \A seq \in DOMAIN ballots : LET b == ballots[seq] IN
       /\ \A m \in DOMAIN b.reveals : b.reveals[m].weight <= PowerAt(Store, m, b.sealed)
       /\ \A c \in BallotChoices : b.tally[c] = RevealedWeight(b, RevealedFor(b, c))
       /\ Total(b.tally) <= b.obligated
       /\ Clip(b.tally, b.top, Param.maxVoterShareBps, b.obligated)
            = [c \in BallotChoices |->
                 b.tally[c] - SumFunction([m \in RevealedFor(b, c) |->
                                             Excess(b.reveals[m].weight, Param.maxVoterShareBps, b.obligated)])]
  /\ \A id \in DOMAIN proposals : LET p == proposals[id] IN
       p.yes + p.no + p.abstain <= TotalPowerAt(Store, p.sealed)

\* A member with weight in a ballot is not settled past it before its outcome was applied
\* (impl.gno:154-227).
CursorWaits ==
  \A m \in Members, seq \in DOMAIN ballots :
    (members[m].known /\ seq <= members[m].cursor /\ PowerAt(Store, m, ballots[seq].sealed) > 0) => ballots[seq].final

\* Time passes, somebody calls the core when a ballot or its appeal window is over, and
\* somebody settles each member: the calls are open to all, and the bot makes them.
Decides(d) == FirstDue(d) /\ Ended(Store, BallotOf(Store, d)).ok

Closes(d) ==
  LET seq == BallotOf(Store, d) IN
  \/ WindowDue(d) /\ \E amount \in VoterShares : FundVoters(Store, seq, amount).ok
  \/ SecondDue(d) /\ \E amount \in VoterShares : FundVoters(Ended(Store, seq), seq, amount).ok

Settles(m) == LET settled == Settle(Store, m, 1) IN settled.ok /\ settled.members[m] # members[m]

View == INSTANCE ClientViews

\* A client that reads views and the clock does neither too early nor too late what the chain
\* would take: it commits and reveals exactly in the phases in which votes are taken, though the
\* phase on chain lags; the bot resolves exactly the disputes and settles exactly the members
\* there is something to do for; and whoever it reminds to reveal can, if the ballot offers what
\* was committed, and whoever it does not would not be absent (views.go:286-297,
\* cranker.go:104-132, 178-204, reminders.go:67-83).
ClientsSeeBallots ==
  /\ \A seq \in DOMAIN ballots :
       LET b == ballots[seq]
           phase == View!LivePhase(b, now)
       IN /\ (phase = "commit") = CanCommit(seq)
          /\ (phase = "reveal") = CanReveal(seq)
          /\ phase = "reveal" =>
               \A m \in Members :
                 LET committed == m \in DOMAIN b.commits
                     reminded == View!Missing(phase, committed, m \in DOMAIN b.reveals)
                     offered == committed /\ ValidChoice(b.commits[m], b.majorRequested)
                     weight == MemberWeight(Store, m, b.sealed)
                 IN /\ reminded /\ offered /\ weight > 0 => Revealed(Store, seq, m, b.commits[m], weight).ok
                    /\ committed /\ ~reminded => m \in DOMAIN b.reveals
  /\ \A d \in Disputes :
       LET seq == BallotOf(Store, d)
           ballot == IF seq = 0 THEN << >> ELSE ballots[seq]
           windowEnds == IF disputes[d].status = "decided" THEN ballot.resolvedAt + Param.appealWindow ELSE 0
       IN View!ResolveReady(disputes[d].status, seq # 0, ballot, windowEnds, now)
            = (FirstDue(d) \/ WindowDue(d) \/ SecondDue(d))
  /\ \A m \in Members :
       IF View!SettleReady(members[m].known, members[m].cursor, ballots) THEN Settles(m)
       ELSE ~(members[m].known /\ Settleable(Store, members[m].cursor + 1))

\* Weak fairness of ResolveOpen, of ResolveDecided and ResolveAppealed, and of SettleMember, with
\* the conditions under which they are enabled written out.
Fairness ==
  /\ WF_vars(Tick) /\ WF_vars(NextEpoch)
  /\ \A d \in Disputes :
       /\ []<>~Decides(d) \/ []<><<ResolveOpen(d)>>_vars
       /\ []<>~Closes(d) \/ []<><<\E amount \in VoterShares : ResolveDecided(d, amount) \/ ResolveAppealed(d, amount)>>_vars
  /\ \A m \in Members : []<>~Settles(m) \/ []<><<SettleMember(m, 1)>>_vars

\* A deadline of the dispute that the bounds on time and epochs do not let come.
Beyond(d) ==
  LET b == ballots[BallotOf(Store, d)] IN
  \/ epoch = MaxEpoch /\ ~CooldownOutlastsEpoch
  \/ b.phase # "resolved" /\ b.revealEnds > MaxTime
  \/ b.phase = "resolved" /\ ~b.final /\ b.resolvedAt + Param.appealWindow > MaxTime

\* Every ballot that was opened is settled for every member in the end, whatever was voted,
\* rolled or appealed, so nobody's stake is held for ever (impl.gno:78-111, 154-227).
EverySettled ==
  \A d \in Disputes, m \in Members :
    disputes[d].status # "none" /\ members[m].known ~> members[m].cursor = Len(ballots) \/ Beyond(d)

\* Penalties take no more of a member than its cap in a window, of what it had before the first
\* of them, however many ballots a call settles within it (impl.gno:229-249).
PenaltiesCapped ==
  [][\A m \in Members :
       LET after == members'[m]
           lost == Live(members[m]) - Live(after)
       IN pyth' = pyth /\ lost > 0 /\ after.penaltyWindowAt = members[m].penaltyWindowAt
            => /\ after.penaltyInWindow >= members[m].penaltyInWindow + lost
               /\ after.penaltyInWindow * Bps <= (Live(after) + after.penaltyInWindow) * Param.maxPenaltyPerWindowBps]_vars

\* The ballots of a dispute, as the core sees them.
HouseView ==
  [d \in Disputes |->
     LET seq == BallotOf(Store, d)
         view(round, stage, outcome) == [round |-> round, stage |-> stage, outcome |-> outcome]
     IN IF seq = 0 THEN view(0, "none", "")
        ELSE IF ballots[seq].phase # "resolved" THEN view(ballots[seq].round, "voting", "")
        ELSE view(ballots[seq].round, IF ballots[seq].final THEN "applied" ELSE "decided", ballots[seq].outcome)]

House == INSTANCE BallotHouse WITH house <- HouseView

\* What the realm does with its ballots is what a ballot house promises the core: in
\* particular no ballot that decides nothing ends a dispute, and what was applied stays.
KeepsHouse == House!Spec

=============================================================================
