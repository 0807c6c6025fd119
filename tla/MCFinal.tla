------------------------------ MODULE MCFinal ------------------------------
(* The final value of a feed of one provider, whose rounds follow closely    *)
(* and are disputed in any order, against what FinalFeed promises; and the   *)
(* same with everyone who is due to act acting eventually.                   *)
EXTENDS MCCore

CONSTANTS
  DisputeUntil,  \* bound: the last block time at which a dispute is opened
  LateUntil,     \* bound: the block time from which on nothing that is due waits
  LastPlayed     \* bound: the last round that takes a submission

FinalSpec == [BaseSpec EXCEPT !.interval = 1, !.submitWindow = 1, !.subscriptionPrice = 1, !.disputeWindow = 2]
FinalParam == [BaseParam EXCEPT !.missSlashBps = 0, !.jailAfterMisses = 9, !.strikesToJail = 9,
                                !.roundRetention = 0, !.deadFeedRounds = 9]

\* The dispute window is made longer.
Longer ==
  [subscriberPrice |-> FinalSpec.subscriberPrice, subscriptionPrice |-> FinalSpec.subscriptionPrice,
   providerMinStake |-> FinalSpec.providerMinStake, toleranceBps |-> FinalSpec.toleranceBps,
   quarantineBps |-> FinalSpec.quarantineBps, disputeWindow |-> 3]
Widening == {Longer}

Played == \E p \in Providers, id \in OpenedRounds \cap 0..LastPlayed, v \in Values : Submit(p, id, v)

\* Either two disputes are opened early, or one once the window was made longer for rounds
\* that may have become final.
Widened == now = LateUntil /\ disputes = << >> /\ \E u \in Updates : UpdateFeed(u)

Disputed ==
  /\ IF feed.disputeWindow > FinalSpec.disputeWindow THEN now = LateUntil /\ disputes = << >>
                                                     ELSE now <= DisputeUntil
  /\ \E acct \in Accounts, id \in DOMAIN rounds, v \in Values : Dispute(acct, id, v, "minor")

Resolution == \E n \in DOMAIN disputes : ResolveDispute(n)

Events ==
  \/ Played
  \/ CatchUp
  \/ Disputed
  \/ Resolution
  \/ \E maxRounds \in PruneBatches : PruneRounds(maxRounds)
  \/ Widened

-----------------------------------------------------------------------------

CatchUpDue == Serving(feed) /\ ClosedNext # {}

ResolutionDue ==
  \E n \in UnresolvedOnes :
    IF disputes[n].status = "decided" THEN now >= disputes[n].decidedAt + Param.appealWindow
                                      ELSE BallotDone(disputes[n])

\* The agents and the bot crank what is due, closed rounds (CatchUp) and disputes whose
\* ballot or appeal window ended (ResolveDispute): they poll every few seconds, windows
\* are days.  They may be late, or down, until LateUntil; after that they are back
\* and crank within a unit of time, so that the bounded clock does not run out first.
FinalTick == (now < LateUntil \/ (~CatchUpDue /\ ~ResolutionDue)) /\ Tick

Appealed == \E acct \in Accounts, n \in DOMAIN disputes : Appeal(acct, n)

FinalNext == FinalTick \/ Events \/ Appealed

\* Each of the last two conditions is weak fairness of an action that is enabled exactly
\* when it is due.
Cranked ==
  /\ WF_vars(FinalTick)
  /\ <>[]CatchUpDue => []<><<CatchUp>>_vars
  /\ <>[]ResolutionDue => []<><<Resolution>>_vars

SpecFinal == JoinedInit(1) /\ [][FinalNext]_vars /\ Cranked

\* Nothing stops the final value: every aggregated round is in the end the last final round,
\* overtaken by a later one, or void - no dispute, appeal, rolled ballot or restarted window
\* holds promotion back for ever.
EveryAggregateSettles ==
  \A id \in 0..LastPlayed :
    (id \in DOMAIN rounds /\ rounds[id].status = "aggregated") ~>
      \/ ReadFinal.ok /\ ReadFinal.round >= id
      \/ id \in DOMAIN rounds /\ rounds[id].status = "void"

=============================================================================
