----------------------------- MODULE MCDisputes -----------------------------
(* A recurring feed whose rounds are disputed: two disputes at most, of one *)
(* round or of two, with every outcome, appeals, second ballots, slashes    *)
(* and ejections, while rounds go on, a provider leaves and rounds are      *)
(* pruned.                                                                  *)
EXTENDS MCCore

DisputesSpec == [BaseSpec EXCEPT !.submitWindow = 1, !.subscriptionPrice = 1]
DisputesParam == [BaseParam EXCEPT !.missSlashBps = 0, !.jailAfterMisses = 9, !.strikesToJail = 9,
                                   !.roundRetention = 0, !.deadFeedRounds = 9]

\* The provider of slot 0 submits the smallest value to rounds 0 and 1; that of slot 1 any
\* value to round 0.
LastPlayed == 1

Played ==
  \E p \in Providers, id \in OpenedRounds \cap 0..LastPlayed, v \in Values :
    /\ IF providers[p].slot = 0 THEN v = Min(Values) ELSE id < LastPlayed
    /\ Submit(p, id, v)

\* The provider of slot 0 may leave between a decision and its application.
Leaving == \E d \in DOMAIN disputes : disputes[d].status = "decided"

DisputesNext ==
  \/ Tick
  \/ Played
  \/ CatchUp
  \/ DisputeOps
  \/ \E p \in Providers : providers[p].slot = 0 /\ Leaving /\ RequestUnbond(p)
  \/ \E maxRounds \in PruneBatches : PruneRounds(maxRounds)

SpecDisputes == JoinedInit(2) /\ [][DisputesNext]_vars

=============================================================================
