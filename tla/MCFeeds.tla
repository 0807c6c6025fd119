------------------------------- MODULE MCFeeds -------------------------------
(* The life of a feed from its proposal to the pruning of its last record,   *)
(* with its funding, one provider and at most two rounds.                    *)
EXTENDS MCCore

CONSTANT Until   \* bound: the last block time at which a feed is funded or changed by a vote

RecurringSpec == [BaseSpec EXCEPT !.interval = 1, !.submitWindow = 1, !.subscriptionPrice = 10,
                                  !.subscriberPrice = 10, !.providerMinStake = 20, !.disputeWindow = 1]

\* A period's payment pays for one round.
FeedsParam == [BaseParam EXCEPT !.unbondPeriod = 2, !.roundRetention = 0, !.retentionAfterDeprecate = 1,
                                !.deadFeedRounds = 1, !.missSlashBps = 500, !.appealWindow = 1,
                                !.subscriptionPeriod = 1]

\* The feed is priced at nothing: one whose pool could not pay a round goes on when subscribed to.
Freed == [subscriberPrice |-> 0, subscriptionPrice |-> 0, providerMinStake |-> 20, toleranceBps |-> 1000,
          quarantineBps |-> 5000, disputeWindow |-> 1]
Changes == {Freed}

FeedsNext ==
  \/ Tick
  \/ ProviderOps
  \/ RoundOps
  \/ now <= Until /\ FundingOps
  \/ SubscribeFree
  \/ FeedOps

SpecFeeds == Init /\ [][FeedsNext]_vars

=============================================================================
