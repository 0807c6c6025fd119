------------------------------ MODULE MCOneOff ------------------------------
(* A categorical one-off feed: its only round is played, missed, disputed,  *)
(* voided, pruned and, once, reopened, while providers leave, are jailed    *)
(* for missing it and return.  A trusted realm asked for it, adds to its    *)
(* bounty and may see it deprecated.                                        *)
EXTENDS MCCore

OneOffSpec == [BaseSpec EXCEPT !.recurring = FALSE, !.numeric = FALSE, !.submitWindow = 1,
                               !.disputeWindow = 1, !.resolveAt = 2,
                               !.fromRealm = TRUE, !.trusted = TRUE, !.bounty = 15]
OneOffParam == [BaseParam EXCEPT !.missSlashBps = 0, !.roundRetention = 0]

\* Nobody joins once the bounty was added to: it goes back to the requester in the end.
Seat(p) == feed.pool <= Spec0.bounty /\ Register(p)

\* Leaving while the dispute window runs is the same as leaving before or after it.
Depart(p) == now # 3 /\ RequestUnbond(p)

OneOffNext ==
  \/ Tick
  \/ \E p \in Providers : Seat(p) \/ Depart(p) \/ Unjail(p)
  \/ RoundOps
  \/ DisputeOps
  \/ \E maxRounds \in PruneBatches : PruneRounds(maxRounds)
  \/ feed.status = "none" /\ credits[Proposer] = 0 /\ DepositFor(Proposer)
  \/ ProposeFeed
  \/ now = 1 /\ feed.activeCount = 0 /\ feed.pool <= Spec0.bounty /\ FundBounty
  \/ now > 3 /\ DeprecateFeed(FALSE)
  \/ PruneFeed

SpecOneOff == Init /\ [][OneOffNext]_vars

=============================================================================
