---------------------------- MODULE CoreProviders ----------------------------
(* Providers joining, leaving and being paid out (impl/v1/providers.gno),    *)
(* and the retirement of a feed, which unseats them all.                     *)
EXTENDS CoreStore

CONSTANTS
  Supply,     \* bound: coins in existence; outside accounts hold what the realm does not
  Overpay,    \* what a generous caller sends beyond the price
  Gifts       \* what is sent where nothing is asked

\* What a caller may attach to a call that asks for amount.
Payments(amount) == { x \in {amount, amount + Overpay} : x > 0 /\ balance + x <= Supply }

Given == { x \in Gifts : balance + x <= Supply }

Serving(f) == f.status \in {"active", "unfunded"}

\* The first round a provider seated now owes.
ObligedFrom(f) ==
  IF ~Started(Sched(f), now) THEN 0
  ELSE IF Recurs THEN Current(Sched(f), now) + 1 ELSE 1

FreeSlots(st) == { s \in Slots : st.slots[s] = NoOne }

\* The slots of the active providers among who are cleared, and all of who start unbonding.
Leave(st, who) ==
  LET seated == { st.providers[p].slot : p \in { q \in who : st.providers[q].status = "active" } } IN
  ProviderStartUnbond(FeedClearSlots(st, seated, ObligedFrom(st.feed)), who, now + Param.unbondPeriod)

Member(p) == providers[p].status \in {"active", "jailed"}

\* Nothing will be served again: every active or jailed provider starts unbonding.
Retire(st) ==
  FeedSetStatus(Leave(st, { p \in Providers : st.providers[p].status \in {"active", "jailed"} }), "deprecated")

-----------------------------------------------------------------------------

\* Mutant: a provider may take a second slot.
RegisterAgain(p) ==
  /\ Serving(feed) /\ feed.activeCount < Spec0.maxProviders /\ FreeSlots(Store) # {}
  /\ Recurs \/ ~Started(Sched(feed), now)
  /\ \E sent \in Payments(feed.providerMinStake) :
       LET s == Min(FreeSlots(Store))
           from == ObligedFrom(feed)
       IN Commit(FeedAssignSlot(NewProvider(Receive(Store, sent), p, sent, s, from), s, p, from))

Register(p) ==
  /\ Serving(feed)
  /\ providers[p].status = "none"
  /\ feed.activeCount < Spec0.maxProviders
  /\ Recurs \/ ~Started(Sched(feed), now)
  /\ FreeSlots(Store) # {}
  /\ \E sent \in Payments(feed.providerMinStake) :
       LET s == Min(FreeSlots(Store))
           from == ObligedFrom(feed)
       IN Commit(FeedAssignSlot(NewProvider(Receive(Store, sent), p, sent, s, from), s, p, from))

TopUp(p) ==
  /\ Member(p)
  /\ Overpay \in Payments(Overpay)
  /\ Commit(ProviderAddStake(Receive(Store, Overpay), p, Overpay))

RequestUnbond(p) == Member(p) /\ Commit(Leave(Store, {p}))

\* The authority's ejection takes the same path.
ForceUnbond(p) == Member(p) /\ Commit(Leave(Store, {p}))

Withdraw(p) ==
  /\ providers[p].status = "unbonding"
  /\ now >= providers[p].unbondReadyAt
  /\ Commit(ProviderDelete(RewardPay(ProviderPayUnbonded(Store, p), p), p))

\* The record of a provider back in the active set: its counters start anew.
Unjailed(pr, s, from) ==
  [pr EXCEPT !.status = "active", !.slot = s, !.consecutiveMisses = 0, !.strikes = 0,
             !.strikeWindowStart = from, !.obligedFrom = from]

Unjail(p) ==
  /\ providers[p].status = "jailed"
  /\ now >= providers[p].jailedAt + Param.jailCooldown
  /\ Serving(feed)
  /\ feed.activeCount < Spec0.maxProviders
  /\ providers[p].stake >= feed.providerMinStake
  /\ FreeSlots(Store) # {}
  /\ LET s == Min(FreeSlots(Store))
         from == ObligedFrom(feed)
     IN Commit(FeedAssignSlot([Store EXCEPT !.providers[p] = Unjailed(@, s, from)], s, p, from))

ClaimRewards(p) ==
  /\ providers[p].status # "none"
  /\ providers[p].rewards > 0
  /\ Commit(RewardPay(Store, p))

ProviderOps ==
  \E p \in Providers :
    Register(p) \/ TopUp(p) \/ RequestUnbond(p) \/ ForceUnbond(p) \/ Withdraw(p) \/ Unjail(p) \/ ClaimRewards(p)

=============================================================================
