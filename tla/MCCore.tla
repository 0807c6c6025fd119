------------------------------- MODULE MCCore -------------------------------
(* What the model-checking modules of the core share: governed parameters    *)
(* and a spec with times and counts scaled down (ratios and shares stay      *)
(* within the bounds of core/params.gno and spec.gno), and the states a      *)
(* feed is in after being proposed, activated and joined by providers.       *)
EXTENDS Core, SequencesExt

BaseParam ==
  [feedDeposit |-> 5, subscriptionPeriod |-> 4, feeSplitProvidersBps |-> 7000,
   roundRetention |-> 2, minRoundsKept |-> 1, retentionAfterDeprecate |-> 2, deadFeedRounds |-> 3,
   missSlashBps |-> 500, missSlashCapPerEpochBps |-> 800, providerEpoch |-> 6, alerterShareBps |-> 5000,
   jailAfterMisses |-> 2, jailCooldown |-> 1, maxJailings |-> 2, strikesToJail |-> 2,
   strikeWindowRounds |-> 2, minorSlashBps |-> 2000, majorSlashBps |-> 5000, minorsToMajor |-> 2,
   unbondPeriod |-> 6, crankTipBps |-> 1000,
   minDisputeBond |-> 11, disputeBondBps |-> 100, disputeEscalationWindow |-> 3, appealWindow |-> 1,
   appealBondMultiple |-> 2, appealConsumeBps |-> 2500, voidConsumeBps |-> 2000,
   forfeitSplitWinnerBps |-> 5000, forfeitSplitVotersBps |-> 3000]

BaseSpec ==
  [recurring |-> TRUE, numeric |-> TRUE, interval |-> 2, submitWindow |-> 2, minProviders |-> 1,
   maxProviders |-> Cardinality(Slots), toleranceBps |-> 1000, quarantineBps |-> 5000,
   subscriptionPrice |-> 100, subscriberPrice |-> 20, providerMinStake |-> 400, disputeWindow |-> 2,
   fromRealm |-> FALSE, trusted |-> FALSE, sponsored |-> FALSE, bounty |-> 60, resolveAt |-> 3]

Ballots == <<1, 1>>
Lead == [min |-> 1, max |-> 2]
ShortLead == [min |-> 1, max |-> 1]
NoUpdates == {}

Symmetric == Permutations(Providers)

-----------------------------------------------------------------------------

Deposited(st, acct, amount) == CreditDeposit(Receive(st, amount), acct, amount)

Filed ==
  LET st == FeedSetStatus(NewStore, "proposed") IN
  CreditSpendOnFeed(Deposited(st, Proposer, Param.feedDeposit + Funding), Proposer, Param.feedDeposit, Funding)

Bonded(st, p, s) ==
  LET stake == st.feed.providerMinStake
      from == ObligedFrom(st.feed)
  IN FeedAssignSlot(NewProvider(Receive(st, stake), p, stake, s, from), s, p, from)

\* The feed as activated now, with the providers of seats registered in its order.
Joined(seats) == FoldLeftDomain(LAMBDA st, i : Bonded(st, seats[i], i - 1), Activate(Filed), seats)

Seatings(n) == { seats \in [1..n -> Providers] : \A i, j \in 1..n : seats[i] = seats[j] => i = j }

JoinedInit(n) == now = 1 /\ \E seats \in Seatings(n) : Joined(seats).ok /\ Installed(Joined(seats))

=============================================================================
