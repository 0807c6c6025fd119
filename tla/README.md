# Gnoracle in TLA+

A verification project for Gnoracle, an oracle run by a DAO on gno.land
(`src/README.md`, `src/docs/IMPLEMENTATION_PLAN.md`). Providers stake on a feed and
submit a value every round; the realm aggregates the submissions into one served
value; anyone may dispute a value; the DAO's members vote on the dispute. The
modules here are translated from the code, model-checked with TLC, and part of them
is proved with TLAPS.

## The system

| part | state it keeps | operations | what makes it correct |
|---|---|---|---|
| round calendar (`p/.../rounds`) | none: functions of a schedule and the time | which round is current, open, closed, next; how many wait | at most one open round; the closed-form backlog equals the walk |
| aggregation (`p/.../agg`) | none | median, plurality, tolerance, tier, splits | a majority bounds the value; somebody is always eligible |
| core store (`core/state.gno`, `money.gno`) | feeds, providers, slots and their log, rounds, disputes, credits, categories of coins held | `StateRef` methods, each checked for the live implementation | every category is the sum of its records; the realm is solvent |
| providers (`core/impl/v1/providers.gno`) | provider records, slots | register, top up, unbond, withdraw, unjail, claim, eject | the views of the seating agree; nobody is locked in |
| rounds (`core/impl/v1/rounds.gno`) | round records, the cursor | submit, finalise, catch up | one order of rounds; judged by the holders of record; never stuck |
| disputes (`core/impl/v1/disputes.gno`) | dispute records, bonds, the final value | dispute, appeal, resolve, reopen a one-off | final values never change; every outcome applies; everything settles |
| feeds (`core/impl/v1/feeds.gno`) | the feed record, its pool and deposit | propose, activate, update, fund, deprecate, prune | nothing left behind at the end |
| consumers (`core/impl/v1/consumers.gno`) | credits, subscriptions | deposit, subscribe, read | what is served stands |
| entry points, proxy, parameters (`core/core.gno`, `params.gno`) | the live implementation, pending authority, parameters | forward, register, accept, roll back, hand over | two steps, seven days, bounded changes |
| DAO (`dao/`) | stakes and their checkpoints, the fee accumulator, ballots, proposals | stake, commit, reveal, finish, settle, propose, vote, execute | votes are sealed and counted once; penalties and rewards balance |
| Kourt mirror (`kourt/`) | mirror records, court coin | crank, abandon, withdraw, redeem | no order of others' calls wedges a record; nothing is left behind |
| agent (`src/agent`) | memory of rounds in a state file, a cached duty | poll, crank, submit, claim | one value a round; an open window is answered |
| bot (`src/bot`) | a block cursor, keys sent, stamps of attempts, in a state file | scan, announce, crank, remind | no event lost; what failed is tried again |
| client and command line (`src/internal/gnochain`, `src/cmd`) | vote records, one file a ballot | simulate, sign, broadcast; commit, reveal | the salt of a commitment is kept; what a view says is what the chain does |

How they interact. Every call is a transaction and runs alone; a panic undoes it.
The core realm's entry points forward to the live implementation, which reads the
tables and changes them through `StateRef`. A dispute opens a ballot in the DAO
through an interface (`BallotHouse`, `core/hooks.gno`), asks for
its result, and pays it its voters' share. Fees go to the DAO's ledger with
`ForwardFees`. Consumers are realms that call `Read` inside their own transaction.
Agents, the bot and the command line read the chain over RPC and send transactions, late,
twice or not at all; they crash between a transaction and the file that remembers it. So
there is no concurrency inside the realm: what is hard there is the order of
calls by independent parties and the clock between them (who held a slot when, a
window that closes, a ballot that ends, a parameter that changed), money through
several roundings, and handlers that must never panic because nothing else can
finish the work. What is hard outside it is that every view is stale when it is used, and
that a crash, a lost answer or a failed write may come between any two steps.

`PROJECT.json` lists every part with what is modelled of it, and under `hazards`
what in this code is hard to test, each at its line.

## Modules

```
Schedule  Aggregation                    Checkpoint  Ledger  Tally        pure packages
      \     /                                  \       |      /
     CoreStore                                     DaoStore               tables, and StateRef
         |                                             |                  methods as operators
     CoreProviders   join, leave, be paid          DaoMembers   stake, leave, settle, claim
         |                                           /      \
     CoreRounds      submit, finalise         DaoBallots   DaoProposals
         |                                           \      /
     CoreDisputes    dispute, resolve                 Dao ............ BallotHouse
         |                                          / | \               (abstract)
         |             PayProofs --- DaoProofs ---'  |  `---.
     CoreFeeds       a feed's life, reading      MCBallots MCStakes MCProposals
         |
     Core --- CoreProofs --- RoundProofs --- CoinProofs
       : |                        |                          SumProofs: sums, for RoundProofs, DaoProofs
       : |                   FinalProofs
       : |
       : MCCore --- MCRounds MCAgent MCDisputes MCOneOff MCFeeds MCFinal
   FinalFeed
  (abstract)

ClientSchedule   the calendar's copy off the chain          ClientViews   what is concluded from views
     |                                                         |
   Agent (on CoreRounds)                                    KourtMirror   a dispute's mirror, and its court
   Sources    from sources to a value                       Voter     commit, reveal
   BotWatch, BotCrank    the scan, the cranks
          ClientProofs: of BotWatch, BotCrank, Voter and KourtMirror
```

`MCPackages` checks what runs alone: `Schedule` with `ClientSchedule`, `Aggregation`,
`Ledger`, `Sources`, `BotWatch`, `BotCrank`, `Voter` and `KourtMirror`, one at
a time. `MCAgent` runs `Agent` on the core it serves; `MCBallots` reads `ClientViews` beside
the DAO it concludes about.

How the state of a realm corresponds to the code. `Store` is the record of all tables
(of `core/state.gno`, of `dao/state.gno`); a `StateRef` method is an operator from a store
to a store; a handler is a composition of them; `Commit` installs the result. `st.ok`
becomes false where a method would panic, and `Commit` refuses such a store, which is how a
transaction reverts: "no panic" is then a property of the handlers (`CrankNeverPanics`,
`ExitNeverPanics`, `ResolutionNeverPanics`). `Require` is a panic that the handler's
early returns do not already exclude.

Abstractions of the core.

- One feed. Feeds share only prepaid credit, the coin categories and the balance, which
  change by what one feed's handler moves.
- Loops over slots in `finalise` touch one provider each. The model judges all holders
  at once and sums the coins; `OneSeatPerRound` (no provider holds two slots of one
  round) is what makes that the same, and it is proved.
- `CatchUp(maxRounds)` is the step for one round, repeated.
- The promotion walk is bounded by 64 rounds a call in the code; the models have fewer.
- A ballot ends when its period has passed and then has any outcome the DAO can report
  (`BallotOutcomes`). `BallotHouse` states that promise, and `MCBallots` shows that the DAO
  keeps it.
- `PaidUntil`, the sponsor and subscription tables, the read gate (`mayRead`),
  `ReadRound`, `FeesPay`, memos and events are left out: no modelled decision reads
  them. The `,unfunded` suffix of a tier is left out.
- The strike window is computed on unsigned round numbers: `Strike` treats a start
  beyond the round as long past, which is what the wrapped difference does.

Abstractions of the DAO.

- Time and the epoch (a count of blocks) advance independently, within
  `CooldownOutlastsEpoch`, the relation `dao/params.gno` keeps between them.
- Parameters do not change. `TopK` is 2 and the cap on a voter 5000 bps: what matters is that
  `TopK` voters at the cap make up the whole, as eight do at the code's smallest cap.
- A commitment is the choice it hides: the hash binds and nobody else reads it.
- A dispute moves as `CoreDisputes` moves one, and pays voters an amount from a small set.
- The `external` payload stands for every effect outside these tables (core, mirror,
  upgrades, parameters): it succeeds or panics. The checks of a payload's form are left out.
- Notes, the trimming of histories and the queue of unbonding entries (parts of their packages that
  no realm uses), and what a view returns are left out.

Abstractions off the chain.

- `Agent` is one feed's runner with every step of a pass an action of its own: it reads a
  view, the chain moves on, it acts on what it read. A transaction is simulated, signed with
  the account's number and broadcast; it may land, land late, or never. `SeeFeed` is what
  reads `json/feed`, `ReadObliged` the obligation, `Crank` to `BackoffEnds` the crank,
  `Check` to `AnswerSubmit` the submission, `Claim` the rewards, `Keep` the saving of the
  state file. `GasRounds` stands for the gas limit: how many rounds one transaction can finalise.
- `Sources` takes what the adapters answered to what is sent: numbers or labels, aggregated,
  scaled and bounded. Numbers are small rationals; `IntMax` is the 64-bit bound.
- `BotWatch` reads a block in one step and posts one event a step; a post that failed counts
  as tried, as it does in the code. A chain started anew is an action.
- `BotCrank` is a list of jobs; what each is worth is `ClientViews` and `ClientSchedule`.
  Every view and call takes time (`Elapse`).
- `Voter` has one home directory, voters that share it, and one command at a time. A
  commitment is what it hides with its salt; a transaction does not outlive its ballot.
- `KourtMirror` follows one resolved dispute. The court is external: its calls are what the
  release says of them (`impl.gno:6-31`) and asks of them. One clock of hours stands for its seconds
  and its epochs of blocks; an amount of court coin is a few units.

`FinalFeed` is what a consumer that acts only on final values relies on: the final value
is the newest round before every contested one, is never withdrawn or rewritten and never
goes back, but as a longer dispute window (`UpdateFeed`) allows. That breaks the promise at once,
as far as rounds not yet passed for good are pending again (`Widen`), or leaves a final value in
doubt: it stays, and is overruled if the dispute it is open to again overturns it (`Overrule`).
`FinalDoubted` says of the core when: the final round can be disputed, is disputed, void or awaited
again, or was played again with another value. `MCFinal` maps the core onto it (pending
rounds, the contested ones among them, `ReadFinal`, the window and the doubt). `BallotHouse` is what the core relies on: a ballot opened for a dispute
ends, once, with an outcome that never changes, and a second one follows a first only by
appeal.

Lines that begin `Mutant:` introduce variants of the operator below them with a plausible
bug. No module uses them; they are listed in `PROJECT.json`, and each property fails when
its mutant takes the operator's place.

## Runs

Times, counts and stakes are scaled down; ratios and shares keep within the bounds of
`core/params.gno` and `dao/params.gno`. Every bound is a constant.

- Core: `Supply` (coins in existence), `Overpay` (what a caller sends beyond the price),
  `MaxTime`, `MaxDisputes`, `LastPlayed` and `DisputeUntil` (last round played, last time
  disputed), `LateUntil` (from then on nothing due waits), `Until` (last time funded).
- DAO: `MaxTime`, `MaxEpoch`, `MaxFees` (fees that arrive), `MaxProposals`, `Stakes`,
  `Deposits`, `VoterShares` (amounts), `Allotted` (a wallet's PYTH), `Treasury`.
- Packages: `Limit`, `MaxShares`, `MaxBumps`, `MaxMoves`; `Scale` and
  `MaxAccPerShare` are the fixed point and the ceiling of the fee accumulator, made small
  enough for the ceiling to be met.
- Agent: `MaxTime`, `GasRounds` (one: any finalisation nobody saw coming is too much), and
  `MaxFaults`: crashes, answers waited for in vain, reads and writes that fail, and departures.
- Clients: `MaxSources`, `IntMax`; `MaxBlocks`, `MaxHeight`, `MaxMishaps`; `StartClock` and
  `EndClock`, `MaxFailures`; `MaxSalts`, `MaxTroubles`, `LastRound`.
- Mirror: the court's clocks in hours, `MaxHour`, and `MaxDeeds` (acts of holders and of the authority).

They stop the counters, and the runs stop where time does, so deadlock is not checked.

| run | instance | shows |
|---|---|---|
| `MCPackages`, on the chain | schedules with start to 3, interval to 4, time to 14; five slots, four values with 0 and a near pair, three tolerances; two holders, two fees, four changes | the backlog as every cranker sees it, one open round (`CrankersSeeBacklog`), the median for every order (`MedianOK`); rounding that leaks at most a unit per change (`LeakBounded`) |
| `MCPackages`, off the chain | four sources; two blocks, a chain started anew, two mishaps; jobs of two kinds, one failure; two voters, two ballots, three salts, two troubles | what is sent is an answer of the sources (`SourcesOK`); no event is lost (`EveryEventTried`), no job passed over twice (`RetriedSoon`), no salt lost (`SaltKept`) |
| `MCPackages`, the mirror | eight hours of a court, two acts of its holders or of the authority | the mirror moves on and leaves nothing behind (`MirrorMovesOn`) |
| `MCRounds` | two providers, two slots, five rounds, jail on one miss | seats, log: departures, jailings, ejection after two, returns, dead feed |
| `MCAgent`, by hand | two providers, rounds up to time 5, a pool of two rounds refilled once; the provider of slot 0 always submits the smallest value | conservation through rewards, tips, slashes, dust, departures (`CoinsConserved`); no miss slash passes the cap of its epoch (`MissSlashCapped`) |
| `MCAgent`, served | one of the providers has an agent; the other submits or does not, others crank, its operator leaves and returns, one fault | a round is answered once (`OwnSubmissionKept`); a pass that finds the window open delivers (`PassDelivers`) |
| `MCDisputes` | two providers, two rounds, two disputes with both tiers; the provider of slot 0 submits the smallest value and may leave once a dispute is decided | links, bonds and the served value under every outcome, appeal, roll, ejection, departure and pruning |
| `MCFinal` | one provider, two close rounds, two disputes, appeals; or one dispute after the window was made longer, of a round that was final or not | the refinement of `FinalFeed`, and `EveryAggregateSettles` under fairness |
| `MCOneOff` | categorical, two providers, asked for by a trusted realm that pays from credit; reopened once | the second round 0 after prune, jail, void; conservation through bounty and refund |
| `MCFeeds` | one provider, recurring, funded, overpaid, then priced at nothing and subscribed to for nothing | the whole life of a feed, in coins |
| `MCBallots` | three members who weigh 10, 30 and 60 of 100, capped at 50; one dispute, two rounds | weights, clipping, penalties and pools (no fees or proposals: what `TurnoutExact` says of those is checked in `MCProposals`, and `CoinsCovered` is proved); settlement behind the outcome; the refinement of `BallotHouse`; clients that conclude from views what the chain would do (`ClientsSeeBallots`) |
| `MCStakes` | two members, one of whom leaves and returns; three epochs, one dispute voted on once, again after a roll, or appealed | sealed weights, exits that wait, sums, and `EverySettled` under fairness |
| `MCProposals` | three members, one voter with rewards due and one still to be penalised; one proposal of five kinds; fees that reach the members | the treasury is spent by vote only, and never what backs the rewards; a vote on a proposal counts once, as sealed (`TurnoutExact`) |

Why these bounds are enough for the cases that matter. Two providers are what a seat can
be handed over between, and what submissions can disagree among; two slots let one be
free. Two disputes on two rounds give every order of an earlier and a later contest, and
two on one round the repeated slash and the escalation to major (`minorsToMajor` is 2).
Jail, ejection, the miss cap, the strike window and the dead-feed count are all reached
within the rounds of the run that is about them. Three members are what clipping needs with
two kept at the top (one above the cap, one that matters to whether it is clipped, one that
is pushed out); the weights give decisions for either side, abstention, and no quorum. Three
epochs hold a stake before, during and after the one that is sealed; time to 6 is what a ballot opened
at 1 takes, with periods of one, to be rolled or appealed and its second ballot applied. Symmetry over providers
is used where no temporal formula is checked beyond action properties. One fault of an agent is
enough for a late landing or a crash at any step; two mishaps of the bot, for a crash after an
unsaved pass; two troubles of a voter, for a killed command after a lost answer. Two acts on
a court are a stake and an answer, an answer and its dispute, or a dispute and another in escrow.

Fairness. Two specifications assume any.

- `SpecFinal`: the clock advances, and what is due to be cranked (a closed round, a dispute
  whose ballot or appeal window has ended) is cranked in the end. Cranks may be late until
  `LateUntil`; afterwards they come before the clock moves on, so that the bounded clock does
  not run out first. Nothing is assumed of submissions, disputes, appeals or ballots'
  outcomes: a ballot that ends has *some* outcome.
- `SpecStakes`: the clock and the epochs advance, a ballot that is due is resolved and its pools are paid,
  and members with something to settle are settled. Nothing is assumed of votes, stakes or appeals.

The code justifies them: every agent's tick finalises or catches up its feed
(`src/agent/agent.go`, crank), the bot finalises, resolves and settles on a timer
(`src/bot/cranker.go`), and both poll in seconds where windows are hours or days; each of
these calls may be made by anybody. The fairness formulas name the enabling conditions
themselves, with the action under them.

### Where code and documents disagree

Two runs expect a violation; each is a finding in `PROJECT.json`.

| run | property | what happens |
|---|---|---|
| `MCOneOffStuck` | `FinalKeepsUp` | a reopened one-off keeps its promotion cursor, so its new outcome never becomes final |
| `MCProposalsActive` | `ActiveBounded` | cancelled proposals push live ones out of the view `countActive` has, and more than `maxActiveProposals` go live |

More were met while modelling and have no run:

- an overturned round is labelled final before `ReadFinal` returns it
  (`core/state.gno:1597`; `docs/IMPLEMENTATION_PLAN.md:627` says a value is labelled final "only once it is the round `ReadFinal` returns");
- forfeit shares for winner and voters may each be the whole (`core/params.gno:73-74`, and nothing
  bounds their sum): a resolution then hands out more than was forfeited
  (`core/impl/v1/disputes.gno:189-193`), from the bonds of other disputes, and panics when there is
  not enough of those. `CoinsConserved` and `ResolutionNeverPanics` except exactly that (`SharesFit`,
  `Overdraw`);
- unbonding counts from the request and the dispute window from finalisation, so that a
  provider may be paid out first (`core/impl/v1/feeds.gno:12`);
- a dispute window lengthened by `UpdateFeed` makes a promoted round disputable again
  while `ReadFinal` serves it (`core/impl/v1/feeds.gno:209` does not promote first): a reader may
  see `ReadFinal` go back, or act on a value that is then overturned, although `src/README.md:76` says of final
  that the dispute window has passed. A one-off voided so and reopened goes on serving the first,
  void play as final until the second is. `FinalNeverRetracted`, `ServedIsStanding` and
  `FinalFeed` except exactly that (`FinalDoubted`), and `MCFinal` goes through it;
- `limits` keeps the dispute window short enough for unbonding to outlast a dispute, but if no window
  is (an `unbondPeriod` of up to six days and the appeal window) it falls back to the longest,
  14 days (`spec.gno:218-224`, `feeds.gno:184-190`; `MaxDisputeWindow`);
- a provider paid out before a very late crank is not counted for a round it submitted to
  (`obligedHolder`'s comment says a leaver is);
- a round open when its feed is deprecated outlives the feed (`PruneFeed` looks only up to
  the cursor);
- the fee accumulator carries what an increment, rounded down, falls short of its fee, and
  rounds that down too, so that the fractions it drops stay with the shares and a later
  increment may complete one to a coin that did not come in (three shares, a fee of 10 and
  two more of 0: 11 are owed; `docs/IMPLEMENTATION_PLAN.md:1414` has "dust never leaks to users",
  and `ledger_test.gno:39` tests conservation on amounts that divide); `LeakBounded` is what does hold.

Of the clients:

- agent: when a feed is reopened (or its chain created anew) and the provider keeps its slot, the
  memory of rounds is dropped but the cached duty, from a later round of the old schedule, is not
  (`agent.go:210`), and the agent waits for ever;
- agent: a transaction whose answer timed out and that lands between the reading of the round
  and of the account's number is followed by a second submission; `state.go:12` says a restart
  never double-submits. `OwnSubmissionKept` excepts exactly that;
- agent: the gas headroom counts active providers, and nothing for an earlier round that still
  waits: a submission that comes to finalise may run out of gas;
- agent: a submission window no longer than jitter, time-out and two seconds is not refused,
  and never answered; a catch-up batch may grow beyond its configured size;
- agent: `config.go:47` says that a `sanity_bps` of 0 disables the check; `config.go:188` takes 0
  for the default, and only a negative one disables it;
- sources: labels are counted before they are mapped to an option without regard to case, so that
  spellings of one option compete; two adapters give numbers only, and cannot answer a categorical feed;
- bot: a crash in a pass announces again what the pass had announced (`state.go:10` says otherwise);
  keys kept from an earlier chain silence equal ones of a new one, and a new chain that has already
  passed the cursor is not noticed; a list of feeds read by offset skips one when an earlier
  one is pruned meanwhile;
- bot: the throttle has the period of the passes, so that every other pass may skip a job that
  failed: `RetriedSoon` says no more than that;
- bot: the reminder picks the first configured threshold, not the tightest
  (`reminders.go:60`); with `catch_up_empty` off, an empty round is never passed;
- voter: `main.go:693` means to keep the salt across a failed transaction, but the pending file is
  removed when one that landed is answered with an error; `reveal` does not look for a pending
  file; a record is not keyed by its voter; a choice the ballot does not offer is accepted and can
  never be revealed. `SaltKept` excepts the first three;
- mirror: `Due` (`views.go:408`) is called a lower bound of when a crank can advance a record; after a
  foreign answer, dispute or settlement one advances it earlier.

## Proofs

| theorem | for every | says |
|---|---|---|
| `CoreProofs!SeatsAlwaysOK` | number of slots and providers, parameters, bounds | `SeatsOK`: slots, records and count of the seated agree through every operation of the core |
| `CoreProofs!HolderOwesOnce` | the same | `OneSeatPerRound`: by the log, no provider ever held two slots of one round |
| `CoreProofs!HoldersStayOnRecord` | the same | `HoldersOfRecordFixed`: who held the slots of a finalised round is never rewritten |
| `CoreProofs!ReopenedOwedBySeated` | the same | `ReopenedRoundOwedBySeated`: the second round 0 of a one-off is owed by those seated, and nobody else |
| `RoundProofs!RoundsAlwaysOnRecord` | the same | `RoundsOnRecord`: rounds and disputes are there for as long as anything refers to them |
| `CoinProofs!CoinsAlwaysConserved` | the same, and prices, stakes, bonds and shares | `CoinsConserved`: every category is the sum of its records (bonds may be less where shares exceed the whole), and no step but a gift changes what the realm has beyond them |
| `CoinProofs!ExitsNeverPanic` | the same | `ExitNeverPanics`: no panic keeps a provider whose unbonding is ready from being paid out |
| `CoinProofs!CrankAlwaysGoesOn` | the same | `CrankNeverPanics`: the round that is next can be finalised, and any number caught up on |
| `CoinProofs!DisputesAlwaysResolvable` | the same | `ResolutionNeverPanics`: every outcome of a running dispute can be applied, unless shares that exceed the whole have left too few bonds for it |
| `FinalProofs!ServedAlwaysStands` | number of slots and providers, parameters, bounds, changes of the window | `ServedIsStanding`: what is read is an aggregated value under no dispute, and that of the round it names, or a final value in doubt |
| `FinalProofs!FinalNeverGoesBack` | the same | `FinalNeverRetracted`: a final value is taken back by no step but one that makes the window longer, and rewritten only in doubt; the final round only moves on |
| `FinalProofs!FinalAlwaysKeepsUp` | the same, recurring feeds | `FinalKeepsUp`: a round is final or overtaken once neither it nor one before it can change |
| `FinalProofs!CoreKeepsFinalFeed` | the same as the first | `FinalFeedKept`: the core implements `FinalFeed` |
| `FinalProofs!MajorityBoundsMedian` | submissions, majorities, tolerances | the median lies between two submissions of any strict majority, and who submitted it is eligible |
| `DaoProofs!StakesAlwaysAddUp` | members, disputes, parameters, stakes | `StakesAddUp`: holdings, weights, fee shares and supply are the sums of what the members have |
| `DaoProofs!SealedWeightsStay` | the same | `SealedWeightFixed`: what weighed in an epoch that has begun weighs so for ever |
| `DaoProofs!CursorsAlwaysWait` | the same | `CursorWaits`: no member is past a ballot it weighs in that is not final |
| `DaoProofs!HouseIsKept` | the same | `KeepsHouse`: the DAO implements `BallotHouse` |
| `PayProofs!CoinsAlwaysCovered` | the same, and deposits | `CoinsCovered`: the coins of the DAO cover what it knows of, and that what it owes in fees, rewards and deposits |
| `PayProofs!TreasuryAlwaysGuarded` | the same | `TreasuryGuarded`: only a carried proposal takes coins of the treasury; only settlements make it unable to pay rewards |
| `ClientProofs!EveryEventIsTried` | chain, batch, starting block, number of mishaps | `EveryEventTried`: no event is lost behind the bot's cursor |
| `ClientProofs!EveryJobRetriedSoon` | jobs, gates, throttles, length of calls | `RetriedSoon`: no job is passed over twice running |
| `ClientProofs!SaltIsKept` | voters, choices, ballots, troubles | `SaltKept`: the salt of a commitment on chain is on file |
| `ClientProofs!ClosedRecordsSpeak` | clocks, sides, stakes and bounds of the court | `ClosedRecordTells`: a record a crank closed says what the court decided, and leaves nothing there |

What is assumed of the constants is named where they are declared, and TLC evaluates it in every
run: of the core, finitely many slots numbered from 0, finitely many providers, a blank address
that is none of them, a valid schedule and provider limits (`ConstantsAssumption`), times and
amounts that are naturals and shares of at most the whole (`TimesAssumption`, `AmountsAssumption`),
dispute windows that are not empty (`WindowsAssumption`), values that are integers (`ValuesAssumption`: a
categorical one is the index of its option);
of the DAO, finitely many members, amounts that are naturals, a share of the stakers in the fees
that is at most the whole, a cap that `TopK` voters can fill (`MembersAssumption`,
`StakesAssumption`, `BallotsAssumption`, `PayloadsAssumption`, `DepositsAssumption`,
`WalletsAssumption`). No theorem assumes more than the code or its parameter bounds ensure. Two things
governance can do that break a promise are not assumed away, but in the properties: shares of a
forfeit that add up to more than the whole (the bonds held may then be less than the records
say, and an outcome that would take more than there are cannot be applied), and a dispute window
made longer (a final value may be taken back in that step, and one that stays may be in doubt). At
the defaults of `core/params.gno`, 5000 and 3000 of 10000, the shares fit.

### The core

Invariants are stated of a store, since handlers compose operators on stores, and the proofs
follow them operator by operator. One lemma says of each operator what it leaves alone
(`<Operator>Keeps`, `...Leaves`); the few that do something to what the invariant is about have
lemmas of their own, the pieces of a handler next, then one lemma per action, one per group of
actions, and the temporal step.

`CoreProofs`. The invariant is `Seating == Sat(Store)`: `SeatsOK`, the shape of the tables it reads
(without which an update with EXCEPT says nothing), and the log of the slots (`Ordered`). Of the
log it says that the newest entry of a slot agrees with the seat, that none starts later than
the round whoever comes now owes first, and that no provider has two slots between two entries:
without it nothing follows about a round of the past. What is written into the log is always
about the first round to come (`Due`: a round that is judged is an earlier one), so that
finalised rounds keep their holders (`Fixed`). A set of providers is judged and some of them are jailed in one step
(`LivenessKeepsSeats`); a feed that serves nothing seats nobody, which is what retirement and
pruning preserve.

`RoundProofs`. `OnRecord` has three parts beside the cursors: the cursor splits the rounds into
settled ones, all there from the oldest one kept on, and open ones, and a round that is disputed
names a dispute that runs and names it back (`RoundsSound`); a dispute that runs has its
round, and as many run as the feed counts (`DisputesSound`); the log holds entries of providers,
and nothing runs when the feed is gone (`LogSound`). None is inductive alone: a round is
settled by the record that is next after the cursor, and a pruned one is under no dispute
because a dispute and its round name each other.

`SumProofs`. A sum over a set of any size is a fold, which the provers do not unfold, and the
induction theorems of the library take an operator, which they cannot instantiate. So induction is restated
of sets (a set of naturals that has 0 and all successors is `Nat`; a family of finite sets
closed under adding an element has them all), from the theorem that well-founded relations have
minimal elements; and from it that `SumFunction` adds up what an update of one point, of a
set of points, or a restriction changes.

`CoinProofs`. A lemma `<Operator>Moves` for each operator says what it does to the coins:
`Moves(t, st, x, b)` says that the books of `t` still agree with its records, that `x` coins
of what the realm had beyond its books were booked or left, and `b` left the bonds. A handler adds
these up; of a resolution, which takes bonds apart piece by piece, they come to the bonds of the
dispute and what its shares overdraw, which is nothing if they fit (`Divided`, `Balanced`). That somebody can leave needs in addition that no record holds a negative amount, that who
unbonds has nothing staked, and that the realm is never short of what it booked (`Surplus` is not
negative); that coins are conserved past the end of a feed, that a pruned feed has nobody and
nothing (`Emptied`).

Its last part puts the three invariants together. What operators ask is that a payment is covered
(`Covered`: the realm has at least what its books say, and `Bonded`: so much of it in bonds), that a
slot to be cleared is occupied (`Seating`), and that a round or a dispute is on record (`OnRecord`). A lemma
`<Operator>Able` for each operator says when it goes through and what is left for the next;
a handler is their chain. The case that needs most is a round whose judgement jails, ejects and retires
while its loop still has slots to judge, and the bonds of a dispute, taken apart in up to four
roundings, whose pieces must not come to more than what is there: without `SharesFit`, there must
be as much in bonds as the outcome overdraws (`BondsNeeded`).

`FinalProofs`. What `FinalFeed` sees of the tables is the `Face`: the rounds at or past the
promotion cursor that are aggregated (`Listed`), those of them a dispute may still change
(`Contested`), and the final value, which is the newest of those before every contested one
(`Clear`) or, if there is none, the one on file. It depends on nothing of a
round but its status, time, tier and value. The invariant `Finals` is `OnRecord` with two
parts: `Dated`, that a round has a time, and that it and the dispute that runs over it point at each
other; and `FinalSound`, of the cursor and of what is on file. No aggregate before the cursor is newer
than the final round; that round, while it is kept, is aggregated or void and has the value on file, until the
feed is reopened; and so for the value and the tier that are served. The one exception is
`Neglected`, below. That an aggregate before the cursor can no longer be disputed is not part of
it, as a longer window takes it away: whether the final one can is the doubt (`Uncertain`), which no
other step casts.
Each operator leaves the face as it is, or moves it by a step of `FinalFeed` (`Moves`): a finalised round publishes, an outcome revises
or withdraws, or overrules a value in doubt (`Overrules`), time settles, a change of the window settles
or widens (`Widens`). Pruning promotes first and
stops at the cursor, so that it drops nothing the face shows. What is
read stands because the reader walks the same rounds (`LatestIsFinal`). `FinalKeepsUp` is proved
of recurring feeds: a one-off that is reopened starts a second round 0 behind the cursor, and is
not promoted (`MCOneOffStuck`).

That the values are those of the feed (`Naming`) takes that an aggregate is a submission or the
leading option. For the median it is a rank: the lemma `MedianIsInTheMiddle` finds, of any submissions, one
with at most half of them below it and more than half up to it, from the greatest elements of sets
of naturals, without induction over the submissions; `MajorityBoundsMedian` follows from it by counting.

### The DAO

`DaoProofs`. The invariant of a store is `Sound`, of three parts. `Shaped`: tables of the right shape,
histories whose points are in order and end with the next epoch. `Booked`: each total is the sum
over the members, and the newest weight of a member is its stake. `Waited`: whoever weighs in
a ballot and is past it is past a final one; who has not joined weighs nothing. None is
inductive without the others: that a settled member is owed nothing by a ballot reads its weight out of its history, and
penalties are taken from what is booked. Settling is a loop (`SettleNext` as often as the
caller asks), and `Follows`, which every round of it keeps, says that a call changes no past
weight, no ballot and no supply (only a mint does, `Mints`). From there the argument is by operation, as in the core.

For the refinement, what the core sees of a dispute (`Seen`) must agree with how its own record
stands (`Agrees`): the core opens, resolves and appeals by its record, and `BallotHouse` says what
it may then be shown. It needs that ballots come in order (`InOrder`): none is final
before it is resolved, and each is final before another follows it. Each ballot operation either shows
the core nothing new or makes one step of the house (`Shows`): it opens, ends, funds or supersedes.

`PayProofs`. That rewards are covered is not inductive: a ballot is funded in one step, and owes its
voters, who are credited one by one when they are settled. The invariant `CoinInv` counts what
is still to come: `Due` is what a member was credited and the shares of the ballots its cursor has not
passed, and `AllDue`, their sum, is at most what is held for rewards. A settlement turns a share
into credit (`PassingPays`), a claim takes both away, and funding adds what the core sent, which
the shares fit: the coherent weight is that of the tally, the tally is the sum of what was revealed
(`Counts`, which every commitment, reveal, roll and appeal keeps), and parts of a pool rounded
down on weights that add up to no more than the coherent one come to no more than the pool
(`RewardsFit`). Beside that, what the realm knows of is there (`Idle` is not negative), its treasury
lacks nothing, and what is held in deposits is the sum over the proposals (`DepositsOK`).
What a call may do is one relation for each kind of caller: members (`Pays`), ballots (`Tallies`), the
proposals (`Handles`), which is where the treasury is drawn on (`Drawn`, `Carries`); a lemma for each operator says
that it keeps its relation, and each relation composes. Of the PYTH that rewards lack (`Short`) they say
that it stays as it is, or is not above zero, but for settlements. `TreasuryGuarded` says so of
steps that move no cursor: a claim settles before it pays, so that it can credit more than it
pays and leave less credited than before and more lacking all the same.

### Off the chain

`ClientProofs`, the scan. That nothing is lost behind the cursor is not inductive alone: the cursor moves
when a block is *done*, so the invariant says of a block half announced that what is not left
was tried (`BlockHalfDone`), and of every key remembered that its event was (`SentTried`). What a
scan begins with is one lemma (`PlacedOK`); `WatchStep` has a step for each action. It needs
only that heights and batches are naturals, and a batch not empty (`WatchAssumption`).

The cranks. A job passed over was attempted before the pass that did so (`Waiting`), and a job
the pass has not come to was attempted before it (`TriedBefore`): so at the next look a whole
period lies between, which is the throttle. The clock never runs behind what is remembered
(`Past`). `CrankAssumption` says that jobs are listed once and that the clock starts late
enough for what was never tried to be due.

The voter. The record of a command in progress is where it will be looked for
(`CommandKept`), a commitment of its that landed is the voter's last (`LandedLast`), and of
whom a transaction may still land the property makes an exception (`FlyingDoubted`).

The mirror. `ClosedRecordTells` is the part of `MirrorMovesOn` that speaks of one state. What a
closed record says stays true because the holders can change its claim no more: the invariant
says that such a claim is settled or closed (`Frozen`), and of any claim what the court makes of it
(`ClaimOK`: a vote, a bond or a settlement comes after an answer; a claim closed for want of one
gave its deposit back; a settled one says how and for whom, or that nobody decided). Of the
court's constants `CourtAssumption` is what it uses: that they are naturals, and a bond not zero.

### Only model-checked

- Of the core: the cap on miss slashes (`MissSlashCapped`) and the ranges of `TypeOK`.
- Of the DAO: a turnout that is what was sealed (`TurnoutExact`), penalties within their cap (`PenaltiesCapped`), stakes that wait (`StakeWaits`), `DaoTypeOK`, and what clients conclude (`ClientsSeeBallots`).
- The pure packages, whose properties compare small inputs with a reference, and the sources.
- The agent's action properties, and that the mirror can move on, which says that a crank is ENABLED.
- Liveness under fairness, of every part. ENABLED and liveness are out of the prover's reach.

## Not modelled

- The two-step handover of the authority, the proxy of implementations, and the registry of
  parameters: guards and single assignments on variables of their own, of which a property
  would repeat the guard. Parameters change the behaviour of the modules here only as other
  constants would.
- Several runners in one agent process (they share the account's number, so to each of them
  the others are what the operator's transactions are in `Agent`), and the watching of the
  configuration for changes.
- Who is reminded when; of reminders, `Missing` alone is modelled.
- Of the mirror: the bonuses `reclaim` pulls, the charge for founding a court, the stand-in for
  development chains (`impl/v1`, `kourtdev`), and the text of claims.
- Of the core: the read gate, `ReadRound`, and the subscription table. Of the DAO: notes, and
  what effects of proposals do in other realms.
- For good: rendering and JSON, transport and parsing, notifications, the simulator, the parsers
  of specs and of authority strings, the token and the demo consumer.

## Plan

Done: the pure packages, the core realm for one feed, the DAO realm, each with its abstract
specification; the agent on the realm it serves, with its crashes and late transactions; the
bot's scan and cranks; voting from the command line; the mirror on an external court; and the
theorems above. What would come next, in this order:

1. Core and DAO composed, with the dispute of one being the ballot of the other, in place of
   the promise `BallotHouse` both are checked against.
2. Several runners on one account, and the reopening of a one-off feed under an agent.
3. Proofs: of the DAO, that a turnout is what was sealed; of the core, the cap on miss slashes.
