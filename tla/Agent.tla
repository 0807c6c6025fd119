-------------------------------- MODULE Agent --------------------------------
(***************************************************************************)
(* A provider agent (src/agent/agent.go, state.go) on the realm it serves: *)
(* one feed's loop, which polls the feed, cranks closed rounds, submits to *)
(* the open one and claims its rewards.                                    *)
(*                                                                         *)
(* The loop reads views and sends transactions one after the other; the    *)
(* chain moves on between any two of these steps.  A transaction is first  *)
(* simulated, then signed with the account's sequence number and           *)
(* broadcast; it lands, late or never, if its number is still the next.    *)
(* The process may crash between any two steps and is restarted with what  *)
(* it had saved.  Which value the sources make up is module Sources: here  *)
(* any value may come of them, or none.                                    *)
(***************************************************************************)
EXTENDS CoreRounds

CONSTANTS
  Cfg,         \* the feed's runtime configuration (feedParams)
  GasRounds,   \* rounds a transaction can finalise before it runs out of gas
  MaxFaults    \* bound: crashes, time-outs, failed reads and failed saves

VARIABLES
  me,          \* the provider the agent submits for
  file, mem,   \* the FeedState on disk and in memory
  run,         \* what the runner caches: obligation and slot, batch, whether it backs off
  tick,        \* the pass over the feed in progress
  flight,      \* transactions broadcast and neither landed nor invalid
  seq,         \* the account's sequence number
  faults

agentVars == <<me, file, mem, run, tick, flight, seq, faults>>

\* What a configuration may ask for, its defaults filled in; margin is the time-out of the
\* sources and two seconds, and slotDelay the two seconds between agents.
Runtime ==
  [jitter : Nat, margin : Nat, finalizeDelay : Nat, slotDelay : Nat, claimEvery : Nat, claimMin : Nat \ {0},
   skipFinalize : BOOLEAN, catchUpEmpty : BOOLEAN, catchUpBatch : Nat \ {0}]

ASSUME AgentAssumption == Cfg \in Runtime /\ GasRounds \in Nat /\ MaxFaults \in Nat

Client == INSTANCE ClientSchedule

NoMemory == [startAt |-> 0, hasRound |-> FALSE, lastRound |-> 0, lastClaim |-> 0]
Unknown == -1
Fresh == [obliged |-> Unknown, slot |-> 0, batch |-> 0, backoff |-> FALSE]
Idle == [pc |-> "idle"]

AgentInit ==
  /\ file = NoMemory /\ mem = NoMemory
  /\ run = Fresh /\ tick = Idle
  /\ flight = {} /\ seq = 0 /\ faults = 0

Fault == faults < MaxFaults /\ faults' = faults + 1

-----------------------------------------------------------------------------
(* Views. *)

\* What the agent uses of json/feed/<id>.
FeedView ==
  [now |-> now, startAt |-> feed.startAt, haveLast |-> feed.haveLast, last |-> feed.lastFinalized,
   slot |-> providers[me].slot, active |-> feed.activeCount]

Calendar(v) ==
  [startAt |-> v.startAt, interval |-> IF Recurs THEN Spec0.interval ELSE 0, submitWindow |-> Spec0.submitWindow]

CurrentOf(v) == Client!Current(Calendar(v), v.now).round
NextOf(v) == Client!Next(Calendar(v), v.last, v.haveLast)

\* Mutant: the state file alone tells what was submitted.
HasSubmittedOnFile(id, slot) == FALSE

\* The mask of the round, as of the view.
HasSubmitted(id, slot) == id \in DOMAIN rounds /\ slot \in DOMAIN rounds[id].subs

SubmittedCount(id) == IF id \in DOMAIN rounds THEN Cardinality(DOMAIN rounds[id].subs) ELSE 0

-----------------------------------------------------------------------------
(* Transactions. *)

\* The rounds a call to CatchUp would finalise now.
RoundsDue(batch) == Cardinality(Finalisable(Sched(feed), feed.haveLast, feed.lastFinalized, now, batch))

\* The tables a call leaves, and the rounds it finalises (what costs gas).
Outcome(call) ==
  CASE call.fn = "CatchUp" ->
         [st |-> Require(CaughtUp(Store, call.n), Serving(feed)), work |-> RoundsDue(call.n)]
    [] call.fn = "Submit" ->
         IF ~MaySubmit(me, call.n) THEN [st |-> Require(Store, FALSE), work |-> 0]
         ELSE [st |-> Submitted(me, call.n, call.value),
               work |-> IF Completes(Answered(me, call.n, call.value), call.n) THEN 1 ELSE 0]
    [] call.fn = "ClaimRewards" ->
         [st |-> Require(RewardPay(Store, me), providers[me].status # "none" /\ providers[me].rewards > 0), work |-> 0]

\* The panic that tells the agent its cached obligation is wrong.
NotObliged(call) == call.fn = "Submit" /\ MayAnswer(me, call.n) /\ providers[me].obligedFrom > call.n

\* What simulating or delivering a call ends in, with gas for so many rounds.
Ending(call, gas) ==
  LET o == Outcome(call) IN
  IF NotObliged(call) THEN "not obliged" ELSE IF ~o.st.ok THEN "panic" ELSE IF o.work > gas THEN "gas" ELSE "ok"

\* Mutant: no gas beyond what the simulation saw.
GasWantedSimulated(call, headroom) == Outcome(call).work

\* What was simulated and the headroom, within the limit.
GasWanted(call, headroom) == Smaller(Outcome(call).work + headroom, GasRounds)

Tx(call, headroom) ==
  [call |-> call, seq |-> seq, gas |-> GasWanted(call, headroom), moved |-> seq # tick.seenSeq]

\* The call simulated and, if that went well, on its way.
Sent(call, headroom) ==
  /\ flight' = flight \cup {Tx(call, headroom)}
  /\ tick' = [tick EXCEPT !.pc = "sent", !.tx = Tx(call, headroom), !.answer = "none"]

\* A transaction with the next number is included: the call takes effect or fails.
Land(tx) ==
  /\ tx.seq = seq
  /\ seq' = seq + 1
  /\ LET ending == Ending(tx.call, tx.gas) IN
     /\ IF ending = "ok" THEN Commit(Outcome(tx.call).st) ELSE UNCHANGED tables
     /\ tick' = IF tick.pc = "sent" /\ tick.tx = tx /\ tick.answer = "none"
                THEN [tick EXCEPT !.answer = ending, !.done = Outcome(tx.call).work] ELSE tick
  /\ flight' = { other \in flight \ {tx} : other.seq > seq }
  /\ UNCHANGED <<now, me, file, mem, run, faults>>

\* The wait ends without an answer: it took too long, or the transaction can never land.
GiveUp ==
  /\ tick.pc = "sent" /\ tick.answer = "none"
  /\ \/ Fault
     \/ tick.tx \notin flight /\ UNCHANGED faults
  /\ tick' = [tick EXCEPT !.answer = "lost", !.clean = FALSE]
  /\ UNCHANGED <<vars, me, file, mem, run, flight, seq>>

-----------------------------------------------------------------------------
(* The pass: its parts in order.  To(pc, t) is the pass t gone on to pc. *)

To(pc, t) == [t EXCEPT !.pc = pc]

\* After the crank: before its obligations start, a provider does no more.
AfterCrank(t) == IF t.early THEN Idle ELSE To("check", t)

\* Memory of a feed that has been given another schedule says nothing about its rounds.
Remembered(m, startAt) ==
  IF m.startAt = startAt THEN m ELSE [m EXCEPT !.startAt = startAt, !.hasRound = FALSE, !.lastRound = 0]

InWindow(v) ==
  LET cur == CurrentOf(v) IN
  /\ v.now >= Client!OpenAt(Calendar(v), cur) + Cfg.jitter
  /\ v.now < Client!CloseAt(Calendar(v), cur) - Cfg.margin

\* A pass begins: what it saw, what it remembers, and (for the properties) whether it should
\* submit, whether nothing went wrong and the round read was the next to be finalised, and the
\* account's number when it was read.
Begun(v, obliged) ==
  [pc |-> "crank", v |-> v, st |-> Remembered(mem, v.startAt), early |-> CurrentOf(v) < obliged,
   headroom |-> 0, tx |-> << >>, answer |-> "none", done |-> 0, seenSeq |-> seq,
   clean |-> TRUE, cranks |-> FALSE,
   due |-> InWindow(v) /\ MaySubmit(me, CurrentOf(v)) /\ providers[me].slot = v.slot]

\* The feed is read: nothing to do unless it serves, this provider sits in it, and it has begun.
SeeFeed ==
  /\ tick = Idle
  /\ Serving(feed) /\ providers[me].slot # NoSlot
  /\ Client!Current(Calendar(FeedView), now).started
  /\ IF run.obliged = Unknown \/ run.slot # FeedView.slot
     THEN tick' = [pc |-> "provider", v |-> FeedView] /\ UNCHANGED mem
     ELSE tick' = Begun(FeedView, run.obliged) /\ mem' = Remembered(mem, feed.startAt)
  /\ UNCHANGED <<vars, me, file, run, flight, seq, faults>>

\* The provider record is read for the first round it owes.
ReadObliged ==
  /\ tick.pc = "provider"
  /\ \/ /\ providers[me].status # "none"
        /\ run' = [run EXCEPT !.obliged = providers[me].obligedFrom, !.slot = tick.v.slot]
        /\ tick' = Begun(tick.v, providers[me].obligedFrom)
        /\ mem' = Remembered(mem, tick.v.startAt)
        /\ UNCHANGED faults
     \/ providers[me].status = "none" /\ tick' = Idle /\ UNCHANGED <<run, mem, faults>>
     \/ Fault /\ tick' = Idle /\ UNCHANGED <<run, mem>>
  /\ UNCHANGED <<vars, me, file, flight, seq>>

-----------------------------------------------------------------------------
(* The crank. *)

\* The closed next round has waited long enough for this slot, by the view.
CrankDue(v) ==
  LET next == NextOf(v) IN
  /\ ~(~Recurs /\ next # 0)
  /\ next <= CurrentOf(v)
  /\ v.now >= Client!CloseAt(Calendar(v), next) + Cfg.finalizeDelay + Cfg.slotDelay * v.slot

ToCatchUp(t) ==
  /\ tick' = [t EXCEPT !.pc = "catchUp", !.cranks = TRUE]
  /\ run' = [run EXCEPT !.batch = IF @ <= 0 THEN Cfg.catchUpBatch ELSE @]

NoCrank(t) == tick' = AfterCrank(t) /\ UNCHANGED run

\* The feed is read again: unless another finalised the round meanwhile, it is worth paying for.
Crank ==
  /\ tick.pc = "crank"
  /\ LET cranks == ~Cfg.skipFinalize /\ ~run.backoff /\ CrankDue(tick.v)
         looks == NextOf(tick.v) = CurrentOf(tick.v) \/ ~Cfg.catchUpEmpty
     IN \/ /\ ~cranks \/ NextOf(FeedView) # NextOf(tick.v)
           /\ NoCrank(tick) /\ UNCHANGED faults
        \/ /\ cranks
           /\ \/ NextOf(FeedView) = NextOf(tick.v) /\ UNCHANGED faults
              \/ Fault
           /\ IF looks THEN tick' = [tick EXCEPT !.pc = "crankRound"] /\ UNCHANGED run ELSE ToCatchUp(tick)
  /\ UNCHANGED <<vars, me, file, mem, flight, seq>>

\* The current round, or any if empty ones are not written off, is read first.
CrankRound ==
  /\ tick.pc = "crankRound"
  /\ LET next == NextOf(tick.v)
         exists == next \in DOMAIN rounds
     IN \/ /\ (~exists /\ ~Cfg.catchUpEmpty) \/ (exists /\ rounds[next].status # "open")
           /\ NoCrank(tick) /\ UNCHANGED faults
        \/ /\ ~exists => Cfg.catchUpEmpty
           /\ exists => rounds[next].status = "open"
           /\ ToCatchUp(tick) /\ UNCHANGED faults
        \/ Fault /\ NoCrank([tick EXCEPT !.clean = FALSE])
  /\ UNCHANGED <<vars, me, file, mem, flight, seq>>

\* The batch to keep after one that was filled.
AfterSuccess(batch, n) == IF n >= batch /\ batch < Cfg.catchUpBatch THEN batch * 2 ELSE batch

\* Mutant: a batch that ran out of gas is not retried with half.
CatchUpGivenUp(ending) == run' = [run EXCEPT !.backoff = TRUE] /\ tick' = AfterCrank(tick)

\* What an error does to the batch: out of gas is retried with half, anything else backs off.
CatchUpFailed(ending) ==
  IF ending = "gas" /\ run.batch > 1
  THEN run' = [run EXCEPT !.batch = @ \div 2] /\ tick' = [tick EXCEPT !.pc = "catchUp", !.answer = "none"]
  ELSE run' = [run EXCEPT !.backoff = TRUE] /\ tick' = AfterCrank(tick)

CallCatchUp ==
  /\ tick.pc = "catchUp"
  /\ LET call == [fn |-> "CatchUp", n |-> run.batch]
         ending == Ending(call, GasRounds)
     IN IF ending = "ok" THEN Sent(call, 0) /\ UNCHANGED run ELSE CatchUpFailed(ending) /\ UNCHANGED flight
  /\ UNCHANGED <<vars, me, file, mem, seq, faults>>

AnswerCatchUp ==
  /\ tick.pc = "sent" /\ tick.tx.call.fn = "CatchUp" /\ tick.answer # "none"
  /\ IF tick.answer = "ok"
     THEN run' = [run EXCEPT !.batch = AfterSuccess(@, tick.done)] /\ tick' = AfterCrank(tick)
     ELSE CatchUpFailed(tick.answer)
  /\ UNCHANGED <<vars, me, file, mem, flight, seq, faults>>

\* Half a minute later; only the crank looks, so when in a pass makes no difference.
BackoffEnds ==
  /\ run.backoff /\ tick = Idle
  /\ run' = [run EXCEPT !.backoff = FALSE]
  /\ UNCHANGED <<vars, me, file, mem, tick, flight, seq, faults>>

-----------------------------------------------------------------------------
(* The submission. *)

\* The memory kept, and saved unless that fails.
Keep(m) ==
  /\ mem' = m
  /\ \/ file' = m /\ UNCHANGED faults
     \/ file' = file /\ Fault

\* Gas for a finalisation that another's submission, landing first, would leave to this one.
Headroom(v, answered) == IF v.active - 1 - answered = 1 THEN 1 ELSE 0

\* The round is read, unless memory says it is done or its window does not allow it: the mask
\* is the only guard against a second submission.
Check ==
  /\ tick.pc = "check"
  /\ LET cur == CurrentOf(tick.v) IN
     IF (tick.st.hasRound /\ tick.st.lastRound >= cur) \/ ~InWindow(tick.v)
     THEN tick' = To("claim", tick) /\ UNCHANGED <<mem, file, faults>>
     ELSE \/ /\ HasSubmitted(cur, tick.v.slot)
             /\ Keep([mem EXCEPT !.hasRound = TRUE, !.lastRound = cur])
             /\ tick' = To("claim", tick)
          \/ /\ ~HasSubmitted(cur, tick.v.slot)
             /\ tick' = [tick EXCEPT !.pc = "submit", !.seenSeq = seq,
                                     !.headroom = Headroom(tick.v, SubmittedCount(cur)),
                                     !.clean = @ /\ IsNext(cur)]
             /\ UNCHANGED <<mem, file, faults>>
          \/ Fault /\ tick' = To("claim", [tick EXCEPT !.clean = FALSE]) /\ UNCHANGED <<mem, file>>
  /\ UNCHANGED <<vars, me, run, flight, seq>>

NotSubmitted(ending) ==
  /\ run' = [run EXCEPT !.obliged = IF ending = "not obliged" THEN Unknown ELSE @]
  /\ tick' = To("claim", tick)

\* The sources answer with a value, which is sent if its simulation succeeds, or with none.
CallSubmit ==
  /\ tick.pc = "submit"
  /\ \/ \E v \in Values :
          LET call == [fn |-> "Submit", n |-> CurrentOf(tick.v), value |-> v]
              ending == Ending(call, GasRounds)
          IN IF ending = "ok" THEN Sent(call, tick.headroom) /\ UNCHANGED <<run, faults>>
             ELSE NotSubmitted(ending) /\ UNCHANGED <<flight, faults>>
     \/ Fault /\ tick' = To("claim", [tick EXCEPT !.clean = FALSE]) /\ UNCHANGED <<flight, run>>
  /\ UNCHANGED <<vars, me, file, mem, seq>>

AnswerSubmit ==
  /\ tick.pc = "sent" /\ tick.tx.call.fn = "Submit" /\ tick.answer # "none"
  /\ IF tick.answer = "ok"
     THEN /\ Keep([mem EXCEPT !.hasRound = TRUE, !.lastRound = tick.tx.call.n])
          /\ tick' = To("claim", tick) /\ UNCHANGED run
     ELSE NotSubmitted(tick.answer) /\ UNCHANGED <<mem, file, faults>>
  /\ UNCHANGED <<vars, me, flight, seq>>

-----------------------------------------------------------------------------
(* The claim. *)

ClaimDue == Cfg.claimEvery > 0 /\ tick.v.now - tick.st.lastClaim >= Cfg.claimEvery

\* The provider record is read; below the least claim the date alone is kept.
Claim ==
  /\ tick.pc = "claim"
  /\ LET call == [fn |-> "ClaimRewards"] IN
     \/ /\ ~ClaimDue \/ providers[me].status = "none"
        /\ tick' = Idle /\ UNCHANGED <<mem, file, flight, faults>>
     \/ /\ ClaimDue /\ providers[me].status # "none"
        /\ IF providers[me].rewards < Cfg.claimMin
           THEN Keep([mem EXCEPT !.lastClaim = tick.v.now]) /\ tick' = Idle /\ UNCHANGED flight
           ELSE IF Ending(call, GasRounds) = "ok" THEN Sent(call, 0) /\ UNCHANGED <<mem, file, faults>>
           ELSE tick' = Idle /\ UNCHANGED <<mem, file, flight, faults>>
     \/ ClaimDue /\ Fault /\ tick' = Idle /\ UNCHANGED <<mem, file, flight>>
  /\ UNCHANGED <<vars, me, run, seq>>

AnswerClaim ==
  /\ tick.pc = "sent" /\ tick.tx.call.fn = "ClaimRewards" /\ tick.answer # "none"
  /\ IF tick.answer = "ok" THEN Keep([mem EXCEPT !.lastClaim = tick.v.now])
     ELSE UNCHANGED <<mem, file, faults>>
  /\ tick' = Idle
  /\ UNCHANGED <<vars, me, run, flight, seq>>

-----------------------------------------------------------------------------

\* The process dies and is started again with what it had saved (LoadState).
Crash ==
  /\ tick # Idle
  /\ Fault
  /\ mem' = file /\ run' = Fresh /\ tick' = Idle
  /\ UNCHANGED <<vars, me, file, flight, seq>>

AgentSteps ==
  \/ SeeFeed \/ ReadObliged
  \/ Crank \/ CrankRound \/ CallCatchUp \/ AnswerCatchUp \/ BackoffEnds
  \/ Check \/ CallSubmit \/ AnswerSubmit
  \/ Claim \/ AnswerClaim
  \/ GiveUp \/ Crash

Landings == \E tx \in flight : Land(tx)

\* A transaction of the operator, with the same key.
ByHand(op) == op /\ seq' = seq + 1 /\ flight' = { tx \in flight : tx.seq > seq }

-----------------------------------------------------------------------------

\* The provider answers a round once.  The value in its slot is overwritten, through crashes at
\* any point, lost answers and unsaved memory, only by a submission signed after another
\* transaction of the account had landed since the round was read: the mask and the account's
\* number keep apart what the state file cannot ("so a restart never double-submits").
OwnSubmissionKept ==
  [][ \A id \in DOMAIN rounds \cap DOMAIN rounds' :
        \A s \in DOMAIN rounds[id].subs :
          (slots[s] = me /\ rounds[id].subs[s] # rounds'[id].subs[s]) =>
            \E tx \in flight \ flight' : tx.call.fn = "Submit" /\ tx.moved ]_<<rounds, flight>>

SeatKept == providers[me].slot = tick.v.slot /\ Serving(feed) /\ providers[me].obligedFrom <= CurrentOf(tick.v)

\* A pass that found the window open does its work: unless a step of it failed or took until
\* after the window, and the seat is still held, the value is in the round, or the round has
\* been finalised, when it ends.  Neither the cached obligation, nor memory of another
\* schedule, nor gas for a finalisation nobody saw coming, keeps a submission back.  (Said of
\* rounds that are next when read: an earlier round that still waits is one more finalisation
\* nobody sees coming, and the headroom does not count it.)  And a pass that pays for a crank
\* moves the cursor: when it goes on, the round it found closed is finalised, by it or by
\* another, whatever the backlog costs: too large a batch is retried.
PassDelivers ==
  /\ [][ (tick # Idle /\ tick' = Idle /\ tick.pc # "provider" /\ tick.due /\ tick.clean
            /\ faults' = faults /\ SeatKept /\ IsOpen(Sched(feed), CurrentOf(tick.v), now)) =>
           \/ HasSubmitted(CurrentOf(tick.v), tick.v.slot)
           \/ feed.haveLast /\ feed.lastFinalized >= CurrentOf(tick.v) ]_<<tick, faults>>
  /\ []( (tick # Idle /\ tick.pc \in {"check", "submit", "claim"} /\ tick.cranks /\ tick.clean /\ Serving(feed)) =>
           NextRound(feed.haveLast, feed.lastFinalized) > NextOf(tick.v) )

=============================================================================
