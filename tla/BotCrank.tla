------------------------------ MODULE BotCrank ------------------------------
(***************************************************************************)
(* What the bot cranks (src/bot/cranker.go, bot.go Tick, state.go due): a  *)
(* pass at most every crankEvery, in which each kind of work has a gate of *)
(* its own and each job a time before which it is not tried again.         *)
(*                                                                         *)
(* A job stands for a feed to catch up, a dispute to resolve, a Kourt      *)
(* mirror to advance or a member to settle; whether there is something to  *)
(* do is what the views say (ClientSchedule, ClientViews).                 *)
(***************************************************************************)
EXTENDS Naturals, Sequences

CONSTANTS
  Order,      \* the jobs in the order of a pass
  CrankEvery, \* seconds between passes
  Gate,       \* seconds between looks at a kind of work (kourtEvery, settleEvery, or 0)
  Throttle,   \* seconds between attempts at a job
  StartClock, EndClock,  \* bounds of the clock
  MaxFailures            \* bound on views and files that fail, and on crashes

Jobs == { Order[i] : i \in DOMAIN Order }

ASSUME CrankAssumption ==
  /\ Order \in Seq(Jobs) /\ \A i, k \in DOMAIN Order : Order[i] = Order[k] => i = k
  /\ Gate \in [Jobs -> Nat] /\ Throttle \in [Jobs -> Nat]
  /\ CrankEvery \in Nat /\ StartClock \in Nat /\ EndClock \in Nat /\ MaxFailures \in Nat
  /\ StartClock >= CrankEvery /\ \A j \in Jobs : StartClock >= Gate[j] /\ StartClock >= Throttle[j]

VARIABLES
  clock,
  ripe,      \* jobs there is something to do for
  memory,    \* what the bot remembers: LastCrank, LastKourt and LastSettle, Attempt
  saved,     \* what it saved
  todo,      \* whether a pass is in progress, and which job comes next
  skipped,   \* for how many looks running a ripe job was passed over
  failures

crankVars == <<clock, ripe, memory, saved, todo, skipped, failures>>

\* Long ago is 0: what was never tried is due.
NoMemory == [lastCrank |-> 0, lastLook |-> [j \in Jobs |-> 0], attempt |-> [j \in Jobs |-> 0]]
NoPass == [running |-> FALSE, next |-> 1]

CrankInit ==
  /\ clock = StartClock
  /\ ripe \in SUBSET Jobs
  /\ memory = NoMemory /\ saved = NoMemory
  /\ todo = NoPass
  /\ skipped = [j \in Jobs |-> 0]
  /\ failures = 0

Failure == failures < MaxFailures /\ failures' = failures + 1

-----------------------------------------------------------------------------

\* Time passes, in a pass as between passes: every call takes time.
Elapse ==
  /\ clock < EndClock /\ clock' = clock + 1
  /\ UNCHANGED <<ripe, memory, saved, todo, skipped, failures>>

Ripen(j) ==
  /\ j \notin ripe
  /\ ripe' = ripe \cup {j}
  /\ UNCHANGED <<clock, memory, saved, todo, skipped, failures>>

\* Somebody else does it.
DoneByAnother(j) ==
  /\ j \in ripe
  /\ ripe' = ripe \ {j} /\ skipped' = [skipped EXCEPT ![j] = 0]
  /\ UNCHANGED <<clock, memory, saved, todo, failures>>

BeginPass ==
  /\ ~todo.running /\ clock - memory.lastCrank >= CrankEvery
  /\ memory' = [memory EXCEPT !.lastCrank = clock]
  /\ todo' = [running |-> TRUE, next |-> 1]
  /\ UNCHANGED <<clock, ripe, saved, skipped, failures>>

Looking(j) == todo.running /\ todo.next \in DOMAIN Order /\ Order[todo.next] = j

\* The pass came to this kind of work, of which the job need not be the first, at any time since
\* it began.
CameAt == memory.lastCrank .. clock
GateOpen(j, at) == at - memory.lastLook[j] >= Gate[j]

PassOn == todo' = [todo EXCEPT !.next = @ + 1]

GateShut(j) ==
  /\ Looking(j) /\ \E at \in CameAt : ~GateOpen(j, at)
  /\ PassOn
  /\ UNCHANGED <<clock, ripe, memory, saved, skipped, failures>>

\* A view fails, and the work of the kind is left for another pass.
ViewFails(j) ==
  /\ Looking(j) /\ Failure
  /\ \E at \in CameAt : GateOpen(j, at) /\ memory' = [memory EXCEPT !.lastLook[j] = at]
  /\ PassOn
  /\ UNCHANGED <<clock, ripe, saved, skipped>>

Due(m, j) == clock - m.attempt[j] >= Throttle[j]

Stamped(m, j) == [m EXCEPT !.attempt[j] = clock]

\* Mutant: a job that is not due is marked as attempted all the same.
DueStamping(m, j) == Stamped(m, j)

\* What is remembered of a job that is not due.
NotDue(m, j) == m

\* A job nothing can be done for is passed over; a ripe one is called if it is due, and the
\* call does the work, or not: it fails, or finds less to do than the view said.
Look(j) ==
  /\ Looking(j)
  /\ \E at \in CameAt :
       /\ GateOpen(j, at)
       /\ LET m == [memory EXCEPT !.lastLook[j] = at]
          IN \/ j \notin ripe /\ memory' = m /\ UNCHANGED <<ripe, skipped>>
             \/ /\ j \in ripe /\ Due(m, j)
                /\ memory' = Stamped(m, j)
                /\ ripe' \in {ripe, ripe \ {j}}
                /\ skipped' = [skipped EXCEPT ![j] = 0]
             \/ /\ j \in ripe /\ ~Due(m, j)
                /\ memory' = NotDue(m, j)
                /\ skipped' = [skipped EXCEPT ![j] = @ + 1]
                /\ UNCHANGED ripe
  /\ PassOn
  /\ UNCHANGED <<clock, saved, failures>>

\* The pass ends and the state is saved, or not; week-old attempts are dropped.
EndPass ==
  /\ todo.running /\ todo.next > Len(Order)
  /\ \/ saved' = memory /\ UNCHANGED failures
     \/ Failure /\ UNCHANGED saved
  /\ todo' = NoPass
  /\ UNCHANGED <<clock, ripe, memory, skipped>>

\* The process dies and is started again: the count starts again as well.
CrankDies ==
  /\ todo.running /\ Failure
  /\ memory' = saved /\ todo' = NoPass
  /\ skipped' = [j \in Jobs |-> 0]
  /\ UNCHANGED <<clock, ripe, saved>>

CrankNext ==
  \/ Elapse \/ BeginPass \/ EndPass \/ CrankDies
  \/ \E j \in Jobs : Ripen(j) \/ DoneByAnother(j) \/ GateShut(j) \/ ViewFails(j) \/ Look(j)

CrankSpec == CrankInit /\ [][CrankNext]_crankVars

-----------------------------------------------------------------------------

\* The throttle has the period of the passes, and is stamped later in a pass than the pass is:
\* the next pass may find a job that failed not due yet.  The one after it never does, however
\* long calls take: no job there is something to do for is passed over twice running, unless
\* its own throttle is longer than the time between looks (Tick, crank, due).
RetriedSoon ==
  \A j \in Jobs : Throttle[j] <= CrankEvery \/ Throttle[j] <= Gate[j] => skipped[j] <= 1

=============================================================================
