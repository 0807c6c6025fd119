----------------------------- MODULE MCPackages -----------------------------
(* What runs alone, one at a time: a calendar read by a cranker of any lag,  *)
(* a round that fills up with submissions, an accumulator of fees, the       *)
(* sources of an agent; the mirror of a dispute; and, off the chain, the     *)
(* scan and the cranks of the bot and the votes cast from a command line.    *)
(* The variable of a package that is not looked at is Idle, and a client     *)
(* that is not looked at stays as it began.                                  *)
EXTENDS Schedule, Aggregation, Ledger, BotWatch, BotCrank, Voter, KourtMirror, FiniteSetsExt, SequencesExt

CONSTANTS
  MaxStart, MaxInterval, MaxTime, Limit,    \* bounds of the calendars, and of a call to CatchUp
  Slots, Values, Tolerances,                \* who may submit what, judged how
  Holders, MaxShares, Fees, MaxBumps, MaxMoves, \* bounds of the accumulator
  MaxSources, IntMax                        \* bounds of the sources of an agent

VARIABLES
  cal,    \* a schedule, the time, and the cursor of the finalised rounds
  round,  \* the submissions of a round, and the tolerance of its feed
  pool,   \* an accumulator, its positions, and how often either was changed
  src,    \* the sources of an agent, and what they have answered
  client  \* the client looked at, if it is not a package
packageVars == <<cal, round, pool, src>>
vars == <<packageVars, client, watchVars, crankVars, voterVars, mirrorVars>>

Idle == << >>

-----------------------------------------------------------------------------
(* A calendar: time passes, and finalisable rounds are finalised one by one. *)

Schedules == { s \in [startAt : 1..MaxStart, interval : 0..MaxInterval, submitWindow : 1..MaxInterval] : Valid(s) }

CalendarInit ==
  /\ cal \in [sc : Schedules, t : {0}, haveLast : {FALSE}, last : {0}]
  /\ round = Idle /\ pool = Idle /\ src = Idle

Tick == cal # Idle /\ cal.t < MaxTime /\ cal' = [cal EXCEPT !.t = @ + 1] /\ UNCHANGED <<round, pool, src>>

FinaliseOne ==
  /\ cal # Idle
  /\ \E id \in Finalisable(cal.sc, cal.haveLast, cal.last, cal.t, 1) :
       cal' = [cal EXCEPT !.haveLast = TRUE, !.last = id]
  /\ UNCHANGED <<round, pool, src>>

Client == INSTANCE ClientSchedule

\* A cranker that only reads a view sees the work there is: the closed-form backlog (Behind) is
\* the number of rounds the write path would finalise, for every limit; and the copy of the
\* calendar in the agent and the bot agrees on the current round, on which rounds are open, and
\* on whether a round waits (crank), whatever the cursor.  And only the current round takes
\* submissions, never one the cursor has passed or CatchUp may write off: a submission cannot
\* meet a finalised round except by early finalisation.
CrankersSeeBacklog ==
  cal # Idle =>
    LET sc == cal.sc
        waiting == Finalisable(sc, cal.haveLast, cal.last, cal.t, 1)
        next == Client!Next(sc, cal.last, cal.haveLast)
        cur == Client!Current(sc, cal.t)
    IN /\ \A limit \in 1..Limit :
            Behind(sc, cal.haveLast, cal.last, cal.t, limit)
              = Cardinality(Finalisable(sc, cal.haveLast, cal.last, cal.t, limit))
       /\ cur.started = Started(sc, cal.t)
       /\ cur.started => cur.round = Current(sc, cal.t)
       /\ \A id \in 0..MaxTime : Exists(sc, id, cal.t) =>
            /\ Client!IsOpen(sc, id, cal.t) = IsOpen(sc, id, cal.t)
            /\ IsOpen(sc, id, cal.t) =>
                 /\ id = Current(sc, cal.t) /\ (cal.haveLast => id > cal.last)
                 /\ id \notin Finalisable(sc, cal.haveLast, cal.last, cal.t, Limit)
       /\ waiting = IF cur.started /\ next <= cur.round /\ Client!IsClosed(sc, next, cal.t) THEN {next} ELSE {}

-----------------------------------------------------------------------------
(* A round: slots submit or replace values in any order.                     *)

RoundInit ==
  /\ round \in [subs : {<< >>}, tolerance : Tolerances]
  /\ cal = Idle /\ pool = Idle /\ src = Idle

Submit(s, v) ==
  /\ round # Idle
  /\ round' = [round EXCEPT !.subs = [x \in DOMAIN @ \cup {s} |-> IF x = s THEN v ELSE @[x]]]
  /\ UNCHANGED <<cal, pool, src>>

Subs == round.subs
Some == round # Idle /\ DOMAIN Subs # {}
Median == LowerMedian(Subs)
Eligible == EligibleNumeric(Subs, Median, round.tolerance)

\* One pass of the package's insertion sort: v is moved left past every larger element.
Insert(seq, v) ==
  LET at == Cardinality({ i \in 1..Len(seq) : seq[i] <= v })
  IN SubSeq(seq, 1, at) \o <<v>> \o SubSeq(seq, at + 1, Len(seq))

\* The values in slot order, insertion-sorted, then the element at (n-1)/2.
SortedMedian ==
  LET inOrder == SetToSortSeq(DOMAIN Subs, <)
      sorted == FoldLeft(LAMBDA acc, s : Insert(acc, Subs[s]), << >>, inOrder)
  IN sorted[(Len(sorted) - 1) \div 2 + 1]

\* The aggregate of a round is safe to pay and to serve.  Defined by rank it is what sorting and
\* indexing computes; a strict majority bounds it, so that whatever the other slots submit it
\* lies between two values of any set with more than half of the submissions; and the slot that
\* submitted it is eligible under every tolerance, so RoundPayout never divides by zero.
MedianOK ==
  Some =>
    /\ Median = SortedMedian
    /\ \A M \in SUBSET DOMAIN Subs :
         2 * Cardinality(M) > Cardinality(DOMAIN Subs) =>
           /\ \E s \in M : Subs[s] <= Median
           /\ \E s \in M : Subs[s] >= Median
    /\ \E s \in Eligible : Subs[s] = Median

-----------------------------------------------------------------------------
(* An accumulator whose holders come, go, and claim while fees arrive.       *)

PoolInit ==
  /\ pool = [acc |-> NoFees, pos |-> [h \in Holders |-> NoPosition], bumps |-> 0, moves |-> 0]
  /\ cal = Idle /\ round = Idle /\ src = Idle

Fee(amount) ==
  /\ pool # Idle /\ pool.bumps < MaxBumps
  /\ pool' = [pool EXCEPT !.acc = Bump(@, amount), !.bumps = @ + 1]
  /\ UNCHANGED <<cal, round, src>>

Move(h, shares) ==
  /\ pool # Idle /\ pool.moves < MaxMoves
  /\ pool' = [pool EXCEPT !.acc = Rebased(@, pool.pos[h], shares), !.pos[h] = Holding(pool.acc, @, shares),
                          !.moves = @ + 1]
  /\ UNCHANGED <<cal, round, src>>

Claim(h) ==
  /\ pool # Idle
  /\ pool' = [pool EXCEPT !.acc = PaidTo(@, pool.pos[h]), !.pos[h] = Claimed(pool.acc, @)]
  /\ UNCHANGED <<cal, round, src>>

\* What was credited, what waits in carry and what is still owed, against what came in.
Drift ==
  pool.acc.paidOut + pool.acc.carry
    + SumFunction([h \in Holders |-> Earned(pool.acc, pool.pos[h])]) - pool.acc.received

\* No order of fees, deposits, withdrawals and claims makes or loses more coins than rounding
\* does: less than one a fee and one a move too many, one a move and one a holder too few.
LeakBounded ==
  pool # Idle => Drift <= pool.bumps + pool.moves /\ -Drift <= pool.moves + Cardinality(Holders)

-----------------------------------------------------------------------------
(* The sources of an agent, which answer one after the other or not at all.  *)

Src == INSTANCE Sources

Whole(n) == [num |-> n, den |-> 1]
Text(label, num) == [label |-> label, num |-> num]

\* Numbers near a rounding boundary, of either sign, and one beyond the width.
Numbers == { Text("x", [num |-> n, den |-> 4]) : n \in {-1, 1, 3} } \cup {Text("y", Whole(IntMax)), Src!Silent}

Labels == { Text(l, Src!NoNum) : l \in {"no", "YES", "other"} } \cup {Text("1", Whole(1)), Src!Silent}

BaseSources ==
  [adapter |-> "http", minSources |-> 0, scale |-> Whole(1), numeric |-> TRUE, decimals |-> 1,
   min |-> Src!NoNum, max |-> Src!NoNum, sanityBps |-> -1, override |-> FALSE,
   options |-> <<"no", "yes">>, mapping |-> "1" :> "yes", index |-> "1" :> 1,
   folded |-> [l \in {"no", "yes", "YES", "other", "1"} |-> IF l = "YES" THEN "yes" ELSE l]]

Configs ==
  {BaseSources,
   [BaseSources EXCEPT !.minSources = 2, !.sanityBps = 0, !.scale = Whole(2)],
   [BaseSources EXCEPT !.min = Whole(0), !.max = [num |-> 1, den |-> 2]],
   [BaseSources EXCEPT !.numeric = FALSE],
   [BaseSources EXCEPT !.numeric = FALSE, !.minSources = 1, !.mapping = << >>]}
  \cup { [BaseSources EXCEPT !.adapter = a, !.numeric = n] : a \in {"exec", "qeval", "gnoswap"}, n \in BOOLEAN }

\* What the agent submitted last and what the feed serves: values on either side of zero.
Known == [hasValue |-> TRUE, lastValue |-> 3, valueRound |-> 1]
Views == [haveValue : BOOLEAN, lastRound : {0, 1}, value : {0, 8}]

SourcesInit ==
  /\ src \in [c : Configs, f : Views, texts : {<< >>}]
  /\ cal = Idle /\ round = Idle /\ pool = Idle

Answer(text) ==
  /\ src # Idle /\ Len(src.texts) < IF src.c.adapter = "http" THEN MaxSources ELSE 1
  /\ src' = [src EXCEPT !.texts = Append(@, text)]
  /\ UNCHANGED <<cal, round, pool>>

Orders == SetToSeqs({"no", "YES", "other", "1"})

SomeOrder == CHOOSE order \in Orders : TRUE

Given == Src!Fetch(src.c, src.texts)

\* The sources that answered with something the feed can use.
Useful == { i \in DOMAIN Given : ~Given[i].err /\ IF src.c.numeric THEN Given[i].num # Src!NoNum ELSE Given[i].label # "" }

Named(label) == Cardinality({ i \in Useful : Given[i].label = label })

\* a, as the feed's integer, is at most v.
ScaledAtMost(a, v) == LET s == Src!ScaleToInt(a, src.c.decimals) IN IF s.ok THEN s.value <= v ELSE a.num < 0

\* What an agent sends is an answer of its sources.  The configured floor of them answered.  A
\* number lies between two values of any set with more than half of the answers, after scaling
\* and rounding, is within half a unit of one of the answers, and keeps to the configured
\* bounds.  An option was named by more sources than any other label, and the outcome does not
\* depend on the order in which the counts are walked.
SourcesOK ==
  (src # Idle /\ Src!Runnable(src.c, Len(src.texts))) =>
    LET verdict(order) == Src!Verdict(src.c, Known, src.f, src.texts, order)
        v == verdict(SomeOrder)
        unit == Src!Pow10(src.c.decimals)
    IN /\ ~src.c.numeric => \A order \in Orders : verdict(order) = v
       /\ v.kind = "send" =>
            /\ Cardinality(Useful) >= Src!MinSources(src.c, Len(src.texts))
            /\ src.c.numeric =>
                 /\ \A M \in SUBSET Useful : 2 * Cardinality(M) > Cardinality(Useful) =>
                      /\ \E i \in M : ScaledAtMost(Given[i].num, v.value)
                      /\ \E i \in M : ~ScaledAtMost(Given[i].num, v.value - 1)
                 /\ \E i \in Useful :
                      2 * Src!Abs(v.value * Given[i].num.den - Given[i].num.num * unit) <= Given[i].num.den
                 /\ src.c.min # Src!NoNum => ScaledAtMost(src.c.min, v.value)
                 /\ src.c.max # Src!NoNum => ~ScaledAtMost(src.c.max, v.value - 1)
            /\ ~src.c.numeric =>
                 \E i \in Useful :
                   /\ Src!OptionIndex(src.c, Given[i].label).value = v.value
                   /\ \A k \in Useful : Given[k].label # Given[i].label => Named(Given[k].label) < Named(Given[i].label)

-----------------------------------------------------------------------------

(* The clients off the chain.                                                *)

\* The jobs of the bot: disputes have no gate of their own, and the mirror no longer throttle
\* than its gate.
BotOrder == <<"resolve", "kourt">>
BotGate == "resolve" :> 0 @@ "kourt" :> 2
BotThrottle == "resolve" :> 1 @@ "kourt" :> 2

WatchAtRest == WatchInit /\ blocks = <<{}>>
CrankAtRest == CrankInit /\ ripe = {}
NoPackage == cal = Idle /\ round = Idle /\ pool = Idle /\ src = Idle

Init ==
  /\ MirrorInit
  /\ \/ /\ client = "none" /\ WatchAtRest /\ CrankAtRest /\ VoterInit
        /\ CalendarInit \/ RoundInit \/ PoolInit \/ SourcesInit
     \/ client = "watch" /\ NoPackage /\ WatchInit /\ CrankAtRest /\ VoterInit
     \/ client = "crank" /\ NoPackage /\ WatchAtRest /\ CrankInit /\ VoterInit
     \/ client \in {"voter", "mirror"} /\ NoPackage /\ WatchAtRest /\ CrankAtRest /\ VoterInit
  /\ client # "mirror" => ~court.priority

PackageNext ==
  \/ Tick \/ FinaliseOne
  \/ \E s \in Slots, v \in Values : Submit(s, v)
  \/ \E amount \in Fees : Fee(amount)
  \/ src # Idle /\ \E text \in (IF src.c.numeric THEN Numbers ELSE Labels) : Answer(text)
  \/ \E h \in Holders : Claim(h) \/ \E shares \in 0..MaxShares : Move(h, shares)

Next ==
  /\ UNCHANGED client
  /\ \/ PackageNext /\ UNCHANGED <<watchVars, crankVars, voterVars, mirrorVars>>
     \/ client = "watch" /\ WatchNext /\ UNCHANGED <<packageVars, crankVars, voterVars, mirrorVars>>
     \/ client = "crank" /\ CrankNext /\ UNCHANGED <<packageVars, watchVars, voterVars, mirrorVars>>
     \/ client = "voter" /\ VoterNext /\ UNCHANGED <<packageVars, watchVars, crankVars, mirrorVars>>
     \/ client = "mirror" /\ MirrorNext /\ UNCHANGED <<packageVars, watchVars, crankVars, voterVars>>

Spec == Init /\ [][Next]_vars

=============================================================================
