------------------------------ MODULE Schedule ------------------------------
(***************************************************************************)
(* The round calendar of a feed: package p/clockwork/gnoracle/rounds.      *)
(*                                                                         *)
(* A schedule is the time its first round opens (or, for a one-off feed,   *)
(* its resolve time), the seconds between rounds (0 marks a one-off feed,  *)
(* which has round 0 only) and the seconds a round takes submissions.      *)
(* Everything is a function of the block time t, so the operators are pure.*)
(* Times are unbounded integers: the 64-bit bounds the package tests in    *)
(* Exists lie beyond any block time.                                       *)
(***************************************************************************)
EXTENDS Integers, FiniteSets

Recurring(startAt, interval, submitWindow) ==
  [startAt |-> startAt, interval |-> interval, submitWindow |-> submitWindow]

OneOff(resolveAt, submitWindow) ==
  [startAt |-> resolveAt, interval |-> 0, submitWindow |-> submitWindow]

IsOneOff(sc) == sc.interval = 0

\* The rules Validate enforces, with the minimum window and interval abstracted to 1.
Valid(sc) ==
  /\ sc.startAt > 0
  /\ sc.submitWindow >= 1
  /\ IsOneOff(sc) \/ (sc.interval >= 1 /\ sc.submitWindow <= sc.interval)

Started(sc, t) == t >= sc.startAt

\* The round whose open time is the latest at or before t (once Started).
Current(sc, t) ==
  IF IsOneOff(sc) THEN 0 ELSE (t - sc.startAt) \div sc.interval

OpenAt(sc, id) == sc.startAt + id * sc.interval

CloseAt(sc, id) == OpenAt(sc, id) + sc.submitWindow

IsOpen(sc, id, t) == OpenAt(sc, id) <= t /\ t < CloseAt(sc, id)

IsClosed(sc, id, t) == t >= CloseAt(sc, id)

Exists(sc, id, t) ==
  /\ IsOneOff(sc) => id = 0
  /\ t >= OpenAt(sc, id)

\* The first round not finalised yet.
NextRound(haveLast, last) == IF haveLast THEN last + 1 ELSE 0

\* Mutant: rounds that still take submissions are finalised too.
FinalisableWhileOpen(sc, haveLast, last, t, limit) ==
  LET next == NextRound(haveLast, last) IN
  { id \in next .. (next + limit - 1) : (IsOneOff(sc) => id = 0) /\ Exists(sc, id, t) }

\* The closed rounds not finalised yet, from the next one on, at most limit.
Finalisable(sc, haveLast, last, t, limit) ==
  LET next == NextRound(haveLast, last) IN
  { id \in next .. (next + limit - 1) :
      /\ IsOneOff(sc) => id = 0
      /\ \A k \in next .. id : IsClosed(sc, k, t) }

\* How many closed rounds are not finalised, capped: the closed form a cranker reads.
Behind(sc, haveLast, last, t, cap) ==
  LET cur == Current(sc, t)
      lastClosed == IF IsClosed(sc, cur, t) THEN cur ELSE cur - 1
      n == lastClosed - NextRound(haveLast, last) + 1
  IN IF IsOneOff(sc)
     THEN IF haveLast \/ ~IsClosed(sc, 0, t) THEN 0 ELSE 1
     ELSE IF ~Started(sc, t) \/ n <= 0 THEN 0
          ELSE IF n > cap THEN cap ELSE n

\* No round finalised within maxAge of t.
Stale(lastFinalOpenAt, t, maxAge) == t - lastFinalOpenAt > maxAge

=============================================================================
