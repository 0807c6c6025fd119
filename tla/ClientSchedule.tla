---------------------------- MODULE ClientSchedule ----------------------------
(* The calendar as the agent and the bot compute it from a view of the feed  *)
(* (src/internal/gnochain/schedule.go), in Go and from a copied formula.     *)
EXTENDS Integers

IsOneOff(s) == s.interval = 0

NotStarted == [round |-> 0, started |-> FALSE]

Current(s, now) ==
  IF now < s.startAt THEN NotStarted
  ELSE IF IsOneOff(s) THEN [round |-> 0, started |-> TRUE]
  ELSE [round |-> (now - s.startAt) \div s.interval, started |-> TRUE]

OpenAt(s, id) == IF IsOneOff(s) THEN s.startAt ELSE s.startAt + id * s.interval

\* Mutant: the window lasts until the next round opens.
CloseAtNextRound(s, id) == OpenAt(s, id) + s.interval

CloseAt(s, id) == OpenAt(s, id) + s.submitWindow

IsOpen(s, id, now) == now >= OpenAt(s, id) /\ now < CloseAt(s, id)

IsClosed(s, id, now) == now >= CloseAt(s, id)

\* The first round not finalised; 1, which no one-off feed has, when nothing is left.
Next(s, lastFinalised, haveLast) ==
  IF ~haveLast THEN 0 ELSE IF IsOneOff(s) THEN 1 ELSE lastFinalised + 1

=============================================================================
