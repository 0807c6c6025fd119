------------------------------ MODULE BotWatch ------------------------------
(***************************************************************************)
(* What the bot announces (src/bot/watcher.go, state.go): the events of    *)
(* every block since its cursor, a block at a time and at most so many     *)
(* blocks a pass, with the cursor and the keys of what was sent saved when *)
(* the pass ends.                                                          *)
(*                                                                         *)
(* A post that fails is logged and not repeated, so "announced" is tried   *)
(* once.  Blocks hold only the events the bot announces, numbered by their *)
(* place.  Keys are dropped when a week old: any key may be.               *)
(***************************************************************************)
EXTENDS Naturals, Sequences

CONSTANTS
  Events,       \* places of events in a block
  MaxBlocks,    \* blocks scanned in a pass (max_blocks)
  StartHeight,  \* the block to start from, 0 for the newest (start_height)
  MaxHeight,    \* bound on the height of a chain
  MaxMishaps    \* bound on failures, crashes and new chains

ASSUME WatchAssumption ==
  /\ Events \subseteq Nat
  /\ MaxBlocks \in Nat \ {0} /\ StartHeight \in Nat /\ MaxHeight \in Nat /\ MaxMishaps \in Nat

VARIABLES
  blocks,    \* the chain: the events of each block
  tried,     \* keys of this chain's events that were announced
  earlier,   \* keys announced on chains before it
  state,     \* what the bot remembers (State)
  disk,      \* what it saved
  scan,      \* the scan in progress
  mishaps

watchVars == <<blocks, tried, earlier, state, disk, scan, mishaps>>

EventKeys == Nat \X Events
EventKey(h, e) == <<h, e>>
ChainHead == Len(blocks)

\* To speak of what the bot owes, its state says from where it has followed this chain: not at
\* all until it has set its cursor on it.
NoState == [height |-> 0, sent |-> {}, follows |-> FALSE, since |-> 0]

NoScan == [pc |-> "idle", upto |-> 0, left |-> {}]

WatchInit ==
  /\ blocks \in { <<evs>> : evs \in SUBSET Events }
  /\ tried = {} /\ earlier = {}
  /\ state = NoState /\ disk = NoState
  /\ scan = NoScan
  /\ mishaps = 0

Mishap == mishaps < MaxMishaps /\ mishaps' = mishaps + 1

-----------------------------------------------------------------------------
(* The chain. *)

Produce(evs) ==
  /\ ChainHead < MaxHeight
  /\ blocks' = Append(blocks, evs)
  /\ UNCHANGED <<tried, earlier, state, disk, scan, mishaps>>

\* The chain is started anew, as a development chain is: nothing tells the bot.
NewChain(evs) ==
  /\ Mishap
  /\ blocks' = <<evs>>
  /\ tried' = {} /\ earlier' = earlier \cup tried
  /\ state' = [state EXCEPT !.follows = FALSE] /\ disk' = [disk EXCEPT !.follows = FALSE]
  /\ UNCHANGED scan

-----------------------------------------------------------------------------
(* The scan. *)

StartAt(head) == IF StartHeight = 0 \/ StartHeight > head THEN head ELSE StartHeight

Following(s, height) == [s EXCEPT !.height = height, !.follows = TRUE, !.since = height]

\* Where the scan begins: at the configured block the first time, at the newest one when the
\* chain has become shorter than the cursor.
Placed(s, head) ==
  IF s.height = 0 THEN Following(s, StartAt(head) - 1)
  ELSE IF head < s.height THEN Following(s, head - 1)
  ELSE s

Lesser(a, b) == IF a <= b THEN a ELSE b

BeginScan ==
  /\ scan.pc = "idle"
  /\ state' = Placed(state, ChainHead)
  /\ scan' = [pc |-> "scan", upto |-> Lesser(ChainHead, state'.height + MaxBlocks), left |-> {}]
  /\ UNCHANGED <<blocks, tried, earlier, disk, mishaps>>

Upcoming == state.height + 1

\* The events of the next block, if the node has it and answers.
ReadBlock ==
  /\ scan.pc = "scan" /\ Upcoming <= scan.upto /\ Upcoming <= ChainHead
  /\ scan' = [scan EXCEPT !.pc = "block", !.left = blocks[Upcoming]]
  /\ UNCHANGED <<blocks, tried, earlier, state, disk, mishaps>>

\* Mutant: a block that cannot be read is passed over.
UnreadPassed(s) == [s EXCEPT !.height = @ + 1]

\* What an error leaves of the state.
Unread(s) == s

ReadFails ==
  /\ scan.pc = "scan" /\ Upcoming <= scan.upto
  /\ \/ Mishap
     \/ Upcoming > ChainHead /\ UNCHANGED mishaps
  /\ state' = Unread(state)
  /\ scan' = [scan EXCEPT !.pc = "save"]
  /\ UNCHANGED <<blocks, tried, earlier, disk>>

\* The first event left is announced, unless its key was sent before.
Announce ==
  /\ scan.pc = "block"
  /\ \E e \in scan.left :
       /\ \A other \in scan.left : e <= other
       /\ scan' = [scan EXCEPT !.left = @ \ {e}]
       /\ state' = [state EXCEPT !.sent = @ \cup {EventKey(Upcoming, e)}]
       /\ tried' = IF EventKey(Upcoming, e) \in state.sent THEN tried ELSE tried \cup {EventKey(Upcoming, e)}
  /\ UNCHANGED <<blocks, earlier, disk, mishaps>>

BlockDone ==
  /\ scan.pc = "block" /\ scan.left = {}
  /\ state' = [state EXCEPT !.height = @ + 1]
  /\ scan' = [scan EXCEPT !.pc = "scan"]
  /\ UNCHANGED <<blocks, tried, earlier, disk, mishaps>>

ScanDone ==
  /\ scan.pc = "scan" /\ Upcoming > scan.upto
  /\ scan' = [scan EXCEPT !.pc = "save"]
  /\ UNCHANGED <<blocks, tried, earlier, state, disk, mishaps>>

\* Old keys are dropped and the state is written beside the old file, then put in its place.
SaveState ==
  /\ scan.pc = "save"
  /\ \E old \in SUBSET state.sent : state' = [state EXCEPT !.sent = @ \ old]
  /\ \/ disk' = state' /\ UNCHANGED mishaps
     \/ disk' = disk /\ Mishap
  /\ scan' = NoScan
  /\ UNCHANGED <<blocks, tried, earlier>>

\* The process dies and is started again.
BotDies ==
  /\ scan.pc # "idle"
  /\ Mishap
  /\ state' = disk
  /\ scan' = NoScan
  /\ UNCHANGED <<blocks, tried, earlier, disk>>

WatchNext ==
  \/ \E evs \in SUBSET Events : Produce(evs) \/ NewChain(evs)
  \/ BeginScan \/ ReadBlock \/ ReadFails \/ Announce \/ BlockDone \/ ScanDone
  \/ SaveState \/ BotDies

WatchSpec == WatchInit /\ [][WatchNext]_watchVars

-----------------------------------------------------------------------------

\* Whatever fails, is forgotten or started again, no event is lost behind the cursor, in memory
\* or on disk: since the bot set its cursor on this chain, every event of the blocks up to it was
\* announced, or has the key of an event of an earlier chain, from which it is not told apart
\* (scan advances the cursor after the last post of a block, Tick saves it after the scan).
NothingBehind(s) ==
  s.follows =>
    \A h \in s.since + 1 .. s.height :
      /\ h <= ChainHead
      /\ \A e \in blocks[h] : EventKey(h, e) \in tried \cup earlier

EveryEventTried == NothingBehind(state) /\ NothingBehind(disk)

=============================================================================
