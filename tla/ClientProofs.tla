---------------------------- MODULE ClientProofs ----------------------------
(* What stands beside the core.  The bot loses no event behind its cursor    *)
(* and passes over no job twice running; the salt of a commitment on chain   *)
(* is on file; a record of the court that a crank closed says what the court *)
(* decided.  The bot's two passes first, then the voter, then the mirror.    *)
EXTENDS BotWatch, BotCrank, Voter, KourtMirror, TLAPS

\* What the fields of the bot's state and of a scan range over (bot/state.go:14-22).
WatchStates == [height : Nat, sent : SUBSET EventKeys, follows : BOOLEAN, since : Nat]

WatchTypes ==
  /\ blocks \in Seq(SUBSET Events) /\ ChainHead >= 1
  /\ tried \subseteq EventKeys /\ earlier \subseteq EventKeys
  /\ state \in WatchStates /\ disk \in WatchStates
  /\ scan \in [pc : {"idle", "scan", "block", "save"}, upto : Nat, left : SUBSET Events]

\* A key is only kept of an event that was announced.
SentTried == state.sent \subseteq tried \cup earlier /\ disk.sent \subseteq tried \cup earlier

\* Of the block being announced, what is not left was announced.
BlockHalfDone ==
  (scan.pc = "block" /\ state.follows) =>
    /\ Upcoming <= ChainHead
    /\ \A e \in blocks[Upcoming] \ scan.left : EventKey(Upcoming, e) \in tried \cup earlier

WatchInv == WatchTypes /\ SentTried /\ BlockHalfDone /\ EveryEventTried

-----------------------------------------------------------------------------

\* A scan begins where nothing is owed yet, or where the last one ended (watcher.go:20-30).
LEMMA PlacedOK ==
  ASSUME NEW s \in WatchStates, NEW head \in Nat, head >= 1, head = ChainHead, NothingBehind(s), WatchAssumption
  PROVE  /\ Placed(s, head) \in WatchStates
         /\ NothingBehind(Placed(s, head))
         /\ Placed(s, head).sent = s.sent
<1>1. StartAt(head) \in Nat /\ StartAt(head) >= 1
  BY DEF StartAt, WatchAssumption
<1>2. ASSUME NEW h \in Nat
      PROVE  /\ Following(s, h) \in WatchStates
             /\ NothingBehind(Following(s, h))
             /\ Following(s, h).sent = s.sent
  <2>1. Following(s, h) \in WatchStates /\ Following(s, h).sent = s.sent
    BY DEF Following, WatchStates
  <2>2. Following(s, h).since = h /\ Following(s, h).height = h
    BY DEF Following, WatchStates
  <2>3. NothingBehind(Following(s, h))
    BY <2>2 DEF NothingBehind
  <2> QED
    BY <2>1, <2>3
<1>3. StartAt(head) - 1 \in Nat /\ head - 1 \in Nat
  BY <1>1
<1> QED
  BY <1>2, <1>3 DEF Placed

\* What was announced stays so on the same chain, however it grows.
LEMMA StillTried ==
  ASSUME WatchTypes, NEW s \in WatchStates, NothingBehind(s),
         ChainHead <= Len(blocks'),
         \A h \in 1 .. ChainHead : blocks'[h] = blocks[h],
         tried \cup earlier \subseteq tried' \cup earlier'
  PROVE  NothingBehind(s)'
<1> SUFFICES ASSUME s.follows, NEW h \in s.since + 1 .. s.height
             PROVE  /\ h <= Len(blocks')
                    /\ \A e \in blocks'[h] : EventKey(h, e) \in tried' \cup earlier'
  BY DEF NothingBehind, ChainHead, EventKey
<1>1. h <= ChainHead /\ \A e \in blocks[h] : EventKey(h, e) \in tried \cup earlier
  BY DEF NothingBehind
<1>2. h \in 1 .. ChainHead
  BY <1>1 DEF WatchStates, WatchTypes, ChainHead
<1>3. ChainHead \in Nat /\ Len(blocks') >= ChainHead
  BY DEF WatchTypes, ChainHead
<1> QED
  BY <1>1, <1>2, <1>3 DEF ChainHead

LEMMA WatchInitOK ==
  ASSUME WatchAssumption, WatchInit PROVE WatchInv
<1>1. PICK evs \in SUBSET Events : blocks = <<evs>>
  BY DEF WatchInit
<1>2. WatchTypes
  BY <1>1 DEF WatchInit, WatchTypes, NoState, NoScan, WatchStates, ChainHead
<1> QED
  BY <1>2 DEF WatchInit, WatchInv, SentTried, BlockHalfDone, EveryEventTried, NothingBehind, NoState, NoScan

\* Each step of the chain and of the bot keeps the bot's account of itself true.
LEMMA WatchStep ==
  ASSUME WatchAssumption, WatchInv, WatchNext PROVE WatchInv'
<1> USE DEF WatchInv
<1>1. CASE \E evs \in SUBSET Events : Produce(evs)
  <2>1. PICK evs \in SUBSET Events : Produce(evs)
    BY <1>1
  <2>2. /\ blocks' \in Seq(SUBSET Events)
        /\ Len(blocks') = ChainHead + 1
        /\ \A h \in 1 .. ChainHead : blocks'[h] = blocks[h]
    BY <2>1 DEF Produce, WatchTypes, ChainHead
  <2>3. ChainHead \in Nat /\ ChainHead <= Len(blocks')
    BY <2>2 DEF WatchTypes, ChainHead
  <2>4. NothingBehind(state)' /\ NothingBehind(disk)'
    <3>1. NothingBehind(state) /\ NothingBehind(disk) /\ state \in WatchStates /\ disk \in WatchStates
      BY DEF EveryEventTried, WatchTypes
    <3>2. UNCHANGED <<tried, earlier, state, disk>>
      BY <2>1 DEF Produce
    <3>3. \A s \in WatchStates : NothingBehind(s) => NothingBehind(s)'
      BY <2>2, <2>3, <3>2, StillTried
    <3> QED
      BY <3>1, <3>2, <3>3 DEF NothingBehind
  <2>5. WatchTypes' /\ SentTried'
    BY <2>1, <2>2 DEF Produce, WatchTypes, SentTried, ChainHead
  <2>6. BlockHalfDone'
    <3>1. Upcoming \in Nat /\ Upcoming >= 1
      BY DEF WatchTypes, WatchStates, Upcoming
    <3> QED
      BY <2>1, <2>2, <2>3, <3>1 DEF Produce, BlockHalfDone, Upcoming, ChainHead
  <2> QED
    BY <2>4, <2>5, <2>6 DEF EveryEventTried
<1>2. CASE \E evs \in SUBSET Events : NewChain(evs)
  <2>1. PICK evs \in SUBSET Events : NewChain(evs)
    BY <1>2
  <2>a. state \in WatchStates /\ disk \in WatchStates
    BY DEF WatchTypes
  <2>b. /\ state' = [state EXCEPT !.follows = FALSE] /\ disk' = [disk EXCEPT !.follows = FALSE]
        /\ blocks' = <<evs>> /\ tried' = {} /\ earlier' = earlier \cup tried /\ scan' = scan
    BY <2>1 DEF NewChain
  <2>c. state' \in WatchStates /\ disk' \in WatchStates
    BY <2>a, <2>b DEF WatchStates
  <2>d. blocks' \in Seq(SUBSET Events) /\ Len(blocks') >= 1
    BY <2>b
  <2>2. WatchTypes'
    BY <2>b, <2>c, <2>d DEF WatchTypes, ChainHead
  <2>3. SentTried'
    BY <2>a, <2>b DEF SentTried, WatchStates
  <2>4. ~state'.follows /\ ~disk'.follows
    BY <2>a, <2>b DEF WatchStates
  <2> QED
    BY <2>2, <2>3, <2>4 DEF BlockHalfDone, EveryEventTried, NothingBehind
<1>3. CASE BeginScan
  <2>1. state \in WatchStates /\ ChainHead \in Nat /\ ChainHead >= 1 /\ NothingBehind(state)
    BY DEF WatchTypes, ChainHead, EveryEventTried
  <2>2. state' \in WatchStates /\ NothingBehind(Placed(state, ChainHead)) /\ state'.sent = state.sent
    BY <1>3, <2>1, PlacedOK DEF BeginScan
  <2>3. Lesser(ChainHead, state'.height + MaxBlocks) \in Nat
    BY <2>1, <2>2 DEF Lesser, WatchStates, WatchAssumption
  <2>4. WatchTypes'
    BY <1>3, <2>2, <2>3 DEF BeginScan, WatchTypes, ChainHead
  <2>5. NothingBehind(state)' /\ NothingBehind(disk)'
    BY <1>3, <2>2 DEF BeginScan, NothingBehind, EveryEventTried, ChainHead
  <2> QED
    BY <1>3, <2>2, <2>4, <2>5 DEF BeginScan, SentTried, BlockHalfDone, EveryEventTried
<1>4. CASE ReadBlock
  <2>1. WatchTypes'
    <3>1. Upcoming \in 1 .. ChainHead
      BY <1>4 DEF ReadBlock, WatchTypes, WatchStates, Upcoming, ChainHead
    <3>2. blocks[Upcoming] \in SUBSET Events
      BY <3>1 DEF WatchTypes, ChainHead
    <3>3. scan' \in [pc : {"idle", "scan", "block", "save"}, upto : Nat, left : SUBSET Events]
      BY <1>4, <3>2 DEF ReadBlock, WatchTypes
    <3> QED
      BY <1>4, <3>3 DEF ReadBlock, WatchTypes, ChainHead
  <2>2. BlockHalfDone'
    BY <1>4 DEF ReadBlock, BlockHalfDone, WatchTypes, ChainHead, Upcoming
  <2> QED
    BY <1>4, <2>1, <2>2 DEF ReadBlock, SentTried, EveryEventTried, NothingBehind, ChainHead
<1>5. CASE ReadFails
  <2>1. WatchTypes' /\ scan'.pc = "save"
    BY <1>5 DEF ReadFails, WatchTypes, ChainHead, Unread
  <2> QED
    BY <1>5, <2>1 DEF ReadFails, Unread, SentTried, BlockHalfDone, EveryEventTried, NothingBehind, ChainHead
<1>6. CASE Announce
  <2>1. PICK e \in scan.left :
          /\ scan' = [scan EXCEPT !.left = @ \ {e}]
          /\ state' = [state EXCEPT !.sent = @ \cup {EventKey(Upcoming, e)}]
          /\ tried' = IF EventKey(Upcoming, e) \in state.sent THEN tried ELSE tried \cup {EventKey(Upcoming, e)}
          /\ scan.pc = "block" /\ UNCHANGED <<blocks, earlier, disk>>
    BY <1>6 DEF Announce
  <2>2. EventKey(Upcoming, e) \in EventKeys
    BY <2>1 DEF WatchTypes, WatchStates, Upcoming, EventKey, EventKeys
  <2>3. EventKey(Upcoming, e) \in tried' \cup earlier' /\ tried \cup earlier \subseteq tried' \cup earlier'
    BY <2>1 DEF SentTried
  <2>a. state \in WatchStates /\ scan \in [pc : {"idle", "scan", "block", "save"}, upto : Nat, left : SUBSET Events]
    BY DEF WatchTypes
  <2>b. state' \in WatchStates /\ state'.sent = state.sent \cup {EventKey(Upcoming, e)}
    BY <2>1, <2>2, <2>a DEF WatchStates
  <2>c. /\ scan' \in [pc : {"idle", "scan", "block", "save"}, upto : Nat, left : SUBSET Events]
        /\ scan'.left = scan.left \ {e} /\ scan'.pc = "block"
    BY <2>1, <2>a
  <2>d. tried' \subseteq EventKeys
    BY <2>1, <2>2 DEF WatchTypes
  <2>4. WatchTypes'
    BY <2>1, <2>b, <2>c, <2>d DEF WatchTypes, ChainHead
  <2>5. SentTried'
    BY <2>1, <2>3, <2>b DEF SentTried
  <2>6. state'.height = state.height /\ state'.since = state.since /\ state'.follows = state.follows
    BY <2>1, <2>a DEF WatchStates
  <2>7. BlockHalfDone'
    <3>1. SUFFICES ASSUME state.follows
                   PROVE  /\ Upcoming <= ChainHead
                          /\ \A x \in blocks[Upcoming] \ scan'.left : EventKey(Upcoming, x) \in tried' \cup earlier'
      BY <2>1, <2>6 DEF BlockHalfDone, Upcoming, ChainHead, EventKey
    <3>2. Upcoming <= ChainHead /\ \A x \in blocks[Upcoming] \ scan.left : EventKey(Upcoming, x) \in tried \cup earlier
      BY <2>1, <3>1 DEF BlockHalfDone
    <3> QED
      BY <2>3, <2>c, <3>2
  <2>8. EveryEventTried'
    BY <2>1, <2>3, <2>6 DEF EveryEventTried, NothingBehind, ChainHead, EventKey
  <2> QED
    BY <2>4, <2>5, <2>7, <2>8
<1>7. CASE BlockDone
  <2>1. /\ scan.pc = "block" /\ scan.left = {}
        /\ state' = [state EXCEPT !.height = @ + 1]
        /\ scan' = [scan EXCEPT !.pc = "scan"]
        /\ UNCHANGED <<blocks, tried, earlier, disk>>
    BY <1>7 DEF BlockDone
  <2>a. state \in WatchStates /\ scan \in [pc : {"idle", "scan", "block", "save"}, upto : Nat, left : SUBSET Events]
    BY DEF WatchTypes
  <2>b. /\ state' \in WatchStates /\ state'.sent = state.sent /\ state'.height = state.height + 1
        /\ state'.since = state.since /\ state'.follows = state.follows
    BY <2>1, <2>a DEF WatchStates
  <2>c. /\ scan' \in [pc : {"idle", "scan", "block", "save"}, upto : Nat, left : SUBSET Events]
        /\ scan'.pc = "scan"
    BY <2>1, <2>a
  <2>2. WatchTypes' /\ SentTried' /\ scan'.pc = "scan"
    BY <2>1, <2>b, <2>c DEF WatchTypes, SentTried, ChainHead
  <2>3. NothingBehind(state)'
    <3>1. SUFFICES ASSUME state.follows, NEW h \in state.since + 1 .. state.height + 1
                   PROVE  h <= ChainHead /\ \A e \in blocks[h] : EventKey(h, e) \in tried \cup earlier
      BY <2>1, <2>b DEF NothingBehind, ChainHead, EventKey
    <3>2. CASE h = Upcoming
      BY <2>1, <3>1, <3>2 DEF BlockHalfDone
    <3>3. CASE h # Upcoming
      <4>1. h \in state.since + 1 .. state.height
        BY <3>3 DEF Upcoming, WatchTypes, WatchStates
      <4> QED
        BY <3>1, <4>1 DEF EveryEventTried, NothingBehind
    <3> QED
      BY <3>2, <3>3
  <2>4. NothingBehind(disk)'
    BY <2>1 DEF EveryEventTried, NothingBehind, ChainHead
  <2> QED
    BY <2>2, <2>3, <2>4 DEF BlockHalfDone, EveryEventTried
<1>8. CASE ScanDone
  <2>1. WatchTypes' /\ scan'.pc = "save"
    BY <1>8 DEF ScanDone, WatchTypes, ChainHead
  <2> QED
    BY <1>8, <2>1 DEF ScanDone, SentTried, BlockHalfDone, EveryEventTried, NothingBehind, ChainHead
<1>9. CASE SaveState
  <2>1. PICK old \in SUBSET state.sent : state' = [state EXCEPT !.sent = @ \ old]
    BY <1>9 DEF SaveState
  <2>2. disk' \in {state', disk} /\ scan' = NoScan /\ UNCHANGED <<blocks, tried, earlier>>
    BY <1>9 DEF SaveState
  <2>3. /\ state' \in WatchStates /\ state'.sent \subseteq state.sent
        /\ state'.height = state.height /\ state'.since = state.since /\ state'.follows = state.follows
    BY <2>1 DEF WatchTypes, WatchStates
  <2>4. WatchTypes'
    BY <2>2, <2>3 DEF WatchTypes, NoScan, ChainHead
  <2>5. NothingBehind(state)'
    BY <2>2, <2>3 DEF EveryEventTried, NothingBehind, ChainHead
  <2>6. NothingBehind(disk)'
    <3>1. CASE disk' = state'
      BY <3>1, <2>5 DEF NothingBehind
    <3>2. CASE disk' = disk
      BY <3>2, <2>2 DEF EveryEventTried, NothingBehind, ChainHead
    <3> QED
      BY <2>2, <3>1, <3>2
  <2> QED
    BY <2>2, <2>3, <2>4, <2>5, <2>6 DEF SentTried, BlockHalfDone, EveryEventTried, NoScan
<1>10. CASE BotDies
  <2>1. WatchTypes' /\ scan'.pc = "idle"
    BY <1>10 DEF BotDies, WatchTypes, NoScan, ChainHead
  <2> QED
    BY <1>10, <2>1 DEF BotDies, SentTried, BlockHalfDone, EveryEventTried, NothingBehind, ChainHead
<1> QED
  BY <1>1, <1>2, <1>3, <1>4, <1>5, <1>6, <1>7, <1>8, <1>9, <1>10 DEF WatchNext

LEMMA WatchStutter ==
  ASSUME WatchInv, UNCHANGED watchVars PROVE WatchInv'
BY DEF watchVars, WatchInv, WatchTypes, SentTried, BlockHalfDone, EveryEventTried, NothingBehind,
       ChainHead, Upcoming, EventKey

\* Through failures, crashes and new chains, however many, the bot has announced every event up
\* to its cursor since it set it on the chain, in memory and on disk (bot/watcher.go:14-54,
\* bot/bot.go:62-80).
THEOREM EveryEventIsTried == WatchSpec => []EveryEventTried
<1>1. WatchInit => WatchInv
  BY WatchAssumption, WatchInitOK
<1>2. WatchInv /\ [WatchNext]_watchVars => WatchInv'
  BY WatchAssumption, WatchStep, WatchStutter
<1>3. WatchInv => EveryEventTried
  BY DEF WatchInv
<1> QED
  BY <1>1, <1>2, <1>3, PTL DEF WatchSpec

-----------------------------------------------------------------------------
(* The pass of the cranker.                                                  *)

Memories == [lastCrank : Nat, lastLook : [Jobs -> Nat], attempt : [Jobs -> Nat]]

CrankTypes ==
  /\ clock \in Nat /\ clock >= StartClock
  /\ memory \in Memories /\ saved \in Memories
  /\ todo \in [running : BOOLEAN, next : Nat \ {0}]
  /\ skipped \in [Jobs -> Nat]

\* Nothing remembered is of the future.
Past(m) ==
  m.lastCrank <= clock /\ \A j \in Jobs : m.lastLook[j] <= clock /\ m.attempt[j] <= clock

\* The pass in progress has not come to the job.
Ahead(j) == todo.running /\ \E i \in DOMAIN Order : todo.next <= i /\ Order[i] = j

\* A job the pass has not come to was attempted before it.
TriedBefore == \A j \in Jobs : Ahead(j) => memory.attempt[j] <= memory.lastCrank

\* A job passed over was attempted before the pass that did so, and before it came to its kind.
Waiting(j) ==
  /\ memory.attempt[j] <= memory.lastLook[j]
  /\ memory.attempt[j] <= memory.lastCrank
  /\ Ahead(j) => memory.attempt[j] + CrankEvery <= memory.lastCrank

Hurried(j) == Throttle[j] <= CrankEvery \/ Throttle[j] <= Gate[j]

CrankInv ==
  /\ CrankTypes /\ Past(memory) /\ Past(saved) /\ TriedBefore
  /\ \A j \in Jobs : skipped[j] > 0 => Waiting(j)
  /\ RetriedSoon

-----------------------------------------------------------------------------

\* What the assumptions say of the jobs.
LEMMA Periods ==
  /\ CrankEvery \in Nat /\ StartClock \in Nat
  /\ \A j \in Jobs : Gate[j] \in Nat /\ Throttle[j] \in Nat
  /\ Len(Order) \in Nat /\ DOMAIN Order = 1 .. Len(Order)
  /\ \A i \in DOMAIN Order : Order[i] \in Jobs
BY CrankAssumption DEF Jobs

LEMMA CrankInitOK ==
  ASSUME CrankInit PROVE CrankInv
<1>1. CrankTypes
  BY Periods DEF CrankInit, CrankTypes, NoMemory, NoPass, Memories
<1>2. Past(memory) /\ Past(saved)
  BY Periods DEF CrankInit, Past, NoMemory
<1> QED
  BY <1>1, <1>2, Periods DEF CrankInit, CrankInv, TriedBefore, Ahead, NoPass, RetriedSoon

\* The pass goes on to the next job: the one it leaves is not ahead any more, and no other is
\* that was not.
LEMMA GoesOn ==
  ASSUME CrankInv, NEW j \in Jobs, Looking(j), PassOn
  PROVE  /\ todo' \in [running : BOOLEAN, next : Nat \ {0}]
         /\ Ahead(j) /\ ~Ahead(j)'
         /\ \A k \in Jobs : Ahead(k)' => Ahead(k)
<1>1. /\ todo \in [running : BOOLEAN, next : Nat \ {0}] /\ todo.running /\ todo.next \in DOMAIN Order
      /\ Order[todo.next] = j /\ todo' = [todo EXCEPT !.next = @ + 1]
  BY DEF CrankInv, CrankTypes, Looking, PassOn
<1>2. todo'.running = todo.running /\ todo'.next = todo.next + 1 /\ todo' \in [running : BOOLEAN, next : Nat \ {0}]
  <2>1. /\ todo \in [running : BOOLEAN, next : Nat \ {0}]
        /\ todo' = [todo EXCEPT !.next = @ + 1]
    BY <1>1
  <2>2. todo.next \in Nat /\ todo.next + 1 \in Nat \ {0}
    BY <2>1
  <2> QED
    BY <2>1, <2>2
<1>3. \A i \in DOMAIN Order : Order[i] = j => i = todo.next
  BY <1>1, CrankAssumption
<1>4. \A i \in DOMAIN Order : i \in Nat
  BY Periods
<1> QED
  BY <1>1, <1>2, <1>3, <1>4 DEF Ahead

\* When nothing is stamped but looks, and no job is passed over, the account stays true.
LEMMA OnlyLooked ==
  ASSUME CrankInv, NEW j \in Jobs, NEW at \in CameAt, memory' = [memory EXCEPT !.lastLook[j] = at],
         GateOpen(j, at), todo' \in [running : BOOLEAN, next : Nat \ {0}],
         \A k \in Jobs : Ahead(k)' => Ahead(k), UNCHANGED <<clock, saved, skipped>>
  PROVE  CrankInv'
<1>1. /\ memory \in Memories /\ at \in Nat /\ at <= clock /\ clock \in Nat /\ Gate[j] \in Nat
      /\ memory.lastLook[j] + Gate[j] <= at
  <2>1. memory \in Memories /\ clock \in Nat /\ memory.lastCrank \in Nat /\ memory.lastLook[j] \in Nat
    BY DEF CrankInv, CrankTypes, Memories
  <2>2. at \in Nat /\ at <= clock
    BY <2>1 DEF CameAt
  <2>3. Gate[j] \in Nat
    BY Periods
  <2>4. at - memory.lastLook[j] >= Gate[j]
    BY DEF GateOpen
  <2> QED
    BY ONLY <2>1, <2>2, <2>3, <2>4
<1>2. /\ memory' \in Memories /\ memory'.lastCrank = memory.lastCrank /\ memory'.attempt = memory.attempt
      /\ memory'.lastLook = [memory.lastLook EXCEPT ![j] = at]
  BY <1>1 DEF Memories
<1>3. \A k \in Jobs : memory.lastLook[k] <= memory'.lastLook[k] /\ memory'.lastLook[k] <= clock
  BY <1>1, <1>2 DEF CrankInv, Past, Memories
<1>4. CrankTypes'
  BY <1>2 DEF CrankInv, CrankTypes
<1>5. Past(memory)' /\ Past(saved)'
  BY <1>2, <1>3 DEF CrankInv, Past
<1>6. TriedBefore'
  BY <1>2 DEF CrankInv, TriedBefore
<1>7. \A k \in Jobs : skipped[k] > 0 => Waiting(k)'
  <2> SUFFICES ASSUME NEW k \in Jobs, skipped[k] > 0 PROVE Waiting(k)'
    OBVIOUS
  <2>1. Waiting(k) /\ memory.attempt[k] \in Nat /\ memory.lastLook[k] \in Nat /\ memory'.lastLook[k] \in Nat
    BY <1>1, <1>2 DEF CrankInv, Memories
  <2>2. memory'.attempt[k] <= memory'.lastLook[k]
    BY <1>2, <1>3, <2>1 DEF Waiting
  <2> QED
    BY <1>2, <2>1, <2>2 DEF Waiting
<1> QED
  BY <1>4, <1>5, <1>6, <1>7 DEF CrankInv, RetriedSoon

\* A step keeps the account when it changes neither the times nor what is ahead, and counts no
\* job as passed over.
LEMMA OnlyCounted ==
  ASSUME CrankInv, UNCHANGED <<clock, memory, saved>>, todo' \in [running : BOOLEAN, next : Nat \ {0}],
         \A k \in Jobs : Ahead(k)' => Ahead(k),
         skipped' \in [Jobs -> Nat], \A k \in Jobs : skipped'[k] \in {0, skipped[k]}
  PROVE  CrankInv'
<1>1. CrankTypes' /\ Past(memory)' /\ Past(saved)' /\ TriedBefore'
  BY DEF CrankInv, CrankTypes, Past, TriedBefore
<1>2. \A k \in Jobs : skipped'[k] > 0 => Waiting(k)'
  BY DEF CrankInv, Waiting
<1>3. RetriedSoon'
  BY DEF CrankInv, RetriedSoon
<1> QED
  BY <1>1, <1>2, <1>3 DEF CrankInv

\* Each step of the bot, of the clock and of others keeps the account.
LEMMA CrankStep ==
  ASSUME CrankInv, CrankNext PROVE CrankInv'
<1>a. /\ clock \in Nat /\ memory \in Memories /\ saved \in Memories /\ skipped \in [Jobs -> Nat]
      /\ todo \in [running : BOOLEAN, next : Nat \ {0}]
  BY DEF CrankInv, CrankTypes
<1>1. CASE Elapse
  <2>1. clock' = clock + 1 /\ UNCHANGED <<memory, saved, todo, skipped>>
    BY <1>1 DEF Elapse
  <2>2. CrankTypes' /\ TriedBefore' /\ RetriedSoon'
    BY <2>1, Periods DEF CrankInv, CrankTypes, TriedBefore, RetriedSoon, Ahead
  <2>3. \A m \in Memories : Past(m) => Past(m)'
    BY <2>1, <1>a DEF Past, Memories
  <2>4. \A k \in Jobs : Waiting(k) => Waiting(k)'
    BY <2>1 DEF Waiting, Ahead
  <2>5. Past(memory)' /\ Past(saved)'
    BY <2>1, <2>3, <1>a DEF CrankInv, Past
  <2> QED
    BY <2>1, <2>2, <2>4, <2>5 DEF CrankInv
<1>2. CASE \E j \in Jobs : Ripen(j)
  <2>1. UNCHANGED <<clock, memory, saved, todo, skipped>>
    BY <1>2 DEF Ripen
  <2> QED
    BY <2>1, <1>a, OnlyCounted DEF Ahead
<1>3. CASE \E j \in Jobs : DoneByAnother(j)
  <2>1. PICK j \in Jobs : skipped' = [skipped EXCEPT ![j] = 0] /\ UNCHANGED <<clock, memory, saved, todo>>
    BY <1>3 DEF DoneByAnother
  <2> QED
    BY <2>1, <1>a, OnlyCounted DEF Ahead
<1>4. CASE BeginPass
  <2>1. /\ memory' = [memory EXCEPT !.lastCrank = clock] /\ todo' = [running |-> TRUE, next |-> 1]
        /\ clock - memory.lastCrank >= CrankEvery /\ UNCHANGED <<clock, saved, skipped>>
    BY <1>4 DEF BeginPass
  <2>2. /\ memory' \in Memories /\ memory'.lastCrank = clock
        /\ memory'.lastLook = memory.lastLook /\ memory'.attempt = memory.attempt
    BY <2>1, <1>a DEF Memories
  <2>3. CrankTypes' /\ Past(memory)' /\ Past(saved)' /\ TriedBefore'
    BY <2>1, <2>2 DEF CrankInv, CrankTypes, Past, TriedBefore
  <2>4. \A k \in Jobs : skipped[k] > 0 => Waiting(k)'
    <3> SUFFICES ASSUME NEW k \in Jobs, skipped[k] > 0 PROVE Waiting(k)'
      OBVIOUS
    <3>1. /\ memory.attempt[k] \in Nat /\ memory.lastCrank \in Nat
          /\ memory.attempt[k] <= memory.lastLook[k] /\ memory.attempt[k] <= memory.lastCrank
      BY <1>a DEF CrankInv, Waiting, Memories
    <3>2. memory.attempt[k] + CrankEvery <= clock /\ memory.attempt[k] <= clock
      BY <2>1, <3>1, <1>a, Periods
    <3> QED
      BY <2>2, <3>1, <3>2 DEF Waiting
  <2>5. RetriedSoon'
    BY <2>1 DEF CrankInv, RetriedSoon
  <2> QED
    BY <2>1, <2>3, <2>4, <2>5 DEF CrankInv
<1>5. CASE \E j \in Jobs : GateShut(j)
  <2>1. PICK j \in Jobs : Looking(j) /\ PassOn /\ UNCHANGED <<clock, memory, saved, skipped>>
    BY <1>5 DEF GateShut
  <2> QED
    BY <2>1, <1>a, GoesOn, OnlyCounted
<1>6. CASE \E j \in Jobs : ViewFails(j)
  <2>1. PICK j \in Jobs : ViewFails(j)
    BY <1>6
  <2>2. PICK at \in CameAt : GateOpen(j, at) /\ memory' = [memory EXCEPT !.lastLook[j] = at]
    BY <2>1 DEF ViewFails
  <2>3. Looking(j) /\ PassOn /\ UNCHANGED <<clock, saved, skipped>>
    BY <2>1 DEF ViewFails
  <2> QED
    BY <2>2, <2>3, GoesOn, OnlyLooked
<1>7. CASE \E j \in Jobs : Look(j)
  <2>1. PICK j \in Jobs : Look(j)
    BY <1>7
  <2>2. PICK at \in CameAt :
          /\ GateOpen(j, at)
          /\ LET m == [memory EXCEPT !.lastLook[j] = at]
             IN \/ j \notin ripe /\ memory' = m /\ UNCHANGED <<ripe, skipped>>
                \/ /\ j \in ripe /\ Due(m, j)
                   /\ memory' = Stamped(m, j)
                   /\ ripe' \in {ripe, ripe \ {j}}
                   /\ skipped' = [skipped EXCEPT ![j] = 0]
                \/ /\ j \in ripe /\ ~Due(m, j)
                   /\ memory' = NotDue(m, j)
                   /\ skipped' = [skipped EXCEPT ![j] = @ + 1]
                   /\ UNCHANGED ripe
    BY <2>1 DEF Look
  <2>3. Looking(j) /\ PassOn /\ UNCHANGED <<clock, saved>>
    BY <2>1 DEF Look
  <2> DEFINE m == [memory EXCEPT !.lastLook[j] = at]
  <2>4. /\ m \in Memories /\ m.lastCrank = memory.lastCrank /\ m.attempt = memory.attempt
        /\ m.lastLook = [memory.lastLook EXCEPT ![j] = at]
        /\ at \in Nat /\ at <= clock /\ memory.lastCrank <= at /\ memory.lastLook[j] + Gate[j] <= at
    <3>1. memory.lastCrank \in Nat /\ memory.lastLook \in [Jobs -> Nat] /\ Gate[j] \in Nat
      BY <1>a, Periods DEF Memories
    <3>2. at \in Nat /\ at <= clock /\ memory.lastCrank <= at
      BY <3>1, <1>a DEF CameAt
    <3>3. at - memory.lastLook[j] >= Gate[j] /\ memory.lastLook[j] \in Nat
      BY <2>2, <3>1 DEF GateOpen
    <3>4. memory.lastLook[j] + Gate[j] <= at
      BY <3>1, <3>2, <3>3
    <3>5. /\ m \in Memories /\ m.lastCrank = memory.lastCrank /\ m.attempt = memory.attempt
          /\ m.lastLook = [memory.lastLook EXCEPT ![j] = at]
      BY <3>2, <1>a DEF Memories
    <3> QED
      BY <3>2, <3>4, <3>5
  <2>5. /\ todo' \in [running : BOOLEAN, next : Nat \ {0}]
        /\ Ahead(j) /\ ~Ahead(j)' /\ \A k \in Jobs : Ahead(k)' => Ahead(k)
    BY <2>3, GoesOn
  <2>6. CASE j \notin ripe
    <3>1. memory' = m /\ UNCHANGED skipped
      BY <2>2, <2>6
    <3> QED
      BY <2>2, <2>3, <2>5, <3>1, OnlyLooked
  <2>7. CASE j \in ripe /\ Due(m, j)
    <3>1. memory' = [m EXCEPT !.attempt[j] = clock] /\ skipped' = [skipped EXCEPT ![j] = 0]
      BY <2>2, <2>7 DEF Stamped
    <3>2. /\ memory' \in Memories /\ memory'.lastCrank = memory.lastCrank /\ memory'.lastLook = m.lastLook
          /\ memory'.attempt = [memory.attempt EXCEPT ![j] = clock]
      BY <2>4, <3>1, <1>a DEF Memories
    <3>3. skipped' \in [Jobs -> Nat] /\ skipped'[j] = 0 /\ \A k \in Jobs : k # j => skipped'[k] = skipped[k]
      BY <3>1, <1>a
    <3>4. \A k \in Jobs : k # j => memory'.lastLook[k] = memory.lastLook[k] /\ memory'.attempt[k] = memory.attempt[k]
      BY <2>4, <3>2 DEF Memories
    <3>5. memory'.lastLook[j] = at /\ memory'.attempt[j] = clock
      BY <2>4, <3>2, <1>a DEF Memories
    <3>6. CrankTypes' /\ Past(memory)' /\ Past(saved)'
      BY <2>3, <2>4, <2>5, <3>2, <3>3, <3>4, <3>5 DEF CrankInv, CrankTypes, Past
    <3>7. TriedBefore'
      BY <2>5, <3>2, <3>4 DEF CrankInv, TriedBefore
    <3>8. \A k \in Jobs : skipped'[k] > 0 => Waiting(k)'
      BY <2>5, <3>2, <3>3, <3>4 DEF CrankInv, Waiting
    <3>9. RetriedSoon'
      BY <3>3 DEF CrankInv, RetriedSoon
    <3> QED
      BY <3>6, <3>7, <3>8, <3>9 DEF CrankInv
  <2>8. CASE j \in ripe /\ ~Due(m, j)
    <3>1. memory' = m /\ skipped' = [skipped EXCEPT ![j] = @ + 1] /\ clock - memory.attempt[j] < Throttle[j]
      <4>1. /\ memory' = m /\ skipped' = [skipped EXCEPT ![j] = @ + 1] /\ ~Due(m, j)
        BY <2>2, <2>8 DEF NotDue
      <4>2. ~(clock - memory.attempt[j] >= Throttle[j])
        BY <2>4, <4>1 DEF Due
      <4>3. memory.attempt[j] \in Nat /\ Throttle[j] \in Nat
        BY <1>a, Periods DEF Memories
      <4> QED
        BY <1>a, <4>1, <4>2, <4>3
    <3>2. skipped' \in [Jobs -> Nat] /\ skipped'[j] = skipped[j] + 1 /\ \A k \in Jobs : k # j => skipped'[k] = skipped[k]
      BY <3>1, <1>a
    <3>3. \A k \in Jobs : k # j => memory'.lastLook[k] = memory.lastLook[k]
      BY <2>4, <3>1 DEF Memories
    <3>4. memory'.lastLook[j] = at /\ memory'.attempt = memory.attempt /\ memory'.lastCrank = memory.lastCrank
      BY <2>4, <3>1, <1>a DEF Memories
    <3>5. CrankTypes' /\ Past(memory)' /\ Past(saved)' /\ TriedBefore'
      BY <2>3, <2>4, <2>5, <3>1, <3>2, <3>3, <3>4 DEF CrankInv, CrankTypes, Past, TriedBefore
    <3>6. memory.attempt[j] <= memory.lastCrank /\ memory.attempt[j] \in Nat /\ memory.lastCrank \in Nat
      BY <2>5, <1>a DEF CrankInv, TriedBefore, Memories
    <3>7. \A k \in Jobs : skipped'[k] > 0 => Waiting(k)'
      <4>1. Waiting(j)'
        BY <2>4, <2>5, <3>4, <3>6 DEF Waiting
      <4>2. \A k \in Jobs : k # j /\ skipped'[k] > 0 => Waiting(k)'
        BY <2>5, <3>2, <3>3, <3>4 DEF CrankInv, Waiting
      <4> QED
        BY <4>1, <4>2
    <3>8. RetriedSoon'
      <4>1. Hurried(j) => skipped[j] = 0
        <5> SUFFICES ASSUME Hurried(j), skipped[j] # 0 PROVE FALSE
          OBVIOUS
        <5>1. skipped[j] > 0
          BY <1>a
        <5>2. Waiting(j)
          BY <5>1 DEF CrankInv
        <5>3. memory.attempt[j] + CrankEvery <= memory.lastCrank
          BY <2>5, <5>2 DEF Waiting
        <5>4. memory.attempt[j] <= memory.lastLook[j] /\ memory.lastLook[j] \in Nat
          BY <5>2, <1>a DEF Waiting, Memories
        <5>5. /\ clock \in Nat /\ at \in Nat /\ Throttle[j] \in Nat /\ Gate[j] \in Nat /\ CrankEvery \in Nat
              /\ at <= clock /\ memory.lastCrank <= at /\ memory.lastLook[j] + Gate[j] <= at
              /\ clock - memory.attempt[j] < Throttle[j]
          BY <2>4, <3>1, <1>a, Periods
        <5>6. Throttle[j] > CrankEvery
          BY <3>6, <5>3, <5>5
        <5>7. Throttle[j] > Gate[j]
          BY <3>6, <5>4, <5>5
        <5> QED
          BY <5>5, <5>6, <5>7 DEF Hurried
      <4> QED
        BY <3>2, <4>1, <1>a DEF CrankInv, RetriedSoon, Hurried
    <3> QED
      BY <3>5, <3>7, <3>8 DEF CrankInv
  <2> QED
    BY <2>6, <2>7, <2>8
<1>8. CASE EndPass
  <2>1. /\ todo' = NoPass /\ saved' \in {memory, saved} /\ UNCHANGED <<clock, memory, skipped>>
    BY <1>8 DEF EndPass
  <2>2. todo' \in [running : BOOLEAN, next : Nat \ {0}] /\ \A k \in Jobs : ~Ahead(k)'
    BY <2>1 DEF NoPass, Ahead
  <2>3. CrankTypes' /\ Past(memory)' /\ Past(saved)' /\ TriedBefore'
    BY <2>1, <2>2 DEF CrankInv, CrankTypes, Past, TriedBefore
  <2> QED
    BY <2>1, <2>2, <2>3 DEF CrankInv, Waiting, RetriedSoon
<1>9. CASE CrankDies
  <2>1. /\ memory' = saved /\ todo' = NoPass /\ skipped' = [j \in Jobs |-> 0] /\ UNCHANGED <<clock, saved>>
    BY <1>9 DEF CrankDies
  <2>2. todo' \in [running : BOOLEAN, next : Nat \ {0}] /\ \A k \in Jobs : ~Ahead(k)'
    BY <2>1 DEF NoPass, Ahead
  <2>3. CrankTypes' /\ Past(memory)' /\ Past(saved)' /\ TriedBefore'
    BY <2>1, <2>2 DEF CrankInv, CrankTypes, Past, TriedBefore
  <2> QED
    BY <2>1, <2>3 DEF CrankInv, RetriedSoon
<1> QED
  BY <1>1, <1>2, <1>3, <1>4, <1>5, <1>6, <1>7, <1>8, <1>9 DEF CrankNext

LEMMA CrankStutter ==
  ASSUME CrankInv, UNCHANGED crankVars PROVE CrankInv'
BY DEF crankVars, CrankInv, CrankTypes, Past, TriedBefore, Waiting, Ahead, RetriedSoon

\* However slow calls are and whatever fails, a job there is something to do for is passed over
\* at most once running (bot/bot.go:62-80, bot/cranker.go:15-204, bot/state.go:87-96).
THEOREM EveryJobRetriedSoon == CrankSpec => []RetriedSoon
<1>1. CrankInit => CrankInv
  BY CrankInitOK
<1>2. CrankInv /\ [CrankNext]_crankVars => CrankInv'
  BY CrankStep, CrankStutter
<1>3. CrankInv => RetriedSoon
  BY DEF CrankInv
<1> QED
  BY <1>1, <1>2, <1>3, PTL DEF CrankSpec

-----------------------------------------------------------------------------
\* The voter: a salt is kept for as long as its commitment is on chain.

MaybeRecord == VoteRecords \cup {NoRecord}
Sendings == [voter : Voters, rec : VoteRecords]
Commands == [pc : {"sent", "landed", "failed"}, voter : Voters, rec : VoteRecords, fresh : BOOLEAN]

VoterTypes ==
  /\ ballot \in [round : BallotRounds, phase : {"commit", "reveal"}]
  /\ committed \in [BallotRounds -> [Voters -> MaybeRecord]]
  /\ files \in [BallotRounds -> MaybeRecord] /\ pendings \in [BallotRounds -> MaybeRecord]
  /\ cmd \in Commands \cup {NoCommand}
  /\ inFlight \in Sendings \cup {NoRecord}
  /\ salts \in 0 .. MaxSalts
  /\ doubt \subseteq BallotRounds \X Voters

\* What a command has sent is where it will look for it.
CommandKept ==
  cmd # NoCommand =>
    IF cmd.fresh THEN pendings[ballot.round] = cmd.rec /\ cmd.rec.voter = cmd.voter
    ELSE files[ballot.round] = cmd.rec

\* A commitment the chain took from the command in progress is the voter's last.
LandedLast ==
  cmd.pc = "landed" =>
    /\ committed[ballot.round][cmd.voter] = cmd.rec
    /\ inFlight # NoRecord => inFlight.voter # cmd.voter

\* Of whom something may still land, the file is in doubt.
FlyingDoubted == inFlight # NoRecord => <<ballot.round, inFlight.voter>> \in doubt

VoterInv == VoterTypes /\ CommandKept /\ LandedLast /\ FlyingDoubted /\ SaltKept

-----------------------------------------------------------------------------

\* Neither kind of nothing is something.
LEMMA NothingIsNothing ==
  /\ NoRecord \notin VoteRecords /\ NoRecord \notin Sendings
  /\ NoCommand \notin Commands /\ NoCommand.pc = "idle"
<1>1. NoCommand.pc = "idle"
  BY DEF NoCommand
<1>2. NoCommand \notin Commands
  BY <1>1 DEF Commands
<1>3. \A rec \in VoteRecords : rec.round # 0
  BY VoterAssumption DEF VoteRecords, BallotRounds
<1>4. NoRecord.round = 0
  BY DEF NoRecord
<1>5. NoRecord \notin VoteRecords
  BY <1>3, <1>4
<1>6. NoRecord \notin Sendings
  BY DEF NoRecord, Sendings
<1> QED
  BY <1>1, <1>2, <1>5, <1>6

\* Nothing a voter committed loses its record when commitments, files and the command in progress
\* stay as they are and no doubt is dispelled.
LEMMA KeptAsIs ==
  ASSUME VoterInv, UNCHANGED <<committed, files>>, doubt \subseteq doubt',
         cmd.pc = "landed" => \/ UNCHANGED <<cmd, pendings, ballot>>
                              \/ <<ballot.round, cmd.voter>> \in doubt'
  PROVE  SaltKept'
<1> SUFFICES ASSUME NEW r \in BallotRounds, NEW v \in Voters,
                    committed[r][v] # NoRecord, <<r, v>> \notin doubt'
             PROVE  BeingFiled(r, v)' \/ (files[r] = committed[r][v] /\ Revealable(r, v))
  BY DEF SaltKept, Revealable
<1>1. BeingFiled(r, v) \/ (files[r] = committed[r][v] /\ Revealable(r, v))
  BY DEF VoterInv, SaltKept
<1>2. CASE BeingFiled(r, v)
  BY <1>2 DEF BeingFiled
<1> QED
  BY <1>1, <1>2

LEMMA VoterInitOK ==
  ASSUME VoterInit PROVE VoterInv
<1>1. VoterTypes
  BY VoterAssumption DEF VoterInit, VoterTypes, BallotRounds, MaybeRecord
<1>2. cmd.pc # "landed"
  BY DEF VoterInit, NoCommand
<1> QED
  BY <1>1, <1>2 DEF VoterInit, VoterInv, CommandKept, LandedLast, FlyingDoubted, SaltKept

\* Each step of the chain and of a command keeps it.
LEMMA VoterStep ==
  ASSUME VoterInv, VoterNext PROVE VoterInv'
<1> USE NothingIsNothing DEF VoterInv
<1>1. CASE RevealBegins
  <2>1. /\ ballot' \in [round : BallotRounds, phase : {"commit", "reveal"}] /\ ballot'.round = ballot.round
        /\ UNCHANGED <<committed, files, pendings, cmd, inFlight, salts, doubt>>
    BY <1>1 DEF RevealBegins, VoterTypes
  <2>2. VoterTypes' /\ CommandKept' /\ LandedLast' /\ FlyingDoubted'
    BY <2>1 DEF VoterTypes, CommandKept, LandedLast, FlyingDoubted
  <2>3. SaltKept'
    BY <2>1 DEF SaltKept, BeingFiled, Revealable
  <2> QED
    BY <2>2, <2>3
<1>2. CASE NextBallot
  <2>1. /\ cmd = NoCommand /\ inFlight = NoRecord
        /\ UNCHANGED <<committed, files, pendings, cmd, inFlight, salts, doubt>>
    BY <1>2 DEF NextBallot
  <2>2. ballot' \in [round : BallotRounds, phase : {"commit", "reveal"}]
    BY <1>2, VoterAssumption DEF NextBallot, VoterTypes, BallotRounds
  <2>3. VoterTypes' /\ CommandKept' /\ LandedLast' /\ FlyingDoubted'
    BY <2>1, <2>2 DEF VoterTypes, CommandKept, LandedLast, FlyingDoubted
  <2>4. SaltKept'
    BY <2>1, KeptAsIs
  <2> QED
    BY <2>3, <2>4
<1>3. CASE \E v \in Voters : Reveal(v)
  <2>1. UNCHANGED <<ballot, committed, files, pendings, cmd, inFlight, salts, doubt>>
    BY <1>3 DEF Reveal
  <2>2. VoterTypes' /\ CommandKept' /\ LandedLast' /\ FlyingDoubted'
    BY <2>1 DEF VoterTypes, CommandKept, LandedLast, FlyingDoubted
  <2> QED
    BY <2>1, <2>2, KeptAsIs
<1>4. CASE \E v \in Voters, choice \in VoteChoices : BeginCommit(v, choice)
  <2>1. PICK v \in Voters, choice \in VoteChoices : BeginCommit(v, choice)
    BY <1>4
  <2> DEFINE r == ballot.round
  <2>2. r \in BallotRounds /\ files[r] \in MaybeRecord /\ cmd.pc # "landed"
    BY <2>1 DEF BeginCommit, VoterTypes
  <2>3. CASE files[r] # NoRecord /\ files[r].choice = choice
    <3>1. /\ cmd' = [pc |-> "sent", voter |-> v, rec |-> files[r], fresh |-> FALSE]
          /\ UNCHANGED <<ballot, committed, files, pendings, inFlight, salts, doubt>>
      BY <2>1, <2>3 DEF BeginCommit
    <3>2. cmd' \in Commands
      BY <2>2, <2>3, <3>1 DEF Commands, MaybeRecord
    <3>3. VoterTypes' /\ CommandKept' /\ LandedLast' /\ FlyingDoubted'
      BY <3>1, <3>2 DEF VoterTypes, CommandKept, LandedLast, FlyingDoubted
    <3>4. SaltKept'
      BY <2>2, <3>1, KeptAsIs
    <3> QED
      BY <3>3, <3>4
  <2>4. CASE ~(files[r] # NoRecord /\ files[r].choice = choice)
    <3> DEFINE fresh == [round |-> r, voter |-> v, choice |-> choice, salt |-> salts + 1]
    <3>1. /\ cmd' = [pc |-> "sent", voter |-> v, rec |-> fresh, fresh |-> TRUE]
          /\ salts < MaxSalts /\ salts' = salts + 1
          /\ pendings' = [pendings EXCEPT ![fresh.round] = fresh]
          /\ UNCHANGED <<ballot, committed, files, inFlight, doubt>>
      BY <2>1, <2>4 DEF BeginCommit, Written
    <3>2. fresh \in VoteRecords
      BY <2>2, <3>1, VoterAssumption DEF VoteRecords, VoterTypes
    <3>3. pendings' = [pendings EXCEPT ![r] = fresh]
      BY <3>1
    <3>4. pendings'[r] = fresh /\ pendings' \in [BallotRounds -> MaybeRecord]
      BY <2>2, <3>2, <3>3 DEF VoterTypes, MaybeRecord
    <3>5. cmd' \in Commands /\ cmd'.fresh /\ cmd'.rec = fresh /\ cmd'.voter = fresh.voter /\ cmd'.pc = "sent"
      BY <3>1, <3>2 DEF Commands
    <3>6. salts' \in 0 .. MaxSalts
      BY <3>1, VoterAssumption DEF VoterTypes
    <3> HIDE DEF fresh
    <3>7. VoterTypes' /\ CommandKept' /\ LandedLast' /\ FlyingDoubted'
      BY <3>1, <3>4, <3>5, <3>6 DEF VoterTypes, CommandKept, LandedLast, FlyingDoubted
    <3>8. SaltKept'
      BY <2>2, <3>1, KeptAsIs
    <3> QED
      BY <3>7, <3>8
  <2> QED
    BY <2>3, <2>4
<1>5. CASE Lands
  <2> DEFINE r == ballot.round
             v == cmd.voter
  <2>1. /\ cmd \in Commands /\ cmd.pc = "sent" /\ cmd' = [cmd EXCEPT !.pc = "landed"]
        /\ committed' = [committed EXCEPT ![r][v] = cmd.rec]
        /\ inFlight' = IF inFlight # NoRecord /\ inFlight.voter = v THEN NoRecord ELSE inFlight
        /\ UNCHANGED <<ballot, files, pendings, salts, doubt>>
    BY <1>5 DEF Lands, Put, VoterTypes
  <2>2. r \in BallotRounds /\ v \in Voters /\ cmd.rec \in VoteRecords
    BY <2>1 DEF VoterTypes, Commands
  <2>3. /\ cmd' \in Commands /\ cmd'.pc = "landed" /\ cmd'.voter = v /\ cmd'.rec = cmd.rec /\ cmd'.fresh = cmd.fresh
    BY <2>1 DEF Commands
  <2>4. /\ committed' \in [BallotRounds -> [Voters -> MaybeRecord]]
        /\ committed'[r][v] = cmd.rec
        /\ \A s \in BallotRounds, w \in Voters : <<s, w>> # <<r, v>> => committed'[s][w] = committed[s][w]
    BY <2>1, <2>2 DEF VoterTypes, MaybeRecord
  <2>5. inFlight' \in Sendings \cup {NoRecord} /\ (inFlight' # NoRecord => inFlight' = inFlight /\ inFlight.voter # v)
    BY <2>1 DEF VoterTypes
  <2>6. VoterTypes' /\ CommandKept' /\ LandedLast' /\ FlyingDoubted'
    BY <2>1, <2>3, <2>4, <2>5 DEF VoterTypes, CommandKept, LandedLast, FlyingDoubted
  <2>7. SaltKept'
    <3> SUFFICES ASSUME NEW s \in BallotRounds, NEW w \in Voters,
                        committed'[s][w] # NoRecord, <<s, w>> \notin doubt
                 PROVE  BeingFiled(s, w)' \/ (files[s] = committed'[s][w] /\ Revealable(s, w))
      BY <2>1 DEF SaltKept, Revealable
    <3>1. CASE <<s, w>> = <<r, v>>
      BY <2>1, <2>3, <2>4, <3>1 DEF BeingFiled, CommandKept
    <3>2. CASE <<s, w>> # <<r, v>>
      BY <2>1, <2>4, <3>2 DEF SaltKept, BeingFiled
    <3> QED
      BY <3>1, <3>2
  <2> QED
    BY <2>6, <2>7
<1>6. CASE Fails
  <2>1. /\ cmd \in Commands /\ cmd.pc = "sent" /\ cmd' = [cmd EXCEPT !.pc = "failed"]
        /\ UNCHANGED <<ballot, committed, files, pendings, inFlight, salts, doubt>>
    BY <1>6 DEF Fails, VoterTypes
  <2>2. cmd' \in Commands /\ cmd'.pc = "failed" /\ cmd'.voter = cmd.voter /\ cmd'.rec = cmd.rec /\ cmd'.fresh = cmd.fresh
    BY <2>1 DEF Commands
  <2>3. VoterTypes' /\ CommandKept' /\ LandedLast' /\ FlyingDoubted'
    BY <2>1, <2>2 DEF VoterTypes, CommandKept, LandedLast, FlyingDoubted
  <2> QED
    BY <2>1, <2>3, KeptAsIs
<1>7. CASE AnswerLost
  <2> DEFINE tx == [voter |-> cmd.voter, rec |-> cmd.rec]
  <2>1. /\ cmd \in Commands /\ cmd' = [cmd EXCEPT !.pc = "failed"]
        /\ inFlight' \in {tx, inFlight}
        /\ doubt' = doubt \cup {<<ballot.round, cmd.voter>>}
        /\ UNCHANGED <<ballot, committed, files, pendings, salts>>
    BY <1>7 DEF AnswerLost, VoterTypes
  <2>2. cmd' \in Commands /\ cmd'.pc = "failed" /\ cmd'.voter = cmd.voter /\ cmd'.rec = cmd.rec /\ cmd'.fresh = cmd.fresh
    BY <2>1 DEF Commands
  <2>3. tx \in Sendings /\ <<ballot.round, cmd.voter>> \in BallotRounds \X Voters
    BY <2>1 DEF Sendings, Commands, VoterTypes
  <2>4. VoterTypes' /\ CommandKept' /\ LandedLast' /\ FlyingDoubted'
    BY <2>1, <2>2, <2>3 DEF VoterTypes, CommandKept, LandedLast, FlyingDoubted
  <2> QED
    BY <2>1, <2>4, KeptAsIs
<1>8. CASE LandsLate
  <2> DEFINE r == ballot.round
             v == inFlight.voter
  <2>1. /\ inFlight \in Sendings /\ inFlight # NoRecord /\ inFlight' = NoRecord
        /\ committed' \in {committed, [committed EXCEPT ![r][v] = inFlight.rec]}
        /\ UNCHANGED <<ballot, files, pendings, cmd, salts, doubt>>
    BY <1>8 DEF LandsLate, Put, VoterTypes
  <2>2. r \in BallotRounds /\ v \in Voters /\ inFlight.rec \in VoteRecords /\ <<r, v>> \in doubt
    BY <2>1 DEF VoterTypes, Sendings, FlyingDoubted
  <2>3. /\ committed' \in [BallotRounds -> [Voters -> MaybeRecord]]
        /\ \A s \in BallotRounds, w \in Voters : <<s, w>> # <<r, v>> => committed'[s][w] = committed[s][w]
    <3>1. CASE committed' = committed
      BY <3>1 DEF VoterTypes
    <3>2. CASE committed' = [committed EXCEPT ![r][v] = inFlight.rec]
      BY <2>2, <3>2 DEF VoterTypes, MaybeRecord
    <3> QED
      BY <2>1, <3>1, <3>2
  <2>4. VoterTypes' /\ CommandKept' /\ FlyingDoubted'
    BY <2>1, <2>3 DEF VoterTypes, CommandKept, FlyingDoubted
  <2>5. LandedLast'
    <3> SUFFICES ASSUME cmd.pc = "landed" PROVE committed'[r][cmd.voter] = cmd.rec
      BY <2>1 DEF LandedLast
    <3>1. cmd.voter \in Voters /\ cmd.voter # v /\ committed[r][cmd.voter] = cmd.rec
      BY <2>1 DEF LandedLast, VoterTypes, Commands
    <3> QED
      BY <2>2, <2>3, <3>1
  <2>6. SaltKept'
    <3> SUFFICES ASSUME NEW s \in BallotRounds, NEW w \in Voters,
                        committed'[s][w] # NoRecord, <<s, w>> \notin doubt
                 PROVE  BeingFiled(s, w)' \/ (files[s] = committed'[s][w] /\ Revealable(s, w))
      BY <2>1 DEF SaltKept, Revealable
    <3>1. committed'[s][w] = committed[s][w]
      BY <2>2, <2>3
    <3> QED
      BY <2>1, <3>1 DEF SaltKept, BeingFiled
  <2> QED
    BY <2>4, <2>5, <2>6
<1>9. CASE Accepted
  <2> DEFINE r == ballot.round
             v == cmd.voter
  <2>1. /\ cmd \in Commands /\ cmd.pc = "landed" /\ cmd' = NoCommand
        /\ UNCHANGED <<ballot, committed, inFlight, salts>>
    BY <1>9 DEF Accepted, VoterTypes
  <2>2. r \in BallotRounds /\ v \in Voters /\ cmd.rec \in VoteRecords /\ committed[r][v] = cmd.rec
    BY <2>1 DEF VoterTypes, Commands, LandedLast
  <2>3. \A s \in BallotRounds, w \in Voters :
          <<s, w>> # <<r, v>> /\ committed[s][w] # NoRecord /\ <<s, w>> \notin doubt
            => files[s] = committed[s][w] /\ Revealable(s, w)
    BY DEF SaltKept, BeingFiled
  <2>4. CASE cmd.fresh
    <3>1. /\ files' = [files EXCEPT ![r] = cmd.rec] /\ pendings' = [pendings EXCEPT ![r] = NoRecord]
          /\ doubt' = (doubt \ {<<r, v>>}) \cup ({r} \X (Voters \ {v}))
          /\ cmd.rec.voter = v
      BY <1>9, <2>1, <2>4 DEF Accepted, CommandKept
    <3>2. /\ files' \in [BallotRounds -> MaybeRecord] /\ pendings' \in [BallotRounds -> MaybeRecord]
          /\ files'[r] = cmd.rec /\ \A s \in BallotRounds : s # r => files'[s] = files[s]
      BY <2>2, <3>1 DEF VoterTypes, MaybeRecord
    <3>3. VoterTypes' /\ CommandKept' /\ LandedLast'
      BY <2>1, <2>2, <3>1, <3>2 DEF VoterTypes, CommandKept, LandedLast
    <3>4. FlyingDoubted'
      BY <2>1, <3>1 DEF FlyingDoubted, LandedLast
    <3>5. SaltKept'
      <4> SUFFICES ASSUME NEW s \in BallotRounds, NEW w \in Voters,
                          committed[s][w] # NoRecord, <<s, w>> \notin doubt'
                   PROVE  files'[s] = committed[s][w] /\ files'[s] # NoRecord /\ files'[s].voter = w
        BY <2>1 DEF SaltKept, Revealable
      <4>1. CASE s = r
        <5>1. w = v
          BY <3>1, <4>1
        <5> QED
          BY <2>2, <3>1, <3>2, <4>1, <5>1
      <4>2. CASE s # r
        <5>1. <<s, w>> \notin doubt
          BY <3>1, <4>2
        <5> QED
          BY <2>3, <3>2, <4>2, <5>1 DEF Revealable
      <4> QED
        BY <4>1, <4>2
    <3> QED
      BY <3>3, <3>4, <3>5
  <2>5. CASE ~cmd.fresh
    <3>1. /\ UNCHANGED <<files, pendings>> /\ files[r] = cmd.rec
          /\ doubt' = IF cmd.rec.voter = v THEN doubt \ {<<r, v>>} ELSE doubt \cup {<<r, v>>}
      BY <1>9, <2>1, <2>5 DEF Accepted, CommandKept
    <3>2. VoterTypes' /\ CommandKept' /\ LandedLast'
      BY <2>1, <2>2, <3>1 DEF VoterTypes, CommandKept, LandedLast
    <3>3. FlyingDoubted'
      BY <2>1, <3>1 DEF FlyingDoubted, LandedLast
    <3>4. SaltKept'
      <4> SUFFICES ASSUME NEW s \in BallotRounds, NEW w \in Voters,
                          committed[s][w] # NoRecord, <<s, w>> \notin doubt'
                   PROVE  files[s] = committed[s][w] /\ Revealable(s, w)
        BY <2>1, <3>1 DEF SaltKept, Revealable
      <4>1. CASE <<s, w>> = <<r, v>>
        BY <2>2, <3>1, <4>1 DEF Revealable
      <4>2. CASE <<s, w>> # <<r, v>>
        BY <2>3, <3>1, <4>2
      <4> QED
        BY <4>1, <4>2
    <3> QED
      BY <3>2, <3>3, <3>4
  <2> QED
    BY <2>4, <2>5
<1>10. CASE Rejected
  <2>1. /\ cmd.pc = "failed" /\ cmd' = NoCommand
        /\ pendings' \in {[pendings EXCEPT ![ballot.round] = NoRecord], pendings}
        /\ UNCHANGED <<ballot, committed, files, inFlight, salts, doubt>>
    BY <1>10 DEF Rejected
  <2>2. pendings' \in [BallotRounds -> MaybeRecord]
    BY <2>1 DEF VoterTypes, MaybeRecord
  <2>3. VoterTypes' /\ CommandKept' /\ LandedLast' /\ FlyingDoubted'
    BY <2>1, <2>2 DEF VoterTypes, CommandKept, LandedLast, FlyingDoubted
  <2> QED
    BY <2>1, <2>3, KeptAsIs
<1>11. CASE Killed
  <2> DEFINE tx == [voter |-> cmd.voter, rec |-> cmd.rec]
  <2>1. /\ cmd \in Commands /\ cmd' = NoCommand
        /\ inFlight' = IF cmd.pc = "sent" THEN tx ELSE inFlight
        /\ doubt' = IF cmd.pc = "failed" THEN doubt ELSE doubt \cup {<<ballot.round, cmd.voter>>}
        /\ UNCHANGED <<ballot, committed, files, pendings, salts>>
    BY <1>11 DEF Killed, VoterTypes
  <2>2. tx \in Sendings /\ <<ballot.round, cmd.voter>> \in BallotRounds \X Voters
    BY <2>1 DEF Sendings, Commands, VoterTypes
  <2>3. VoterTypes' /\ CommandKept' /\ LandedLast' /\ FlyingDoubted'
    BY <2>1, <2>2 DEF VoterTypes, CommandKept, LandedLast, FlyingDoubted
  <2> QED
    BY <2>1, <2>3, KeptAsIs
<1> QED
  BY <1>1, <1>2, <1>3, <1>4, <1>5, <1>6, <1>7, <1>8, <1>9, <1>10, <1>11 DEF VoterNext

LEMMA VoterStutter ==
  ASSUME VoterInv, UNCHANGED voterVars PROVE VoterInv'
BY DEF voterVars, VoterInv, VoterTypes, CommandKept, LandedLast, FlyingDoubted, SaltKept, BeingFiled, Revealable

\* Whatever commands fail, are killed or are not answered, and whoever shares the home, the file
\* holds the salt of every commitment on chain that is not in doubt (main.go:653-759).
THEOREM SaltIsKept == VoterSpec => []SaltKept
<1>1. VoterInit => VoterInv
  BY VoterInitOK
<1>2. VoterInv /\ [VoterNext]_voterVars => VoterInv'
  BY VoterStep, VoterStutter
<1>3. VoterInv => SaltKept
  BY DEF VoterInv
<1> QED
  BY <1>1, <1>2, <1>3, PTL DEF VoterSpec

-----------------------------------------------------------------------------
\* The mirror of a dispute on the court.

Sides == {"yes", "no"}
Times == Nat \cup {Never}
States == {"none", "filed", "staked", "answered", "contested", "settled", "confirmed", "dissent", "abandoned"}
Routes == {"", "undisputed", "vote", "dead", "reason"}

Records ==
  [state : States, binding : Nat, openedAt : Nat, stakedAt : Nat, answeredAt : Nat,
   verdict : Sides \cup {NoSide}, route : Routes, forced : BOOLEAN]

Claims ==
  [openedAt : Nat, firstStake : Times, lastStake : Times, short : BOOLEAN,
   stake : Nat, deposit : BOOLEAN, bond : BOOLEAN,
   answer : Sides \cup {NoSide}, answeredAt : Nat, voteEnds : Times, verdict : Sides \cup {NoSide}, reopenAt : Nat,
   settled : BOOLEAN, route : Routes, closed : BOOLEAN, undecided : BOOLEAN]

\* What the court makes of a claim: everything after an answer has one, a dead claim has none and
\* gave its deposit back, and a settled one says how.
ClaimOK(c) ==
  /\ c \in Claims
  /\ (Voting(c) \/ Provisional(c) \/ c.settled \/ c.bond) => Answered(c)
  /\ c.closed => ~Answered(c) /\ ~c.deposit
  /\ c.undecided => c.settled
  /\ c.settled => /\ c.route \in {"undisputed", "vote"}
                  /\ c.undecided \/ c.verdict \in Sides

\* A claim nobody can change any more.
Frozen(c) == c.settled \/ c.closed

MirrorInv ==
  /\ mirror \in Records /\ hour \in Nat /\ release \in Nat
  /\ IF mirror.state = "none" THEN claim = << >> ELSE ClaimOK(claim)
  /\ (Closed /\ ~mirror.forced) => Frozen(claim)
  /\ ClosedRecordTells

-----------------------------------------------------------------------------
(* What the court does to a claim. *)

LEMMA Waits == Escrow \in Nat /\ VotePeriod \in Nat /\ StakeSize \in Nat /\ Bond \in Nat \ {0}
BY CourtAssumption DEF CourtAssumption

LEMMA StakesOK ==
  ASSUME NEW c, ClaimOK(c), hour \in Nat
  PROVE  ClaimOK(StakedOn(c)) /\ StakedOn(c).closed = c.closed
BY DEF ClaimOK, Claims, Times, StakedOn, Voting, Provisional, Answered

LEMMA AnswersOK ==
  ASSUME NEW c, ClaimOK(c), ~c.closed, NEW side \in Sides, hour \in Nat
  PROVE  ClaimOK(AnsweredWith(c, side)) /\ ~AnsweredWith(c, side).closed /\ Answered(AnsweredWith(c, side))
BY DEF ClaimOK, Claims, Times, AnsweredWith, Voting, Provisional, Answered, Sides, NoSide

LEMMA ClosesOK ==
  ASSUME NEW c, ClaimOK(c), ~Answered(c)
  PROVE  ClaimOK(ClosedDead(c)) /\ ClosedDead(c).closed
BY DEF ClaimOK, Claims, ClosedDead, Voting, Provisional, Answered

LEMMA SettlesOK ==
  ASSUME NEW c, ClaimOK(c), Undisputed(c)
  PROVE  ClaimOK(SettledUndisputed(c)) /\ SettledUndisputed(c).settled
BY DEF ClaimOK, Claims, SettledUndisputed, Undisputed, Routes, Voting, Provisional, Answered, Sides, NoSide

LEMMA ResolvesOK ==
  ASSUME NEW c, ClaimOK(c), Voting(c), ~c.settled, NEW d \in Resolved(c), hour \in Nat
  PROVE  ClaimOK(d)
<1>1. CASE \E side \in Sides : d = [c EXCEPT !.voteEnds = Never, !.verdict = side, !.reopenAt = hour + Escrow]
  <2>1. PICK side \in Sides : d = [c EXCEPT !.voteEnds = Never, !.verdict = side, !.reopenAt = hour + Escrow]
    BY <1>1
  <2>2. hour + Escrow \in Nat /\ c \in Claims
    BY Waits DEF ClaimOK
  <2>3. /\ d \in Claims /\ d.verdict = side
        /\ d.answer = c.answer /\ d.settled = c.settled /\ d.closed = c.closed /\ d.deposit = c.deposit
        /\ d.undecided = c.undecided /\ d.bond = c.bond
    BY <2>1, <2>2 DEF Claims, Times
  <2> QED
    BY <2>3 DEF ClaimOK, Voting, Answered
<1>2. CASE d = [c EXCEPT !.voteEnds = Never, !.settled = TRUE, !.undecided = TRUE, !.route = "vote"]
  BY <1>2 DEF ClaimOK, Claims, Times, Routes, Voting, Provisional, Answered, Never
<1> QED
  BY <1>1, <1>2 DEF Resolved, Sides

LEMMA FinalizesOK ==
  ASSUME NEW c, ClaimOK(c), Provisional(c), ~c.settled
  PROVE  ClaimOK(Finalized(c)) /\ Finalized(c).settled
BY DEF ClaimOK, Claims, Finalized, Routes, Voting, Provisional, Answered, NoSide

-----------------------------------------------------------------------------
(* What closes a record. *)

\* finish: the verdict of a settled claim, and everything taken back.
LEMMA FinishOK ==
  ASSUME MirrorInv, NEW c, ClaimOK(c), c.settled, Finish(c), UNCHANGED <<hour, release>>
  PROVE  MirrorInv'
<1> DEFINE verdict == IF c.undecided THEN NoSide ELSE c.verdict
           ending == IF verdict = "no" THEN "dissent"
                     ELSE IF verdict = "yes" /\ c.route = "vote" THEN "confirmed" ELSE "settled"
<1>1. claim' = [c EXCEPT !.stake = 0, !.deposit = FALSE, !.bond = FALSE]
  BY DEF Finish
<1>2. mirror' = [mirror EXCEPT !.verdict = verdict, !.route = c.route, !.state = ending]
  BY DEF Finish
<1>3. ClaimOK(claim')
  BY <1>1 DEF ClaimOK, Claims, Voting, Provisional, Answered
<1>4. /\ claim'.settled /\ claim'.stake = 0 /\ ~claim'.deposit /\ ~claim'.bond
      /\ claim'.undecided = c.undecided /\ claim'.verdict = c.verdict /\ claim'.route = c.route
  BY <1>1 DEF ClaimOK, Claims
<1>5. verdict \in Sides \cup {NoSide} /\ c.route \in {"undisputed", "vote"} /\ (c.undecided \/ c.verdict \in Sides)
  BY DEF ClaimOK, Claims
<1>6. mirror' \in Records /\ mirror'.verdict = verdict /\ mirror'.state = ending
  <2> HIDE DEF verdict
  <2> QED
    BY <1>2, <1>5 DEF MirrorInv, Records, States, Routes
<1>7. Locked' = 0
  BY <1>4 DEF Locked
<1>8. ClosedRecordTells'
  BY <1>4, <1>5, <1>6, <1>7 DEF ClosedRecordTells, NoSide, Sides
<1> QED
  BY <1>3, <1>4, <1>6, <1>8 DEF MirrorInv, Frozen

\* abandon: a claim that died gave back its deposit, and now the stake.
LEMMA AbandonedOK ==
  ASSUME MirrorInv, NEW c, ClaimOK(c), c.closed, Abandoned(c), UNCHANGED <<hour, release>>
  PROVE  MirrorInv'
<1>1. claim' = [c EXCEPT !.stake = 0] /\ mirror' = [mirror EXCEPT !.state = "abandoned", !.route = "dead"]
  BY DEF Abandoned
<1>2. ClaimOK(claim') /\ claim'.closed /\ claim'.stake = 0
  BY <1>1 DEF ClaimOK, Claims, Voting, Provisional, Answered
<1>3. mirror' \in Records /\ mirror'.state = "abandoned"
  BY <1>1 DEF MirrorInv, Records, States, Routes
<1>4. Locked' = 0
  BY <1>2 DEF Locked, ClaimOK
<1> QED
  BY <1>2, <1>3, <1>4 DEF MirrorInv, ClosedRecordTells, Frozen

\* A record that stays open, or that the authority closed, may have any claim.
LEMMA NotClosedOK ==
  ASSUME mirror' \in Records, hour' \in Nat, release' \in Nat, mirror'.state # "none", ClaimOK(claim'),
         mirror'.state \notin {"settled", "confirmed", "dissent"}, Closed' => mirror'.forced
  PROVE  MirrorInv'
BY DEF MirrorInv, ClosedRecordTells, Closed

\* While the claim is not frozen, no record was closed but by the authority.
LEMMA ClaimOnlyOK ==
  ASSUME MirrorInv, claim # << >>, ~Frozen(claim), ClaimOK(claim'), UNCHANGED <<mirror, hour, release>>
  PROVE  MirrorInv'
<1>1. mirror.state # "none"
  BY DEF MirrorInv
<1>2. Closed => mirror.forced
  BY DEF MirrorInv
<1>3. mirror.state \notin {"settled", "confirmed", "dissent"}
  BY DEF MirrorInv, ClosedRecordTells, Frozen
<1> QED
  BY <1>1, <1>2, <1>3, NotClosedOK DEF MirrorInv, Closed

-----------------------------------------------------------------------------

LEMMA MirrorInitOK ==
  ASSUME MirrorInit PROVE MirrorInv
BY DEF MirrorInit, MirrorInv, NoMirror, Records, States, Routes, NoSide, Closed, Bot!MirrorTerminal, ClosedRecordTells

LEMMA CrankOK ==
  ASSUME MirrorInv, Crank PROVE MirrorInv'
<1> USE DEF InState
<1>1. CASE CrankFile
  <2>1. ClaimOK(claim')
    BY <1>1 DEF CrankFile, MirrorInv, NewClaim, ClaimOK, Claims, Times, Routes, Voting, Provisional, Answered, NoSide, Never
  <2>2. mirror' \in Records /\ mirror'.state = "filed" /\ UNCHANGED <<hour, release>>
    BY <1>1 DEF CrankFile, MirrorInv, NoMirror, Records, States, Routes, NoSide
  <2> QED
    BY <2>1, <2>2, NotClosedOK DEF MirrorInv, Closed, Bot!MirrorTerminal
<1>2. CASE CrankDead
  <2>1. ClaimOK(claim) /\ ~Answered(claim) /\ UNCHANGED <<hour, release>>
    BY <1>2 DEF CrankDead, MirrorInv
  <2>2. CASE claim.closed
    BY <1>2, <2>1, <2>2, AbandonedOK DEF CrankDead
  <2>3. CASE ~claim.closed
    BY <1>2, <2>1, <2>3, ClosesOK, AbandonedOK DEF CrankDead
  <2> QED
    BY <2>2, <2>3
<1>3. CASE CrankFollow
  <2>1. ClaimOK(claim) /\ UNCHANGED <<claim, hour, release>>
    BY <1>3 DEF CrankFollow, MirrorInv
  <2>2. mirror' \in Records /\ mirror'.state = "answered"
    BY <1>3, <2>1 DEF CrankFollow, MirrorInv, Records, States, ClaimOK, Claims
  <2> QED
    BY <2>1, <2>2, NotClosedOK DEF MirrorInv, Closed, Bot!MirrorTerminal
<1>4. CASE CrankStake
  <2>1. ClaimOK(claim) /\ UNCHANGED <<hour, release>> /\ claim' = [StakedOn(claim) EXCEPT !.stake = StakeSize]
    BY <1>4 DEF CrankStake, MirrorInv
  <2>2. ClaimOK(claim')
    BY <2>1, StakesOK, Waits DEF MirrorInv, ClaimOK, Claims, Voting, Provisional, Answered
  <2>3. mirror' \in Records /\ mirror'.state = "staked"
    BY <1>4 DEF CrankStake, MirrorInv, Records, States
  <2> QED
    BY <2>1, <2>2, <2>3, NotClosedOK DEF MirrorInv, Closed, Bot!MirrorTerminal
<1>5. CASE CrankAnswer
  <2> DEFINE tops == ~Answerable(claim)
             topped == IF tops THEN [StakedOn(claim) EXCEPT !.stake = @ + 1, !.short = FALSE] ELSE claim
             answered == AnsweredWith(topped, "yes")
  <2>1. ClaimOK(claim) /\ ~claim.closed /\ UNCHANGED <<hour, release>>
    BY <1>5 DEF CrankAnswer, MirrorInv
  <2>2. ClaimOK(topped) /\ ~topped.closed
    <3>1. ClaimOK(StakedOn(claim)) /\ ~StakedOn(claim).closed
      BY <2>1, StakesOK DEF MirrorInv
    <3>2. ASSUME NEW c, ClaimOK(c), ~c.closed
          PROVE  LET d == [c EXCEPT !.stake = @ + 1, !.short = FALSE] IN ClaimOK(d) /\ ~d.closed
      <4> DEFINE d == [c EXCEPT !.stake = @ + 1, !.short = FALSE]
      <4>1. c.stake + 1 \in Nat /\ c \in Claims
        BY <3>2 DEF ClaimOK, Claims
      <4>2. /\ d \in Claims
            /\ d.answer = c.answer /\ d.voteEnds = c.voteEnds /\ d.verdict = c.verdict /\ d.settled = c.settled
            /\ d.closed = c.closed /\ d.undecided = c.undecided /\ d.bond = c.bond /\ d.route = c.route
        BY <4>1 DEF Claims
      <4> QED
        BY <3>2, <4>2 DEF ClaimOK, Voting, Provisional, Answered
    <3> QED
      BY <2>1, <3>1, <3>2
  <2>3. ClaimOK(answered) /\ Answered(answered)
    BY <2>2, AnswersOK DEF MirrorInv, Sides
  <2>4. ClaimOK([answered EXCEPT !.bond = TRUE])
    <3> HIDE DEF answered
    <3> QED
      BY <2>3 DEF ClaimOK, Claims, Voting, Provisional, Answered
  <2>5. claim' = topped \/ claim' = [answered EXCEPT !.bond = TRUE]
    BY <1>5 DEF CrankAnswer
  <2>6. mirror' = mirror \/ mirror' = [mirror EXCEPT !.state = "answered", !.answeredAt = hour]
    BY <1>5 DEF CrankAnswer
  <2>7. mirror' \in Records /\ mirror'.state \in {"staked", "answered"}
    BY <1>5, <2>6 DEF CrankAnswer, MirrorInv, Records, States
  <2> QED
    BY <2>1, <2>2, <2>4, <2>5, <2>7, NotClosedOK DEF MirrorInv, Closed, Bot!MirrorTerminal
<1>6. CASE CrankContested
  <2>1. ClaimOK(claim) /\ UNCHANGED <<claim, hour, release>>
    BY <1>6 DEF CrankContested, MirrorInv
  <2>2. mirror' \in Records /\ mirror'.state = "contested"
    BY <1>6 DEF CrankContested, MirrorInv, Records, States
  <2> QED
    BY <2>1, <2>2, NotClosedOK DEF MirrorInv, Closed, Bot!MirrorTerminal
<1>7. CASE CrankSettle
  <2>1. ClaimOK(claim) /\ UNCHANGED <<hour, release>>
    BY <1>7 DEF CrankSettle, MirrorInv
  <2>2. CASE claim.settled /\ Finish(claim)
    BY <2>1, <2>2, FinishOK
  <2>3. CASE CanSettle(claim) /\ Finish(SettledUndisputed(claim))
    BY <2>1, <2>3, SettlesOK, FinishOK DEF CanSettle
  <2>4. CASE EscrowOver(claim) /\ Finish(Finalized(claim))
    BY <2>1, <2>4, FinalizesOK, FinishOK DEF EscrowOver
  <2> QED
    BY <1>7, <2>2, <2>3, <2>4 DEF CrankSettle
<1>8. CASE CrankVote
  <2>1. ClaimOK(claim) /\ Voting(claim) /\ ~claim.settled /\ UNCHANGED <<hour, release>>
    BY <1>8 DEF CrankVote, VoteOver, MirrorInv
  <2>2. PICK c \in Resolved(claim) : IF c.settled THEN Finish(c) ELSE claim' = c /\ UNCHANGED <<mirror, purse>>
    BY <1>8 DEF CrankVote
  <2>3. ClaimOK(c)
    BY <2>1, <2>2, ResolvesOK DEF MirrorInv
  <2>4. CASE c.settled
    BY <2>1, <2>2, <2>3, <2>4, FinishOK
  <2>5. CASE ~c.settled
    BY <1>8, <2>1, <2>2, <2>3, <2>5, NotClosedOK DEF CrankVote, MirrorInv, Closed, Bot!MirrorTerminal
  <2> QED
    BY <2>4, <2>5
<1> QED
  BY <1>1, <1>2, <1>3, <1>4, <1>5, <1>6, <1>7, <1>8 DEF Crank

LEMMA HoldersOK ==
  ASSUME MirrorInv, HoldersAct PROVE MirrorInv'
<1>1. /\ claim # << >> /\ ~Frozen(claim) /\ ClaimOK(claim) /\ ~claim.closed /\ ~claim.settled
      /\ UNCHANGED <<mirror, hour, release>> /\ hour \in Nat
  BY DEF HoldersAct, OfHolders, MirrorInv, Frozen
<1>2. CASE OfHolders(StakedOn(claim))
  BY <1>1, <1>2, StakesOK, ClaimOnlyOK DEF OfHolders
<1>3. CASE OfHolders([claim EXCEPT !.short = TRUE])
  <2>1. ClaimOK(claim')
    BY <1>1, <1>3 DEF OfHolders, ClaimOK, Claims, Voting, Provisional, Answered
  <2> QED
    BY <1>1, <2>1, ClaimOnlyOK
<1>4. CASE \E side \in Sides : OfHolders(AnsweredWith(claim, side))
  BY <1>1, <1>4, AnswersOK, ClaimOnlyOK DEF OfHolders
<1>5. CASE MayDispute(claim) /\ OfHolders([claim EXCEPT !.voteEnds = hour + VotePeriod, !.verdict = NoSide])
  <2>1. Answered(claim)
    BY <1>1, <1>5 DEF MayDispute, Undisputed, ClaimOK
  <2>2. ClaimOK(claim')
    <3>1. claim' = [claim EXCEPT !.voteEnds = hour + VotePeriod, !.verdict = NoSide] /\ hour + VotePeriod \in Nat
      BY <1>1, <1>5, Waits DEF OfHolders
    <3>2. /\ claim' \in Claims
          /\ claim'.answer = claim.answer /\ claim'.settled = claim.settled /\ claim'.closed = claim.closed
          /\ claim'.deposit = claim.deposit /\ claim'.undecided = claim.undecided /\ claim'.bond = claim.bond
      BY <1>1, <3>1 DEF ClaimOK, Claims, Times
    <3> QED
      BY <1>1, <2>1, <3>2 DEF ClaimOK, Answered
  <2> QED
    BY <1>1, <2>2, ClaimOnlyOK
<1>6. CASE VoteOver(claim) /\ \E c \in Resolved(claim) : OfHolders(c)
  BY <1>1, <1>6, ResolvesOK, ClaimOnlyOK DEF OfHolders, VoteOver
<1>7. CASE CanSettle(claim) /\ OfHolders(SettledUndisputed(claim))
  BY <1>1, <1>7, SettlesOK, ClaimOnlyOK DEF OfHolders, CanSettle
<1>8. CASE EscrowOver(claim) /\ OfHolders(Finalized(claim))
  BY <1>1, <1>8, FinalizesOK, ClaimOnlyOK DEF OfHolders, EscrowOver
<1> QED
  BY <1>2, <1>3, <1>4, <1>5, <1>6, <1>7, <1>8 DEF HoldersAct, Sides

\* What is left on the claim of a record closed by a crank is nothing, so withdraw finds nothing.
LEMMA WithdrawOK ==
  ASSUME MirrorInv, Withdraw PROVE MirrorInv'
<1>1. /\ mirror.state = "abandoned" /\ ClaimOK(claim) /\ UNCHANGED <<mirror, hour, release>>
  BY DEF Withdraw, InState, MirrorInv
<1>2. PICK stake \in {0, claim.stake}, deposit \in BOOLEAN, bond \in BOOLEAN :
        /\ (deposit => claim.deposit) /\ (bond => claim.bond)
        /\ claim' = [claim EXCEPT !.stake = stake, !.deposit = deposit, !.bond = bond]
  <2> DEFINE free == claim.settled \/ ~Answered(claim)
             draws == claim.settled /\ (claim.deposit \/ claim.bond) /\ ~claim.closed
             stake == IF free THEN 0 ELSE claim.stake
             deposit == claim.deposit /\ ~draws
             bond == claim.bond /\ ~draws
  <2>1. claim' = [claim EXCEPT !.stake = stake, !.deposit = deposit, !.bond = bond]
    BY DEF Withdraw
  <2>2. /\ deposit \in BOOLEAN /\ bond \in BOOLEAN /\ stake \in {0, claim.stake}
        /\ (deposit => claim.deposit) /\ (bond => claim.bond)
    OBVIOUS
  <2> QED
    BY <2>1, <2>2
<1>3. /\ ClaimOK(claim') /\ claim'.settled = claim.settled /\ claim'.closed = claim.closed
      /\ claim'.stake = stake /\ claim'.deposit = deposit /\ claim'.bond = bond
  <2>1. stake \in Nat
    BY <1>1, <1>2 DEF ClaimOK, Claims
  <2>2. /\ claim' \in Claims /\ claim'.stake = stake /\ claim'.deposit = deposit /\ claim'.bond = bond
        /\ claim'.answer = claim.answer /\ claim'.voteEnds = claim.voteEnds /\ claim'.verdict = claim.verdict
        /\ claim'.settled = claim.settled /\ claim'.closed = claim.closed
        /\ claim'.undecided = claim.undecided /\ claim'.route = claim.route
    BY <1>1, <1>2, <2>1 DEF ClaimOK, Claims
  <2> QED
    BY <1>1, <1>2, <2>2 DEF ClaimOK, Voting, Provisional, Answered
<1>4. CASE mirror.forced
  BY <1>1, <1>3, <1>4, NotClosedOK DEF MirrorInv
<1>5. CASE ~mirror.forced
  <2>1. Closed /\ Closed'
    BY <1>1 DEF Closed, Bot!MirrorTerminal
  <2>2. Locked = 0 /\ Frozen(claim)
    BY <1>5, <2>1 DEF MirrorInv, ClosedRecordTells
  <2>3. claim.stake = 0 /\ ~claim.deposit /\ ~claim.bond
    BY <1>1, <2>2, Waits DEF Locked, ClaimOK, Claims
  <2>4. claim'.stake = 0 /\ ~claim'.deposit /\ ~claim'.bond
    BY <1>2, <1>3, <2>3
  <2>5. Locked' = 0 /\ Frozen(claim)'
    BY <1>3, <2>2, <2>4 DEF Locked, Frozen
  <2> QED
    BY <1>1, <1>3, <2>5 DEF MirrorInv, ClosedRecordTells
<1> QED
  BY <1>4, <1>5

LEMMA MirrorStep ==
  ASSUME MirrorInv, MirrorNext PROVE MirrorInv'
<1>1. CASE Abandon
  <2>1. /\ mirror' \in Records /\ mirror'.state = "abandoned" /\ mirror'.forced
        /\ UNCHANGED <<claim, hour, release>> /\ ClaimOK(claim)
    BY <1>1 DEF Abandon, MirrorInv, Records, States, Routes, NoSide
  <2> QED
    BY <2>1, NotClosedOK DEF MirrorInv
<1>2. CASE NewRelease \/ RedeemFloat \/ PassHour \/ Fund \/ Found
  <2>1. UNCHANGED <<mirror, claim>> /\ hour' \in Nat /\ release' \in Nat
    BY <1>2 DEF NewRelease, RedeemFloat, PassHour, Fund, Found, MirrorInv
  <2> QED
    BY <2>1 DEF MirrorInv, ClosedRecordTells, ClaimOK, Closed, Frozen, Locked
<1>3. CASE CloseDeadClaim
  <2>1. /\ claim # << >> /\ ClaimOK(claim) /\ ~Answered(claim) /\ ~Frozen(claim)
        /\ claim' = ClosedDead(claim) /\ UNCHANGED <<mirror, hour, release>>
    BY <1>3 DEF CloseDeadClaim, MirrorInv, Dead, Frozen, ClaimOK
  <2> QED
    BY <2>1, ClosesOK, ClaimOnlyOK
<1> QED
  BY <1>1, <1>2, <1>3, CrankOK, HoldersOK, WithdrawOK DEF MirrorNext

LEMMA MirrorStutter ==
  ASSUME MirrorInv, UNCHANGED mirrorVars PROVE MirrorInv'
BY DEF MirrorInv, mirrorVars, ClosedRecordTells, ClaimOK, Closed, Frozen, Locked

\* Whatever the court's clocks, and whoever stakes, answers, disputes, votes, settles, closes,
\* abandons or withdraws first: a record a crank has closed says what the court decided, and has
\* nothing left there.
THEOREM ClosedRecordsSpeak == MirrorSpec => []ClosedRecordTells
<1>1. MirrorInit => MirrorInv
  BY MirrorInitOK
<1>2. MirrorInv /\ [MirrorNext]_mirrorVars => MirrorInv'
  BY MirrorStep, MirrorStutter
<1>3. MirrorInv => ClosedRecordTells
  BY DEF MirrorInv
<1> QED
  BY <1>1, <1>2, <1>3, PTL DEF MirrorSpec

=============================================================================
