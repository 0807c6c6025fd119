----------------------------- MODULE KourtMirror -----------------------------
(***************************************************************************)
(* The mirror of a resolved dispute on an external court (kourt/kourt.gno, *)
(* kourt/impl/kourtv3): a claim is filed, staked, answered and followed to *)
(* its verdict, one step a crank, on the court's clocks.                   *)
(*                                                                         *)
(* The court is external: what its calls do and refuse is taken from what  *)
(* the mirror says of it (impl.gno 6-31) and asks of it, and from its      *)
(* tests.  Its holders stake, answer, dispute, vote and settle when they   *)
(* like; its coin supply grows.  A resolved dispute does not change.       *)
(* An hour stands for an epoch of blocks as well.                          *)
(***************************************************************************)
EXTENDS Integers

CONSTANTS
  StakeDelay,      \* hours before a claim takes stakes
  SealAfter,       \* hours of stakes before the history holds its three epochs
  AnswerWindow,    \* the three epochs
  PriorityWindow,  \* for qualified answerers, if the court has them
  SettleAfter,     \* from an answer to its settlement, and to the end of disputes
  VotePeriod, Escrow, DeadAfter,
  StakeSize, Bond, \* in units of the deposit; a top-up costs one as well
  MaxHour, MaxDeeds \* bounds of the clock, and of what holders and the authority do

ASSUME CourtAssumption ==
  /\ { StakeDelay, SealAfter, AnswerWindow, PriorityWindow, Escrow, MaxHour, MaxDeeds } \subseteq Nat
  /\ SettleAfter \in Nat /\ VotePeriod \in Nat /\ DeadAfter \in Nat /\ {StakeSize, Bond} \subseteq Nat \ {0}
  /\ SealAfter <= AnswerWindow /\ SettleAfter <= VotePeriod

VARIABLES
  mirror,   \* the record of the dispute
  claim,    \* the claim on the court
  court,    \* whether it is founded, and whether answerers have priority
  purse,    \* court coin the realm can spend
  release,  \* which court the live release binds
  hour, deeds

mirrorVars == <<mirror, claim, court, purse, release, hour, deeds>>

Bot == INSTANCE ClientViews

Never == -1
NoSide == "none"
NoMirror == [state |-> "none", binding |-> 0, openedAt |-> 0, stakedAt |-> 0, answeredAt |-> 0,
             verdict |-> NoSide, route |-> "", forced |-> FALSE]

NewClaim ==
  [openedAt |-> hour, firstStake |-> Never, lastStake |-> Never, short |-> FALSE,
   stake |-> 0, deposit |-> TRUE, bond |-> FALSE,
   answer |-> NoSide, answeredAt |-> 0, voteEnds |-> Never, verdict |-> NoSide, reopenAt |-> 0,
   settled |-> FALSE, route |-> "", closed |-> FALSE, undecided |-> FALSE]

MirrorInit ==
  /\ mirror = NoMirror /\ claim = << >>
  /\ court \in [founded : {FALSE}, priority : BOOLEAN]
  /\ purse = 0 /\ release = 1
  /\ hour = 0 /\ deeds = 0

Deed == deeds < MaxDeeds /\ deeds' = deeds + 1

Answered(c) == c.answer # NoSide
Voting(c) == c.voteEnds # Never
Provisional(c) == c.verdict # NoSide
Undisputed(c) == Answered(c) /\ ~Voting(c) /\ ~Provisional(c) /\ ~c.settled

-----------------------------------------------------------------------------
(* The court's calls. *)

\* The time of the claim at which the history of its stakes holds three epochs.
Mature(c) == c.firstStake # Never /\ c.lastStake - c.firstStake >= SealAfter
Answerable(c) == Mature(c) /\ ~c.short

TakesStakes(c) == ~Answered(c) /\ ~c.closed /\ hour >= c.openedAt + StakeDelay

StakedOn(c) == [c EXCEPT !.firstStake = IF @ = Never THEN hour ELSE @, !.lastStake = hour]

PriorityOver(c) == court.priority => hour >= c.openedAt + StakeDelay + AnswerWindow + PriorityWindow

AnsweredWith(c, side) == [c EXCEPT !.answer = side, !.answeredAt = hour]

Dead(c) == ~Answered(c) /\ hour >= c.openedAt + DeadAfter

\* The deposit goes back to the author.
ClosedDead(c) == [c EXCEPT !.closed = TRUE, !.deposit = FALSE]

CanSettle(c) == Undisputed(c) /\ hour >= c.answeredAt + SettleAfter
SettledUndisputed(c) == [c EXCEPT !.settled = TRUE, !.verdict = c.answer, !.route = "undisputed"]

VoteOver(c) == Voting(c) /\ hour >= c.voteEnds

\* A vote ends with a verdict held in escrow, or the claim is closed without any.
Resolved(c) ==
  { [c EXCEPT !.voteEnds = Never, !.verdict = side, !.reopenAt = hour + Escrow] : side \in {"yes", "no"} }
    \cup { [c EXCEPT !.voteEnds = Never, !.settled = TRUE, !.undecided = TRUE, !.route = "vote"] }

EscrowOver(c) == Provisional(c) /\ ~Voting(c) /\ ~c.settled /\ hour >= c.reopenAt
Finalized(c) == [c EXCEPT !.settled = TRUE, !.route = "vote"]

\* What opening the draw gives back: the deposit, and the bond unless the answer was overturned.
Drawn(c) ==
  (IF c.deposit THEN 1 ELSE 0) + (IF c.bond /\ (c.undecided \/ c.verdict = c.answer) THEN Bond ELSE 0)

-----------------------------------------------------------------------------
(* The crank: one action for each way through Crank that changes something.  *)

InState(states) == mirror.state \in states /\ mirror.binding = release

\* The claim is opened in the same step as the record.
CrankFile ==
  /\ mirror.state = "none"
  /\ court.founded
  /\ purse >= 1
  /\ claim' = NewClaim /\ purse' = purse - 1
  /\ mirror' = [NoMirror EXCEPT !.state = "filed", !.binding = release, !.openedAt = hour]
  /\ UNCHANGED <<court, release, hour, deeds>>

\* The stake of a claim that died is taken back and the record closed.
Abandoned(c) ==
  /\ purse' = purse + c.stake + (IF claim.deposit /\ ~c.deposit THEN 1 ELSE 0)
  /\ claim' = [c EXCEPT !.stake = 0]
  /\ mirror' = [mirror EXCEPT !.state = "abandoned", !.route = "dead"]

CrankDead ==
  /\ InState({"filed", "staked"}) /\ ~Answered(claim)
  /\ IF claim.closed THEN Abandoned(claim) ELSE Dead(claim) /\ Abandoned(ClosedDead(claim))
  /\ UNCHANGED <<court, release, hour, deeds>>

\* Mutant: an answer that came before the stake is not looked for.
CrankFollowStaked ==
  /\ InState({"staked"}) /\ Answered(claim) /\ ~claim.closed
  /\ mirror' = [mirror EXCEPT !.state = "answered", !.answeredAt = claim.answeredAt]
  /\ UNCHANGED <<claim, court, purse, release, hour, deeds>>

\* Somebody else's answer is followed, with a stake or without.
CrankFollow ==
  /\ InState({"filed", "staked"}) /\ Answered(claim) /\ ~claim.closed
  /\ mirror' = [mirror EXCEPT !.state = "answered", !.answeredAt = claim.answeredAt]
  /\ UNCHANGED <<claim, court, purse, release, hour, deeds>>

CrankStake ==
  /\ InState({"filed"}) /\ TakesStakes(claim) /\ ~Dead(claim)
  /\ purse >= StakeSize
  /\ claim' = [StakedOn(claim) EXCEPT !.stake = StakeSize]
  /\ purse' = purse - StakeSize
  /\ mirror' = [mirror EXCEPT !.state = "staked", !.stakedAt = hour]
  /\ UNCHANGED <<court, release, hour, deeds>>

\* The history is sealed and the average lifted by a top-up, once that can be, and the answer
\* posted, if the priority of others is over.  (The stake of another may have sealed it.)
CrankAnswer ==
  /\ InState({"staked"}) /\ ~Answered(claim) /\ ~claim.closed /\ ~Dead(claim)
  /\ LET tops == ~Answerable(claim)
         topped == IF tops THEN [StakedOn(claim) EXCEPT !.stake = @ + 1, !.short = FALSE] ELSE claim
         answers == Answerable(topped) /\ PriorityOver(topped)
         price == (IF tops THEN 1 ELSE 0) + (IF answers THEN Bond ELSE 0)
     IN /\ tops => hour >= mirror.stakedAt + SealAfter
        /\ tops \/ answers
        /\ purse >= price /\ purse' = purse - price
        /\ claim' = IF answers THEN [AnsweredWith(topped, "yes") EXCEPT !.bond = TRUE] ELSE topped
        /\ mirror' = IF answers THEN [mirror EXCEPT !.state = "answered", !.answeredAt = hour] ELSE mirror
  /\ UNCHANGED <<court, release, hour, deeds>>

CrankContested ==
  /\ InState({"answered"}) /\ ~claim.settled
  /\ Voting(claim) \/ Provisional(claim)
  /\ mirror' = [mirror EXCEPT !.state = "contested"]
  /\ UNCHANGED <<claim, court, purse, release, hour, deeds>>

\* The verdict is read, stake, deposit and bond are taken back, and the record closed.
Finish(c) ==
  LET verdict == IF c.undecided THEN NoSide ELSE c.verdict IN
  /\ mirror' = [mirror EXCEPT !.verdict = verdict, !.route = c.route,
                              !.state = IF verdict = "no" THEN "dissent"
                                        ELSE IF verdict = "yes" /\ c.route = "vote" THEN "confirmed" ELSE "settled"]
  /\ purse' = purse + c.stake + Drawn(c)
  /\ claim' = [c EXCEPT !.stake = 0, !.deposit = FALSE, !.bond = FALSE]

\* The claim is settled: by others, or now that its answer, its vote or its escrow is over.
CrankSettle ==
  /\ \/ InState({"answered", "contested"}) /\ claim.settled /\ Finish(claim)
     \/ InState({"answered"}) /\ CanSettle(claim) /\ Finish(SettledUndisputed(claim))
     \/ InState({"contested"}) /\ EscrowOver(claim) /\ Finish(Finalized(claim))
  /\ UNCHANGED <<court, release, hour, deeds>>

CrankVote ==
  /\ InState({"contested"}) /\ ~claim.settled /\ VoteOver(claim)
  /\ \E c \in Resolved(claim) :
       IF c.settled THEN Finish(c) ELSE claim' = c /\ UNCHANGED <<mirror, purse>>
  /\ UNCHANGED <<court, release, hour, deeds>>

Crank ==
  \/ CrankFile \/ CrankDead \/ CrankFollow \/ CrankStake \/ CrankAnswer
  \/ CrankContested \/ CrankSettle \/ CrankVote

-----------------------------------------------------------------------------
(* The authority, and calls of anybody to the mirror. *)

Closed == Bot!MirrorTerminal(mirror.state)

\* The authority closes a record, whatever the court makes of its claim.
Abandon ==
  /\ mirror.state # "none" /\ ~Closed /\ Deed
  /\ mirror' = [mirror EXCEPT !.state = "abandoned", !.route = "reason", !.forced = TRUE]
  /\ UNCHANGED <<claim, court, purse, release, hour>>

\* What an abandoned record left on the court is recovered.
Withdraw ==
  /\ InState({"abandoned"})
  /\ LET free == claim.settled \/ ~Answered(claim)
         draws == claim.settled /\ (claim.deposit \/ claim.bond) /\ ~claim.closed
     IN /\ purse' = purse + (IF free THEN claim.stake ELSE 0) + (IF draws THEN Drawn(claim) ELSE 0)
        /\ claim' = [claim EXCEPT !.stake = IF free THEN 0 ELSE @,
                                  !.deposit = @ /\ ~draws, !.bond = @ /\ ~draws]
        /\ claim' # claim
  /\ UNCHANGED <<mirror, court, release, hour, deeds>>

\* A release that binds another court.
NewRelease ==
  /\ release = 1 /\ Deed /\ release' = 2
  /\ UNCHANGED <<mirror, claim, court, purse, hour>>

\* The float, of the holders' coin, is redeemed by the authority.
RedeemFloat ==
  /\ purse > 0 /\ Deed /\ purse' = 0
  /\ UNCHANGED <<mirror, claim, court, release, hour>>

-----------------------------------------------------------------------------
(* Time, and the court's holders. *)

PassHour == hour < MaxHour /\ hour' = hour + 1 /\ UNCHANGED <<mirror, claim, court, purse, release, deeds>>

\* The float is filled up.
Fund ==
  /\ purse < 2 + StakeSize + Bond /\ purse' = 2 + StakeSize + Bond
  /\ UNCHANGED <<mirror, claim, court, release, hour, deeds>>

\* The court is founded: by the mirror (EnsureCourt, or a crank), or by an account when the
\* court charges for it.
Found ==
  /\ ~court.founded /\ court' = [court EXCEPT !.founded = TRUE]
  /\ UNCHANGED <<mirror, claim, purse, release, hour, deeds>>

OfHolders(c) == claim' = c /\ UNCHANGED <<mirror, court, purse, release, hour>>

\* An answer is disputed while it could settle undisputed; a verdict, while it is in escrow.
MayDispute(c) ==
  \/ Undisputed(c) /\ hour < c.answeredAt + SettleAfter
  \/ Provisional(c) /\ ~c.settled /\ ~Voting(c) /\ hour < c.reopenAt

HoldersAct ==
  /\ claim # << >> /\ ~claim.closed /\ ~claim.settled
  /\ \/ TakesStakes(claim) /\ Deed /\ OfHolders(StakedOn(claim))
     \/ TakesStakes(claim) /\ ~claim.short /\ Deed /\ OfHolders([claim EXCEPT !.short = TRUE])
     \/ /\ TakesStakes(claim) /\ hour >= claim.openedAt + StakeDelay + SealAfter /\ ~Dead(claim)
        /\ \E side \in {"yes", "no"} : Deed /\ OfHolders(AnsweredWith(claim, side))
     \/ MayDispute(claim) /\ Deed /\ OfHolders([claim EXCEPT !.voteEnds = hour + VotePeriod, !.verdict = NoSide])
     \/ VoteOver(claim) /\ UNCHANGED deeds /\ \E c \in Resolved(claim) : OfHolders(c)
     \/ CanSettle(claim) /\ UNCHANGED deeds /\ OfHolders(SettledUndisputed(claim))
     \/ EscrowOver(claim) /\ UNCHANGED deeds /\ OfHolders(Finalized(claim))

\* Anybody closes a dead claim, which gives the author its deposit.
CloseDeadClaim ==
  /\ claim # << >> /\ ~claim.closed /\ Dead(claim)
  /\ claim' = ClosedDead(claim) /\ purse' = purse + 1
  /\ UNCHANGED <<mirror, court, release, hour, deeds>>

MirrorNext ==
  \/ Crank \/ Abandon \/ Withdraw \/ NewRelease \/ RedeemFloat
  \/ PassHour \/ Fund \/ Found \/ HoldersAct \/ CloseDeadClaim

MirrorSpec == MirrorInit /\ [][MirrorNext]_mirrorVars

-----------------------------------------------------------------------------

\* When the last of the court's clocks has run.
LastClock ==
  IF claim.settled \/ claim.closed THEN 0
  ELSE IF Voting(claim) THEN claim.voteEnds
  ELSE IF Provisional(claim) THEN claim.reopenAt
  ELSE IF Answered(claim) THEN claim.answeredAt + SettleAfter
  ELSE IF mirror.state = "staked"
  THEN mirror.stakedAt + AnswerWindow + PriorityWindow
  ELSE claim.openedAt + StakeDelay

\* What the mirror has on the court.
Locked == claim.stake + (IF claim.deposit THEN 1 ELSE 0) + (IF claim.bond THEN Bond ELSE 0)

\* A closed record says what the court decided, unless the authority closed it, and nothing of
\* the mirror's coin is left on its claim (finish, abandon, closeDead).
ClosedRecordTells ==
  /\ mirror.state \in {"settled", "confirmed", "dissent"} =>
       /\ claim.settled /\ mirror.verdict = IF claim.undecided THEN NoSide ELSE claim.verdict
       /\ mirror.state = "settled" <=> (claim.undecided \/ (claim.verdict = "yes" /\ claim.route = "undisputed"))
       /\ mirror.state = "dissent" <=> mirror.verdict = "no"
  /\ (Closed /\ ~mirror.forced) => Locked = 0

\* No order of cranks, holders' answers, disputes, votes and settlements wedges the mirror: once
\* the court's clocks have run and the float suffices, the bot finds the record due (Due) and a
\* crank moves it, without a panic of the court; and it ends as the court decided.  What the
\* authority's Abandon left there, withdraw recovers once the court lets go of it.
MirrorMovesOn ==
  mirror.state # "none" =>
    /\ (~Closed /\ mirror.binding = release /\ hour >= LastClock /\ purse >= StakeSize + Bond + 1) =>
         Bot!MirrorDue(mirror, hour, AnswerWindow, SettleAfter) /\ ENABLED Crank
    /\ ClosedRecordTells
    /\ (Closed /\ mirror.forced /\ mirror.binding = release /\ (claim.settled \/ claim.closed) /\ Locked > 0) =>
         ENABLED Withdraw

=============================================================================
