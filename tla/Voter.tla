-------------------------------- MODULE Voter --------------------------------
(***************************************************************************)
(* Voting from the command line (src/cmd/gnoracle/main.go, commit and      *)
(* reveal): the salt a commitment hides is kept in a file until the choice *)
(* is revealed, and lost with it is the vote.                              *)
(*                                                                         *)
(* One dispute, one home directory, and a command at a time in it.  A      *)
(* commitment is what it is a hash of, round, voter, choice and salt; the  *)
(* record of it in a file is the same.  No transaction outlives the ballot *)
(* it was sent for: the next one opens days later.                         *)
(***************************************************************************)
EXTENDS Naturals

CONSTANTS
  Voters,      \* the keys used with the home
  VoteChoices,
  LastRound,   \* ballots of a dispute
  MaxSalts,    \* bound on salts drawn
  MaxTroubles  \* bound on crashes and lost answers

ASSUME VoterAssumption == LastRound \in Nat \ {0} /\ MaxSalts \in Nat /\ MaxTroubles \in Nat

BallotRounds == 1 .. LastRound
NoRecord == [round |-> 0]
VoteRecords == [round : BallotRounds, voter : Voters, choice : VoteChoices, salt : 1..MaxSalts]

VARIABLES
  ballot,     \* the dispute's latest ballot: its round and its phase by the clock
  committed,  \* by round and voter: the commitment on chain
  opened,     \* by round: the voters whose reveal was accepted
  files,      \* by round: the record on file
  pendings,   \* by round: the record beside it
  cmd,        \* the commit in progress
  inFlight,   \* a commitment that was sent, was not answered and may still land
  salts,      \* how many salts were drawn
  doubt,      \* rounds and voters for whom the file may not hold what is on chain
  troubles

voterVars == <<ballot, committed, opened, files, pendings, cmd, inFlight, salts, doubt, troubles>>

NoCommand == [pc |-> "idle"]

VoterInit ==
  /\ ballot = [round |-> 1, phase |-> "commit"]
  /\ committed = [r \in BallotRounds |-> [v \in Voters |-> NoRecord]]
  /\ opened = [r \in BallotRounds |-> {}]
  /\ files = [r \in BallotRounds |-> NoRecord] /\ pendings = [r \in BallotRounds |-> NoRecord]
  /\ cmd = NoCommand /\ inFlight = NoRecord
  /\ salts = 0 /\ doubt = {} /\ troubles = 0

Trouble == troubles < MaxTroubles /\ troubles' = troubles + 1

-----------------------------------------------------------------------------
(* The chain (DaoBallots has the whole of it).                               *)

RevealBegins ==
  /\ ballot.phase = "commit"
  /\ ballot' = [ballot EXCEPT !.phase = "reveal"]
  /\ UNCHANGED <<committed, opened, files, pendings, cmd, inFlight, salts, doubt, troubles>>

NextBallot ==
  /\ ballot.phase = "reveal" /\ ballot.round < LastRound
  /\ cmd = NoCommand /\ inFlight = NoRecord
  /\ ballot' = [round |-> ballot.round + 1, phase |-> "commit"]
  /\ UNCHANGED <<committed, opened, files, pendings, cmd, inFlight, salts, doubt, troubles>>

-----------------------------------------------------------------------------
(* Committing.                                                               *)

\* Mutant: a new record is put in place before it is known to be on chain.
WrittenAtOnce(rec) ==
  /\ files' = [files EXCEPT ![rec.round] = rec] /\ UNCHANGED pendings

\* A new record is written beside the one on file.
Written(rec) ==
  /\ pendings' = [pendings EXCEPT ![rec.round] = rec] /\ UNCHANGED files

\* The ballot takes commitments.  The choice on file is committed again as it is; for a first
\* choice, or another, a salt is drawn and the record written.
BeginCommit(v, choice) ==
  /\ cmd = NoCommand /\ ballot.phase = "commit"
  /\ LET r == ballot.round
         again == files[r] # NoRecord /\ files[r].choice = choice
         fresh == [round |-> r, voter |-> v, choice |-> choice, salt |-> salts + 1]
         rec == IF again THEN files[r] ELSE fresh
     IN /\ cmd' = [pc |-> "sent", voter |-> v, rec |-> rec, fresh |-> ~again]
        /\ IF again THEN UNCHANGED <<files, pendings, salts>>
           ELSE salts < MaxSalts /\ salts' = salts + 1 /\ Written(fresh)
  /\ UNCHANGED <<ballot, committed, opened, inFlight, doubt, troubles>>

Put(v, rec) == committed' = [committed EXCEPT ![ballot.round][v] = rec]

\* The chain takes the commitment; an earlier one of the voter can land no more.
Lands ==
  /\ cmd.pc = "sent" /\ ballot.phase = "commit"
  /\ Put(cmd.voter, cmd.rec)
  /\ cmd' = [cmd EXCEPT !.pc = "landed"]
  /\ inFlight' = IF inFlight # NoRecord /\ inFlight.voter = cmd.voter THEN NoRecord ELSE inFlight
  /\ UNCHANGED <<ballot, opened, files, pendings, salts, doubt, troubles>>

\* It does not: the phase is over, there is no gas, or the node does not take it.
Fails ==
  /\ cmd.pc = "sent"
  /\ cmd' = [cmd EXCEPT !.pc = "failed"]
  /\ UNCHANGED <<ballot, committed, opened, files, pendings, inFlight, salts, doubt, troubles>>

\* The command gets an error for a commitment that may be on chain, or may get there.
AnswerLost ==
  /\ cmd.pc \in {"sent", "landed"} /\ Trouble
  /\ cmd' = [cmd EXCEPT !.pc = "failed"]
  /\ inFlight' = IF cmd.pc = "sent" THEN [voter |-> cmd.voter, rec |-> cmd.rec] ELSE inFlight
  /\ doubt' = doubt \cup {<<ballot.round, cmd.voter>>}
  /\ UNCHANGED <<ballot, committed, opened, files, pendings, salts>>

LandsLate ==
  /\ inFlight # NoRecord
  /\ IF ballot.phase = "commit" THEN Put(inFlight.voter, inFlight.rec) ELSE UNCHANGED committed
  /\ inFlight' = NoRecord
  /\ UNCHANGED <<ballot, opened, files, pendings, cmd, salts, doubt, troubles>>

\* After an answer the record takes the place of the one on file, and any other voter's
\* commitment has its salt there no more.
Accepted ==
  /\ cmd.pc = "landed"
  /\ LET r == ballot.round IN
       IF cmd.fresh
       THEN /\ files' = [files EXCEPT ![r] = cmd.rec] /\ pendings' = [pendings EXCEPT ![r] = NoRecord]
            /\ doubt' = (doubt \ {<<r, cmd.voter>>}) \cup ({r} \X (Voters \ {cmd.voter}))
       ELSE /\ UNCHANGED <<files, pendings>>
            /\ doubt' = IF cmd.rec.voter = cmd.voter THEN doubt \ {<<r, cmd.voter>>} ELSE doubt \cup {<<r, cmd.voter>>}
  /\ cmd' = NoCommand
  /\ UNCHANGED <<ballot, committed, opened, inFlight, salts, troubles>>

\* After an error the record beside it is removed.
Rejected ==
  /\ cmd.pc = "failed"
  /\ pendings' = IF cmd.fresh THEN [pendings EXCEPT ![ballot.round] = NoRecord] ELSE pendings
  /\ cmd' = NoCommand
  /\ UNCHANGED <<ballot, committed, opened, files, inFlight, salts, doubt, troubles>>

\* The command is killed: what it sent may land, and the record beside the file stays.
Killed ==
  /\ cmd # NoCommand /\ Trouble
  /\ inFlight' = IF cmd.pc = "sent" THEN [voter |-> cmd.voter, rec |-> cmd.rec] ELSE inFlight
  /\ doubt' = IF cmd.pc = "failed" THEN doubt ELSE doubt \cup {<<ballot.round, cmd.voter>>}
  /\ cmd' = NoCommand
  /\ UNCHANGED <<ballot, committed, opened, files, pendings, salts>>

-----------------------------------------------------------------------------
(* Revealing.                                                                *)

\* What reveal sends is what is on file, if it was the voter's own.
Revealable(r, v) == files[r] # NoRecord /\ files[r].voter = v

\* The chain takes a reveal of what was committed.
Reveal(v) ==
  LET r == ballot.round IN
  /\ cmd = NoCommand /\ ballot.phase = "reveal" /\ Revealable(r, v)
  /\ files[r] = committed[r][v]
  /\ opened' = [opened EXCEPT ![r] = @ \cup {v}]
  /\ UNCHANGED <<ballot, committed, files, pendings, cmd, inFlight, salts, doubt, troubles>>

VoterNext ==
  \/ RevealBegins \/ NextBallot
  \/ \E v \in Voters : Reveal(v) \/ \E choice \in VoteChoices : BeginCommit(v, choice)
  \/ Lands \/ Fails \/ AnswerLost \/ LandsLate \/ Accepted \/ Rejected \/ Killed

VoterSpec == VoterInit /\ [][VoterNext]_voterVars

-----------------------------------------------------------------------------

\* The vote of r and v is hidden in what the command in progress sent, and its record is where
\* the command will take it from.
BeingFiled(r, v) ==
  /\ cmd.pc = "landed" /\ ballot.round = r /\ cmd.voter = v
  /\ committed[r][v] = cmd.rec
  /\ IF cmd.fresh THEN pendings[r] = cmd.rec ELSE files[r] = cmd.rec

\* A change of mind that fails never loses the salt that is on chain (main.go:693-695), and one
\* that succeeds never leaves the old one on file: whenever a commitment is on chain, its record
\* is on file or about to be, and reveal will send it.  Excepted are a voter whose last answer
\* was lost or whose command was killed, until it commits again, and one who shares the home
\* with another voter.
SaltKept ==
  \A r \in BallotRounds, v \in Voters :
    committed[r][v] # NoRecord /\ <<r, v>> \notin doubt =>
      \/ BeingFiled(r, v)
      \/ files[r] = committed[r][v] /\ Revealable(r, v)

=============================================================================
