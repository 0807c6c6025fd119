----------------------------- MODULE ClientViews -----------------------------
(* What the command line and the bot conclude from views of the DAO, of      *)
(* disputes and of mirrors (src/internal/gnochain/views.go,                  *)
(* src/bot/cranker.go, src/bot/reminders.go).                                *)
EXTENDS Integers, Sequences

\* Mutant: the second in which a phase ends still belongs to it.
LivePhaseLate(b, now) ==
  IF b.resolvedAt > 0 \/ b.phase = "resolved" THEN "resolved"
  ELSE IF now <= b.commitEnds THEN "commit"
  ELSE IF now <= b.revealEnds THEN "reveal"
  ELSE "finished"

\* The phase by the clock: the chain rewrites the phase only when a call touches the ballot.
LivePhase(b, now) ==
  IF b.resolvedAt > 0 \/ b.phase = "resolved" THEN "resolved"
  ELSE IF now < b.commitEnds THEN "commit"
  ELSE IF now < b.revealEnds THEN "reveal"
  ELSE "finished"

\* ResolveDispute is worth its fee: of a dispute with status, the latest ballot (of which
\* exists says whether there is one), and the end of the appeal window, 0 when there is none.
ResolveReady(status, exists, ballot, appealWindowEnds, now) ==
  \/ status \in {"open", "appealed"} /\ exists /\ ballot.resolvedAt = 0 /\ now >= ballot.revealEnds
  \/ status = "decided" /\ appealWindowEnds > 0 /\ now >= appealWindowEnds

\* SettleMember is worth its fee: the ballot after the member's cursor is final.
SettleReady(exists, cursor, ballots) ==
  exists /\ cursor < Len(ballots) /\ ballots[cursor + 1].final

\* Who is reminded in a phase: a member still to commit, or one to reveal what it committed.
Missing(phase, committed, revealed) ==
  IF phase = "commit" THEN ~committed ELSE ~revealed /\ committed

\* A mirror needs no more cranks.
MirrorTerminal(state) == state \in {"settled", "confirmed", "dissent", "abandoned"}

\* A crank can advance the mirror's record by now; history and settle are the court's waits.
MirrorDue(rec, now, history, settle) ==
  CASE rec.state = "staked" -> now >= rec.openedAt + history
    [] rec.state = "answered" -> now >= rec.answeredAt + settle
    [] OTHER -> ~MirrorTerminal(rec.state)

=============================================================================
