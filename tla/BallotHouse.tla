----------------------------- MODULE BallotHouse -----------------------------
(* What the core and the DAO promise each other about the ballots of a       *)
(* dispute (core/hooks.gno, BallotHouse): a first vote decides, or is        *)
(* followed by a second; what a first vote decided stands once it is         *)
(* applied, unless an appeal brings a second vote before; a second decides   *)
(* for good.                                                                 *)
CONSTANT Disputes

VARIABLE house  \* by dispute: the round and stage of its vote, and the outcome

Outcomes == {"UPHOLD", "OVERTURN", "VOID"}
Unasked == [round |-> 0, stage |-> "none", outcome |-> ""]
Voting(round) == [round |-> round, stage |-> "voting", outcome |-> ""]
Decision(round, stage, outcome) == [round |-> round, stage |-> stage, outcome |-> outcome]

Init == house = [d \in Disputes |-> Unasked]

\* A vote is opened; it decides nothing, and there is another.
Votes == {<<Unasked, Voting(1)>>, <<Voting(1), Voting(2)>>}

\* It decides, is appealed, or is applied; a second decides for good.
Decisions(outcome) ==
  LET decided == Decision(1, "decided", outcome) IN
  {<<Voting(1), decided>>, <<decided, Voting(2)>>, <<decided, Decision(1, "applied", outcome)>>,
   <<Voting(2), Decision(2, "applied", outcome)>>}

Moves == Votes \cup UNION { Decisions(outcome) : outcome \in Outcomes }

Next == \E d \in Disputes : <<house[d], house'[d]>> \in Moves /\ house' = [house EXCEPT ![d] = house'[d]]

Spec == Init /\ [][Next]_house

=============================================================================
