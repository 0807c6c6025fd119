------------------------------ MODULE FinalFeed ------------------------------
(***************************************************************************)
(* What the core promises a consumer that only acts on final values.       *)
(*                                                                         *)
(* A feed publishes rounds in order.  A published value is contested: its  *)
(* dispute window is open or a dispute of it runs.  While it is, it may be *)
(* revised or withdrawn; once it is not, and no earlier one is, it is the  *)
(* final value until a later round takes its place.  The final value is    *)
(* therefore always the newest round of the uncontested prefix, and it     *)
(* never goes back.                                                        *)
(*                                                                         *)
(* Governance may break this in one way: by making the dispute window      *)
(* longer.  Rounds taken for final may then be pending again, and a final  *)
(* value that stays may be in doubt; only one in doubt is ever rewritten.  *)
(***************************************************************************)
EXTENDS Integers, FiniteSetsExt

CONSTANT Values   \* the values a feed may publish

VARIABLES
  pending,    \* the published rounds past the final one, a function to their values
  contested,  \* those of them which a dispute may still change
  final,      \* the last final round
  window,     \* how long a round may be disputed
  doubted     \* whether the final round may be disputed again, was voided, or replayed

vars == <<pending, contested, final, window, doubted>>

NoFinal == [ok |-> FALSE, round |-> 0, value |-> 0]

Init == pending = << >> /\ contested = {} /\ final = NoFinal /\ window \in Nat /\ ~doubted

\* With the rounds of p published and those of c contested, the final value moves to the
\* newest round before every contested one.
Advance(p, c) ==
  LET clear == { r \in DOMAIN p : \A k \in c : r < k }
      rest == DOMAIN p \ clear
  IN /\ contested' = c
     /\ pending' = [r \in rest |-> p[r]]
     /\ final' = IF clear = {} THEN final ELSE [ok |-> TRUE, round |-> Max(clear), value |-> p[Max(clear)]]

\* No step below makes the window longer, and none casts doubt on a final value.
Steady == window' <= window /\ (doubted' => doubted /\ final' = final)

\* Rounds are published in order, each of them contested at first; a round may come to
\* nothing and never be published.
Publish ==
  \E id \in contested' \ contested, v \in Values :
    /\ id \in Nat /\ \A r \in DOMAIN pending : r < id
    /\ final.ok => final.round < id
    /\ Advance([r \in DOMAIN pending \cup {id} |-> IF r = id THEN v ELSE pending[r]], contested \cup {id})

\* The end of a contest, with the value it leaves.
Revise ==
  \E id \in contested, v \in Values : \E c \in {contested, contested \ {id}} :
    Advance([pending EXCEPT ![id] = v], c)

Withdraw ==
  \E id \in contested :
    Advance([r \in DOMAIN pending \ {id} |-> pending[r]], contested \ {id})

\* Windows pass with time, or are made shorter, several at once.
Settle == \E done \in SUBSET contested : Advance(pending, contested \ done)

\* A final value in doubt gets another value.
Overrule ==
  /\ doubted
  /\ \E v \in Values : final' = [ok |-> TRUE, round |-> final.round, value |-> v]
  /\ UNCHANGED <<pending, contested, window>>

\* A longer window: from some round on what was final is pending again.
Widen ==
  /\ window' > window
  /\ DOMAIN pending \subseteq DOMAIN pending' /\ \A r \in DOMAIN pending : pending'[r] = pending[r]
  /\ contested \subseteq contested'
  /\ \A r \in DOMAIN pending' \ DOMAIN pending : final.ok /\ r <= final.round /\ (final'.ok => final'.round < r)
  /\ \/ final' = final
     \/ final.round \in DOMAIN pending' \ DOMAIN pending /\ pending'[final.round] = final.value

Next ==
  \/ Steady /\ (Settle \/ Publish \/ Revise \/ Withdraw)
  \/ Overrule
  \/ Widen

Spec == Init /\ [][Next]_vars

=============================================================================
