-------------------------------- MODULE Tally --------------------------------
(***************************************************************************)
(* Deciding a dispute ballot: package p/clockwork/gnoracle/tally.          *)
(*                                                                         *)
(* Weights are a function from choices to the weight revealed for each.    *)
(* The package compares and divides 128-bit products, so both are exact.   *)
(* A commitment binds dispute, round, choice and voter and cannot be       *)
(* opened otherwise, so a commitment is its choice (module DaoBallots).    *)
(***************************************************************************)
EXTENDS Aggregation, Sequences, SequencesExt, FiniteSetsExt

CONSTANT TopK  \* how many of the heaviest reveals a ballot keeps

ASSUME TallyAssumption == TopK \in Nat \ {0}

BallotChoices == {"UPHOLD", "OVERTURN", "OVERTURN_MINOR", "VOID", "ABSTAIN"}
Overturns == {"OVERTURN", "OVERTURN_MINOR"}
NoWeights == [c \in BallotChoices |-> 0]

ValidChoice(choice, majorRequested) == choice \in BallotChoices /\ (choice = "OVERTURN_MINOR" => majorRequested)

WeightOf(w, S) == SumFunctionOnSet(w, S)
Total(w) == WeightOf(w, BallotChoices)
Sides(w) == WeightOf(w, Overturns \cup {"UPHOLD"})

-----------------------------------------------------------------------------
(* The heaviest reveals, and the clipping of those above the cap.            *)

\* Mutant: a new reveal goes to the end of a list that has room, and nowhere else.
InsertTopLast(top, r) == IF Len(top) < TopK THEN Append(top, r) ELSE top

\* Before the first lighter reveal; the lightest falls off a full list.
InsertTop(top, r) ==
  LET heavier == Cardinality({ k \in DOMAIN top : \A j \in 1..k : r.weight <= top[j].weight })
      inserted == SubSeq(top, 1, heavier) \o <<r>> \o SubSeq(top, heavier + 1, Len(top))
  IN IF r.weight <= 0 THEN top ELSE SubSeq(inserted, 1, Min({TopK, Len(inserted)}))

\* What is not selected is what r replaces: mostly nothing.
ReplaceTop(top, r) ==
  InsertTop(IF \A k \in DOMAIN top : top[k].voter # r.voter THEN top ELSE SelectSeq(top, LAMBDA e : e.voter # r.voter), r)

\* The heaviest kept are all the voters that can be above the cap.
CapAllowed(capBps) == capBps > 0 /\ capBps <= Bps /\ capBps * TopK >= Bps

\* What a reveal of this weight counts beyond the cap.
Excess(weight, capBps, obligated) ==
  LET limit == MulDiv(obligated, capBps, Bps) IN
  IF obligated > 0 /\ weight > limit THEN weight - limit ELSE 0

Clip(w, top, capBps, obligated) ==
  [c \in BallotChoices |->
     w[c] - SumFunction([k \in { i \in DOMAIN top : top[i].choice = c } |-> Excess(top[k].weight, capBps, obligated)])]

-----------------------------------------------------------------------------
(* The decision: rules are quorumBps, decisionBps and majorRequested.        *)

Quorate(w, obligated, rules) == Total(w) > 0 /\ Total(w) * Bps >= obligated * rules.quorumBps

Decide(w, obligated, rules) ==
  LET carries(weight) == Sides(w) > 0 /\ weight * Bps >= Sides(w) * rules.decisionBps
      major == rules.majorRequested /\ w["OVERTURN"] > w["OVERTURN_MINOR"]
      decided(outcome, tier) == [outcome |-> outcome, tier |-> tier]
  IN CASE ~Quorate(w, obligated, rules) -> decided("ROLL", "")
       [] Quorate(w, obligated, rules) /\ w["VOID"] * 2 > Total(w) - w["ABSTAIN"] -> decided("VOID", "")
       [] OTHER -> IF carries(w["UPHOLD"]) THEN decided("UPHOLD", "")
                   ELSE IF carries(WeightOf(w, Overturns)) THEN decided("OVERTURN", IF major THEN "major" ELSE "minor")
                   ELSE decided("ROLL", "")

-----------------------------------------------------------------------------
(* What follows from a decided ballot for its voters.                        *)

\* The choices that voted with an outcome, and those that voted against it.
CoherentChoices(outcome) ==
  CASE outcome = "UPHOLD" -> {"UPHOLD"}
    [] outcome = "OVERTURN" -> Overturns
    [] outcome = "VOID" -> {"VOID"}
    [] OTHER -> {}

IncoherentChoices(outcome) ==
  IF outcome \in {"UPHOLD", "OVERTURN"} THEN BallotChoices \ (CoherentChoices(outcome) \cup {"ABSTAIN"}) ELSE {}

Classify(revealed, choice, outcome) ==
  CASE ~revealed -> "absent"
    [] revealed /\ choice = "ABSTAIN" -> "abstained"
    [] revealed /\ choice \in CoherentChoices(outcome) -> "coherent"
    [] revealed /\ choice \in IncoherentChoices(outcome) -> "incoherent"
    [] OTHER -> "exempt"

\* Rates are absent, abstained and incoherent, in basis points.
Penalty(weight, class, rates) ==
  IF class \in DOMAIN rates THEN MulDiv(weight, rates[class], Bps) ELSE 0

CoherentWeight(w, outcome) == WeightOf(w, CoherentChoices(outcome))

\* What the penalties of a decided ballot add up to, computed from the ballot alone.
ExpectedPenaltyPool(w, outcome, obligated, rates) ==
  LET absent == IF obligated > Total(w) THEN obligated - Total(w) ELSE 0
  IN MulDiv(absent, rates.absent, Bps) + MulDiv(w["ABSTAIN"], rates.abstained, Bps)
       + MulDiv(WeightOf(w, IncoherentChoices(outcome)), rates.incoherent, Bps)

RewardShare(pool, weight, coherentWeight) ==
  IF coherentWeight <= 0 \/ weight <= 0 \/ pool <= 0 THEN 0
  ELSE MulDiv(pool, IF weight > coherentWeight THEN coherentWeight ELSE weight, coherentWeight)

=============================================================================
