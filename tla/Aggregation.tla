----------------------------- MODULE Aggregation -----------------------------
(***************************************************************************)
(* How the submissions of one round become a value, the set of eligible    *)
(* slots and a tier: package p/clockwork/gnoracle/agg, and the two         *)
(* fixed-point multiplications of the money code.                          *)
(*                                                                         *)
(* Submissions are a function from the slots that submitted to values; a   *)
(* slot mask is a set of slots.  The package compares 128-bit products, so *)
(* its comparisons are exact, as they are here.                            *)
(***************************************************************************)
EXTENDS Integers, FiniteSets

Bps == 10000

\* Mutant: equal submissions count once.
DistinctMedian(subs) ==
  LET named == { subs[s] : s \in DOMAIN subs }
      mid == (Cardinality(named) - 1) \div 2
  IN CHOOSE v \in named : Cardinality({ x \in named : x < v }) = mid

\* The element at index (n-1)/2 of the sorted submissions, stated by rank.
LowerMedian(subs) ==
  LET mid == (Cardinality(DOMAIN subs) - 1) \div 2 IN
  CHOOSE v \in { subs[s] : s \in DOMAIN subs } :
    /\ Cardinality({ s \in DOMAIN subs : subs[s] < v }) <= mid
    /\ Cardinality({ s \in DOMAIN subs : subs[s] <= v }) > mid

AbsDiff(a, b) == IF a >= b THEN a - b ELSE b - a
Abs(a) == AbsDiff(a, 0)

WithinTolerance(v, ref, toleranceBps) ==
  IF ref = 0 THEN v = 0
  ELSE AbsDiff(v, ref) * Bps <= Abs(ref) * toleranceBps

EligibleNumeric(subs, median, toleranceBps) ==
  { s \in DOMAIN subs : WithinTolerance(subs[s], median, toleranceBps) }

Votes(subs, option) == Cardinality({ s \in DOMAIN subs : subs[s] = option })

\* The options with the most votes; the round has a winner only if one leads.
Leaders(subs, options) ==
  { o \in options : Votes(subs, o) > 0 /\ \A q \in options : Votes(subs, q) <= Votes(subs, o) }

HasWinner(subs, options) == Cardinality(Leaders(subs, options)) = 1

\* The first of the leading options.
Plurality(subs, options) ==
  CHOOSE o \in Leaders(subs, options) : \A q \in Leaders(subs, options) : o <= q

EligibleCategorical(subs, winner) == { s \in DOMAIN subs : subs[s] = winner }

\* in: eligible, active, minProviders, value, lastFinal, haveLast, quarantineBps, categorical
DecideTier(in) ==
  CASE in.eligible < in.minProviders -> "empty"
    [] /\ in.eligible >= in.minProviders
       /\ \/ 3 * in.eligible < 2 * in.active
          \/ /\ ~in.categorical /\ in.haveLast
             /\ ~WithinTolerance(in.value, in.lastFinal, in.quarantineBps) -> "provisional"
    [] OTHER -> "consensus"

\* floor(a * bps / 10000) without the product, the way core computes it.
MulBps(a, bps) == (a \div Bps) * bps + ((a % Bps) * bps) \div Bps

\* floor(a * b / d), the way agg and ledger compute it (128-bit intermediate).
MulDiv(a, b, d) == (a * b) \div d

=============================================================================
