------------------------------- MODULE Sources -------------------------------
(***************************************************************************)
(* From the answers of a feed's sources to the value an agent submits      *)
(* (src/agent/adapters.go, value.go and the first half of submit in        *)
(* agent.go).                                                              *)
(*                                                                         *)
(* A number is a fraction [num, den] with den > 0; NoNum has den = 0.  A   *)
(* source answers with a text, which is a label and, when it parses as a   *)
(* number, a fraction too; or it does not answer (Silent): no connection,  *)
(* a status other than 2xx, a missing path, an empty file, a failed        *)
(* command, a time-out.                                                    *)
(***************************************************************************)
EXTENDS Integers, SequencesExt

CONSTANT IntMax      \* the largest integer of a feed's representation (2^63 - 1)

NoNum == [num |-> 0, den |-> 0]
Silent == [label |-> "", num |-> NoNum]
Failed == [err |-> TRUE, label |-> "", num |-> NoNum]

Abs(x) == IF x < 0 THEN -x ELSE x
Below(a, b) == a.num * b.den < b.num * a.den
Times(a, b) == [num |-> a.num * b.num, den |-> a.den * b.den]

-----------------------------------------------------------------------------
(* Adapters: what an answer counts as. *)

ParseNumberOrLabel(text) == [err |-> FALSE, label |-> text.label, num |-> text.num]

\* One URL of the http adapter; scale is 1 when none is configured.
FromURL(text, scale) ==
  IF text = Silent THEN Failed
  ELSE LET s == ParseNumberOrLabel(text) IN IF s.num = NoNum THEN s ELSE [s EXCEPT !.num = Times(@, scale)]

\* The command of the exec adapter, and the file of the file adapter.
FromText(text) == IF text = Silent THEN Failed ELSE ParseNumberOrLabel(text)

\* A query of a realm: a number has no label, so it never counts on a categorical feed.
FromQEval(text, unit) ==
  IF text = Silent THEN Failed
  ELSE IF text.num = NoNum THEN ParseNumberOrLabel(text)
  ELSE [err |-> FALSE, label |-> "", num |-> Times(text.num, unit)]

\* The mean tick of a pool, as a price: anything but a number is an error.
FromPool(text) ==
  IF text.num = NoNum THEN Failed ELSE [err |-> FALSE, label |-> "", num |-> text.num]

\* What config c makes of the answers of its sources; all but http have one source.
Fetch(c, texts) ==
  CASE c.adapter = "http" -> [i \in DOMAIN texts |-> FromURL(texts[i], c.scale)]
    [] c.adapter \in {"exec", "file"} -> <<FromText(texts[1])>>
    [] c.adapter = "qeval" -> <<FromQEval(texts[1], c.scale)>>
    [] c.adapter = "gnoswap" -> <<FromPool(texts[1])>>

\* A configuration the agent starts with: it has a source, and no more are required.
Runnable(c, urls) == urls > 0 /\ (c.adapter = "http" => c.minSources <= urls)

\* The configured floor, else a majority of the URLs.
MinSources(c, urls) ==
  IF c.adapter # "http" THEN 1 ELSE IF c.minSources > 0 THEN c.minSources ELSE urls \div 2 + 1

-----------------------------------------------------------------------------
(* One value out of many answers. *)

NoValue == [ok |-> FALSE, label |-> "", num |-> NoNum]

AggregateNumbers(samples, minSources) ==
  LET vals == SelectSeq(samples, LAMBDA s : ~s.err /\ s.num # NoNum) IN
  IF Len(vals) < minSources THEN NoValue
  ELSE [ok |-> TRUE, label |-> "",
        num |-> SortSeq(vals, LAMBDA a, b : Below(a.num, b.num))[(Len(vals) - 1) \div 2 + 1].num]

\* Mutant: a tie for second place is held against the winner.
TallyStickyTie(acc, label, n) ==
  IF n > acc.n THEN [acc EXCEPT !.label = label, !.n = n]
  ELSE IF n = acc.n THEN [acc EXCEPT !.tie = TRUE] ELSE acc

\* One label of the pass over the counts, with n votes.
Tally(acc, label, n) ==
  IF n > acc.n THEN [label |-> label, n |-> n, tie |-> FALSE]
  ELSE IF n = acc.n THEN [acc EXCEPT !.tie = TRUE] ELSE acc

\* order is the order in which the map of counts is walked, which Go leaves open.
AggregateLabels(samples, minSources, order) ==
  LET votes == SelectSeq(samples, LAMBDA s : ~s.err /\ s.label # "")
      count(l) == Len(SelectSeq(votes, LAMBDA s : s.label = l))
      cast == SelectSeq(order, LAMBDA l : count(l) > 0)
      best == FoldLeft(LAMBDA acc, l : Tally(acc, l, count(l)), [label |-> "", n |-> 0, tie |-> FALSE], cast)
  IN IF Len(votes) < minSources \/ best.tie THEN NoValue
     ELSE [ok |-> TRUE, label |-> best.label, num |-> NoNum]

-----------------------------------------------------------------------------
(* The value as the feed's integer. *)

Pow10(n) == IF n = 0 THEN 1 ELSE IF n = 1 THEN 10 ELSE 100

Unfit == [ok |-> FALSE, value |-> 0]

\* Half away from zero; it must fit the width.
ScaleToInt(v, decimals) ==
  LET num == Abs(v.num) * Pow10(decimals)
      twice == 2 * num
      q == twice \div (2 * v.den)
      r == twice % (2 * v.den)
      rounded == IF r >= v.den THEN q + 1 ELSE q
      signed == IF v.num < 0 THEN -rounded ELSE rounded
  IN IF signed > IntMax \/ signed < -IntMax - 1 THEN Unfit ELSE [ok |-> TRUE, value |-> signed]

WithinBps(v, ref, bps) == IF ref = 0 THEN v = 0 ELSE Abs(v - ref) * 10000 <= Abs(ref) * bps

\* A label, after the mapping, is an option by its name, or by its index; texts are compared
\* without case, which folded stands for.
OptionIndex(c, label) ==
  LET l == IF label \in DOMAIN c.mapping THEN c.mapping[label] ELSE label
      named == { i \in DOMAIN c.options : c.folded[c.options[i]] = c.folded[l] }
  IN IF named # {} THEN [ok |-> TRUE, value |-> (CHOOSE i \in named : \A j \in named : i <= j) - 1]
     ELSE IF l \in DOMAIN c.index /\ c.index[l] \in 0 .. Len(c.options) - 1
     THEN [ok |-> TRUE, value |-> c.index[l]] ELSE Unfit

\* The reference a fresh value is held against: the public value, unless the agent's own last
\* one is for a later round than that value comes from.
SanityRef(st, f) ==
  IF f.haveValue /\ (~st.hasValue \/ f.lastRound >= st.valueRound) THEN [have |-> TRUE, ref |-> f.value]
  ELSE [have |-> st.hasValue, ref |-> st.lastValue]

\* The deviation allowed: 2000 when none is configured, no limit when it is negative.
SanityBps(c) == IF c.sanityBps = 0 THEN 2000 ELSE IF c.sanityBps < 0 THEN 0 ELSE c.sanityBps

Sane(c, st, f, v) ==
  LET ref == SanityRef(st, f) IN
  SanityBps(c) = 0 \/ c.override \/ ~ref.have \/ WithinBps(v, ref.ref, SanityBps(c))

-----------------------------------------------------------------------------

OutOfBounds(c, v) == (c.min # NoNum /\ Below(v, c.min)) \/ (c.max # NoNum /\ Below(c.max, v))

\* What submit makes of the answers: a value to send, a wait for an answer, or a refusal.
Verdict(c, st, f, texts, order) ==
  LET samples == Fetch(c, texts)
      floor == MinSources(c, Len(texts))
      agg == IF c.numeric THEN AggregateNumbers(samples, floor) ELSE AggregateLabels(samples, floor, order)
      scaled == IF c.numeric THEN ScaleToInt(agg.num, c.decimals) ELSE OptionIndex(c, agg.label)
  IN IF ~agg.ok THEN [kind |-> "wait", value |-> 0]
     ELSE IF c.numeric /\ OutOfBounds(c, agg.num) THEN [kind |-> "refuse", value |-> 0]
     ELSE IF ~scaled.ok THEN [kind |-> "refuse", value |-> 0]
     ELSE IF c.numeric /\ ~Sane(c, st, f, scaled.value) THEN [kind |-> "refuse", value |-> 0]
     ELSE [kind |-> "send", value |-> scaled.value]

=============================================================================
