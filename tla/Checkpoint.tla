----------------------------- MODULE Checkpoint -----------------------------
(***************************************************************************)
(* What an amount was at every past epoch: package                         *)
(* p/clockwork/gnoracle/checkpoint.                                        *)
(*                                                                         *)
(* A series keeps its two newest points inline and the rest in an archive  *)
(* (a B+ tree keyed by epoch; here a function).  Epoch 0 marks a point     *)
(* that is not there.  A write of the past panics: CanSetAt.  Trimming,    *)
(* which no realm calls, is left out.                                      *)
(***************************************************************************)
EXTENDS Integers

NoPoints == [curE |-> 0, cur |-> 0, prevE |-> 0, prev |-> 0, older |-> << >>]

CanSetAt(s, e) == e >= 1 /\ e >= s.curE

\* The value v as of epoch e: overwrites the newest point of the same epoch, else shifts the
\* two inline points towards the archive.
SetAt(s, e, v) ==
  IF e = s.curE \/ s.curE = 0 THEN [s EXCEPT !.curE = e, !.cur = v]
  ELSE [curE |-> e, cur |-> v, prevE |-> s.curE, prev |-> s.cur,
        older |-> IF s.prevE = 0 THEN s.older
                  ELSE [x \in DOMAIN s.older \cup {s.prevE} |-> IF x = s.prevE THEN s.prev ELSE s.older[x]]]

\* The archived epochs at or before e (ReverseIterate's range includes its upper end).
ArchivedTo(s, e) == { x \in DOMAIN s.older : x <= e }

Newest(E) == CHOOSE x \in E : \A y \in E : y <= x

ValueAt(s, e) ==
  IF s.curE # 0 /\ e >= s.curE THEN s.cur
  ELSE IF s.prevE # 0 /\ e >= s.prevE THEN s.prev
  ELSE IF ArchivedTo(s, e) = {} THEN 0
  ELSE s.older[Newest(ArchivedTo(s, e))]

-----------------------------------------------------------------------------
(* A book: a series per key, and one for their total.                        *)

EmptyBook(Keys) == [series |-> [k \in Keys |-> NoPoints], total |-> NoPoints]

CanSet(b, k, e, v) == v >= 0 /\ CanSetAt(b.series[k], e) /\ CanSetAt(b.total, e)

\* Mutant: the total takes the new value without giving up the old one.
BookSetAdding(b, k, e, v) ==
  [b EXCEPT !.series[k] = SetAt(@, e, v), !.total = SetAt(@, e, b.total.cur + v)]

BookSet(b, k, e, v) ==
  [b EXCEPT !.series[k] = SetAt(@, e, v), !.total = SetAt(@, e, b.total.cur - b.series[k].cur + v)]

=============================================================================
