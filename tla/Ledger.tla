------------------------------- MODULE Ledger -------------------------------
(***************************************************************************)
(* Sharing coins by stake: package p/clockwork/gnoracle/ledger.            *)
(*                                                                         *)
(* An accumulator says how much every share has earned so far, times       *)
(* Scale; a position owes the difference to what it was settled at.  The   *)
(* package computes products in 128 bits, so they are exact here too.  The *)
(* queue of unbonding entries, which no realm uses, is left out.           *)
(***************************************************************************)
EXTENDS Integers

CONSTANTS
  Scale,          \* the fixed-point scale of accPerShare
  MaxAccPerShare  \* an increase beyond this waits in carry

ASSUME LedgerAssumption == Scale \in Nat \ {0} /\ MaxAccPerShare \in Nat

NoFees == [accPerShare |-> 0, totalShares |-> 0, carry |-> 0, paidOut |-> 0, received |-> 0]
NoPosition == [shares |-> 0, debt |-> 0, pending |-> 0]

\* Shares amount and the carry among all shares; what does not divide, or would pass the
\* cap, stays in carry.
Bump(a, amount) ==
  LET total == a.carry + amount
      inc == (total * Scale) \div a.totalShares
      got == [a EXCEPT !.received = @ + amount, !.carry = total]
  IN IF a.totalShares = 0 \/ total = 0 THEN got
     ELSE IF a.accPerShare + inc > MaxAccPerShare THEN got
     ELSE [got EXCEPT !.accPerShare = @ + inc, !.carry = total - (inc * a.totalShares) \div Scale]

\* What a position's shares have earned since shares were first given out.
Debt(a, shares) == (shares * a.accPerShare) \div Scale

\* What a settlement would credit now.
Earned(a, p) == IF Debt(a, p.shares) > p.debt THEN Debt(a, p.shares) - p.debt ELSE 0

Owed(a, p) == p.pending + Earned(a, p)

SettledPosition(a, p) == [p EXCEPT !.pending = Owed(a, p), !.debt = Debt(a, p.shares)]

PaidTo(a, p) == [a EXCEPT !.paidOut = @ + Earned(a, p)]

\* Mutant: the debt of the new shares is not taken up.
HoldingKeepingDebt(a, p, shares) == [SettledPosition(a, p) EXCEPT !.shares = shares]

\* A position that comes to hold shares: settled first, then owing from here on.
Holding(a, p, shares) == [SettledPosition(a, p) EXCEPT !.shares = shares, !.debt = Debt(a, shares)]

\* Deposit and Withdraw, as seen by the accumulator.
Rebased(a, p, shares) == [PaidTo(a, p) EXCEPT !.totalShares = @ + shares - p.shares]

Claimed(a, p) == [SettledPosition(a, p) EXCEPT !.pending = 0]

=============================================================================
