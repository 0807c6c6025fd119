------------------------------ MODULE MCRounds ------------------------------
(* A recurring feed with its provider set in motion: providers register,    *)
(* submit, leave, are jailed and return while anyone cranks the rounds,     *)
(* on time or late.                                                         *)
EXTENDS MCCore

\* No coin moves but the stakes, so that the seating is explored deeply.
RoundsSpec == [BaseSpec EXCEPT !.interval = 1, !.submitWindow = 1, !.subscriptionPrice = 1]
RoundsParam == [BaseParam EXCEPT !.unbondPeriod = 3, !.missSlashBps = 0, !.jailAfterMisses = 1]

RoundsInit == JoinedInit(1)
RoundsNext == Tick \/ ProviderOps \/ RoundOps

SpecRounds == RoundsInit /\ [][RoundsNext]_vars

=============================================================================
