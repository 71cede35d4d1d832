------------------------------- MODULE Pacing -------------------------------
(***************************************************************************)
(* What holds a listing back before the server is asked for it: the        *)
(* cooldown and the breaker of backoff.rs, and the budget of the process   *)
(* that walkers.rs keeps.                                                  *)
(***************************************************************************)
EXTENDS Backoff, Walkers

PaceSpec == BackoffSpec /\ WalkSpec

----------------------------------------------------------------------------
\* Backing off ends with the errors that caused it, and a walking process gets
\* no more listings than its burst and rate.
HeldBackInMeasure == BackoffEnds /\ WalkerPaced
=============================================================================
