-------------------------- MODULE MCOwnershipLease --------------------------
(***************************************************************************)
(* The lease in ticks: the proportions of the code's limits are kept       *)
(* (renewal < lease age < retention) at a scale a checker can cover.       *)
(***************************************************************************)
EXTENDS OwnershipLease

MCNoSteps == {}
MCBack == {-5}
MCBackLong == {-16}
=============================================================================
