-------------------------- MODULE MCPoolReservation --------------------------
(***************************************************************************)
(* Instances of PoolReservation for TLC.                                   *)
(***************************************************************************)
EXTENDS PoolReservation, TLC

\* The slots of a pool are interchangeable.
AnyClient == Permutations(Clients)
=============================================================================
