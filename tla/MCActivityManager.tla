-------------------------- MODULE MCActivityManager --------------------------
(* ActivityManager for TLC. *)
EXTENDS ActivityManager, TLC

(* Activity objects are interchangeable; used by the runs without liveness. *)
ActivitySymmetry == Permutations(Activities)

=============================================================================
