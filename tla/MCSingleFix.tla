---------------------------- MODULE MCSingleFix ----------------------------
(* Model values and symmetry for the runs of SingleFix. *)
EXTENDS SingleFix, TLC

ClientSymmetry == Permutations(Clients)
=============================================================================
