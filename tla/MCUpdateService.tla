--------------------------- MODULE MCUpdateService ---------------------------
(* Model values and symmetry for the runs of UpdateService. *)
EXTENDS UpdateService, TLC

CallerSymmetry == Permutations(Callers)
=============================================================================
