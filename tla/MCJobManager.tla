----------------------------- MODULE MCJobManager -----------------------------
(***************************************************************************)
(* Small instances of JobManager for TLC.                                  *)
(***************************************************************************)
EXTENDS JobManager, TLC

Symmetry == Permutations(Keys) \cup Permutations(Callers)
                \cup Permutations(Specs)
=============================================================================
