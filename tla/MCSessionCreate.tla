---------------------------- MODULE MCSessionCreate ----------------------------
(***************************************************************************)
(* Small instances of SessionCreate for TLC.                               *)
(***************************************************************************)
EXTENDS SessionCreate, TLC

Symmetry == Permutations(Callers) \cup Permutations(Deleters) \cup Permutations(Specs)
=============================================================================
