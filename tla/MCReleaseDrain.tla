---------------------------- MODULE MCReleaseDrain ----------------------------
(***************************************************************************)
(* Small instances of ReleaseDrain for TLC.                                *)
(***************************************************************************)
EXTENDS ReleaseDrain
=============================================================================
