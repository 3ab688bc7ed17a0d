---------------------------- MODULE MCBrainCall ----------------------------
(* TLC's instances of BrainCall. *)
EXTENDS BrainCall
=============================================================================
