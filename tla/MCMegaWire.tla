----------------------------- MODULE MCMegaWire -----------------------------
(* TLC's instance of MegaWire. *)
EXTENDS MegaWire
=============================================================================
