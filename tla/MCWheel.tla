------------------------------ MODULE MCWheel ------------------------------
(* Wheel on a small clock; the bounds are in the .cfg file.                 *)
EXTENDS Wheel
=============================================================================
