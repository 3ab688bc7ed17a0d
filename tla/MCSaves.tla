------------------------------ MODULE MCSaves ------------------------------
(* Saves on a small table; the values are in the .cfg files.                *)
EXTENDS Saves
=============================================================================
