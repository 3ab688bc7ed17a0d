----------------------------- MODULE MCJobRing -----------------------------
(* JobRing with a small ring; the size is in the .cfg files.                *)
EXTENDS JobRing

\* What an emptied slot still holds is read by nobody: states that differ in it
\* alone are one.
LiveSlots == <<wr, rd, Queued, bit14, step, sess, zoom, game>>
=============================================================================
