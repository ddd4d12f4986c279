---------------------------- MODULE MCTimeWheel ----------------------------
(* A three-level wheel of 3, 2 and 2 slots: level ticks 1, 3 and 6, span 12. *)
EXTENDS TimeWheel

MCSlots == <<3, 2, 2>>
=============================================================================
