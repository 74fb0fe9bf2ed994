---------------------------- MODULE MCTransCache ----------------------------
(* Three maps that share two positions, and a trial counter that wraps     *)
(* after a few invalidations.                                              *)
EXTENDS TransCache

MCKeys == 0 .. 2
MCSlot(key) == key % 2

=============================================================================
