------------------------- MODULE MC_ThroughputRing -------------------------
(* Two workers, a 3-bit counter, and a clock of three 500 ms windows read  *)
(* every 250 ms; a growth adds two windows of room.                       *)
EXTENDS ThroughputRing

MCBytes == {1, 6}
=============================================================================
