--------------------------- MODULE MC_DelayChain ---------------------------
(* Two delay commands: the lowest, whose scale factor is 0, and one above *)
(* it.                                                                    *)
EXTENDS DelayChain

CONSTANTS d0, d1

MCDelayCommands == {d0, d1}
=============================================================================
