---------------------------- MODULE MC_EventQueue ----------------------------
(* Instantiation of EventQueue for TLC: two labels, one coalescing (like   *)
(* link_protocol_version), two listeners.                                  *)
EXTENDS EventQueue

CONSTANTS A, B, l1, l2

MCLabels == {A, B}
MCCoalescing == {A}
MCListeners == {l1, l2}
MCIterChoices == {-1, 1}
MCUncapped == {-1}
MCCapped == {1}
==============================================================================
