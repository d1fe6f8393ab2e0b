----------------------------- MODULE MC_EventLoops -----------------------------
(* Instantiation of EventLoops for TLC: the main loop with two plain        *)
(* mainloop events (two, so that they can keep each other going) and a     *)
(* post-loop one, one additional loop with a periodic timer.               *)
EXTENDS EventLoops

MCUserKinds == [l \in 0 .. 1 |-> IF l = 0 THEN {"mev1", "mev2", "post"}
                                          ELSE {"timer"}]
==============================================================================
