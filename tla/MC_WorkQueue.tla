---------------------------- MODULE MC_WorkQueue ----------------------------
(* Instantiation of WorkQueue for TLC: two workers, the main loop and one  *)
(* other event loop as clients, three entries.                            *)
EXTENDS WorkQueue

CONSTANTS m, l, a, b, c

MCClients == {m, l}
MCItems == {a, b, c}
MCItemsTwo == {a, b}
MCOwner == (a :> m) @@ (b :> m) @@ (c :> l)
MCPrios == {0, 1}
MCRepliesOnly == {"Reply"}
==============================================================================
