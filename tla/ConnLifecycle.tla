---------------------------- MODULE ConnLifecycle ----------------------------
(***************************************************************************)
(* What an OR connection promises its upstream (spec.md 4.5 and 5): its    *)
(* state moves only along the table of 4.5, never leaves Closed, and every *)
(* move is announced by exactly one state event, in the order the moves    *)
(* happen.  Staying in a state (a TLS want, a new link protocol, a cell)   *)
(* announces nothing.                                                      *)
(***************************************************************************)
EXTENDS Sequences

VARIABLES
    st,         \* the connection's state
    announced   \* the state events published so far, in order

States == {"NoSocket", "TcpConnecting", "TlsHandshaking", "LinkHandshaking",
           "Open", "Closed"}

\* The forward moves of the table; any state but Closed may also close.
Forward == {<<"NoSocket", "TcpConnecting">>, <<"TcpConnecting", "TlsHandshaking">>,
            <<"TlsHandshaking", "LinkHandshaking">>, <<"LinkHandshaking", "Open">>}

CanMove(from, to) ==
    from # "Closed" /\ (<<from, to>> \in Forward \/ to = "Closed")

\* The label of the event announcing a move into a state.
EventOf(s) ==
    CASE s = "TcpConnecting"   -> "tcp_connecting"
      [] s = "TlsHandshaking"  -> "tls_handshaking"
      [] s = "LinkHandshaking" -> "link_handshaking"
      [] s = "Open"            -> "open"
      [] OTHER                 -> "closed"

Init == st = "NoSocket" /\ announced = <<>>

Move(to) ==
    /\ CanMove(st, to)
    /\ st' = to
    /\ announced' = Append(announced, EventOf(to))

Next == \E to \in States : Move(to)

Spec == Init /\ [][Next]_<<st, announced>>
==============================================================================
