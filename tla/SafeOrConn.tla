------------------------------ MODULE SafeOrConn ------------------------------
(***************************************************************************)
(* One safe OR connection of src/tor/src/core/or/safe_connection.c running *)
(* on its own event loop, composed with the main-thread side that drives it *)
(* through events (the "upstream": connection_or.c and channeltls.c) and    *)
(* with the peer at the other end of the TLS stream.                        *)
(*                                                                         *)
(* Every handler of the connection (libevent read/write callbacks, the     *)
(* four listener callbacks, set_socket, register_events) is one action.    *)
(* Its body is a pure operator on the record Cur of all variables, written *)
(* in the order the C code runs, and the action assigns the result.        *)
(* Libraries outside the repository (TLS, token bucket, cell codec) are    *)
(* nondeterministic choices over the outcomes they can return.             *)
(*                                                                         *)
(* Data abstraction: the peer's byte stream is PeerCells, each cell two    *)
(* halves, so "recv" and "used" count halves moved into and framed out of  *)
(* the inbuf; outbuf and bucket credit count the same halves.  A cell is   *)
(* framed intact iff the decoder uses the circuit-id width the peer        *)
(* encoded it with; a width mismatch shifts every later boundary.          *)
(***************************************************************************)
EXTENDS Naturals, Sequences, FiniteSets

CONSTANTS
    PeerVersions,    \* link protocol versions listed in the peer's VERSIONS cell
    PeerCells,       \* commands of the cells the peer sends after TLS, in order
    MaxOutCells,     \* bound on the cells the upstream hands to the connection
    Rate,            \* token bucket rate per tick (safe_or_connection_new: 1)
    Burst,           \* token bucket burst (safe_or_connection_new: 1)
    EmptyOutbufWantWrite, \* may TLS report WANTWRITE on a read while outbuf is empty
    MaxStalls        \* bound on TCP/TLS results that make no progress

ASSUME /\ PeerCells \in Seq({"VERSIONS", "CERTS", "AUTH_CHALLENGE", "NETINFO", "RELAY"})
       /\ Len(PeerCells) > 0 /\ PeerCells[1] = "VERSIONS"
       /\ PeerVersions \subseteq 1..5
       /\ MaxOutCells \in Nat /\ Rate \in Nat \ {0} /\ Burst \in Nat \ {0}
       /\ EmptyOutbufWantWrite \in BOOLEAN /\ MaxStalls \in Nat

States == {"NoSocket", "TcpConnecting", "TlsHandshaking", "LinkHandshaking",
           "Open", "Closed"}

\* Commands for which cell_command_is_var_length holds at link protocol 0
\* and >= 3 (CELL_VERSIONS and the commands >= 128).
VarCommands == {"VERSIONS", "CERTS", "AUTH_CHALLENGE"}

\* TOR_TLS_CLOSE, TOR_TLS_ERROR_IO and the non-IO errors: all return E_ERROR.
TlsFailures == {"close", "error"}
TlsOutcomes == {"done", "wantread", "wantwrite"} \cup TlsFailures

CellHalves == 2
WireLen == CellHalves * Len(PeerCells)
OutMax == CellHalves * MaxOutCells

MinOf(a, b) == IF a < b THEN a ELSE b
Monus(a, b) == IF a > b THEN a - b ELSE 0

\* The versions or_protocol knows (is_or_protocol_version_known).
KnownVersions == 1..5

\* channel_tls_process_versions_cell: the highest version both sides know,
\* 0 when there is none.
HighestSupported ==
    IF PeerVersions \cap KnownVersions = {} THEN 0
    ELSE CHOOSE v \in PeerVersions \cap KnownVersions :
             \A w \in PeerVersions \cap KnownVersions : w <= v

\* The peer frames every cell after its VERSIONS cell with the negotiated
\* protocol: 4-byte circuit ids iff the version is at least
\* MIN_LINK_PROTO_FOR_WIDE_CIRC_IDS (4).  VERSIONS itself has 2-byte ids.
PeerWide(cmd) == cmd # "VERSIONS" /\ HighestSupported >= 4

VARIABLES
    state,        \* safe_or_conn->state
    sock,         \* "none", "open" or "closed": the socket of safe_conn
    tls,          \* safe_or_conn->tls # NULL
    torRead, torWrite, tlsRead, tlsWrite, bucketRead, bucketWrite,
                  \* the six socket_rw_state_t flags
    events,       \* read_event and write_event exist (registered)
    readActive,   \* read_event activated by event_active and not yet run
    linkProto,    \* safe_or_conn->link_protocol
    wideCircIds,  \* safe_or_conn->wide_circ_ids
    waiting,      \* safe_or_conn->waiting_for_link_protocol
    recv,         \* halves of the peer's stream moved into the inbuf
    used,         \* halves of the inbuf consumed by the framer
    desync,       \* the framer has lost the peer's cell boundaries
    outbuf,       \* halves in the outbuf
    rdCredit, wrCredit, \* token bucket credit
    elapsed,      \* ticks since the bucket was last refilled (saturates at Burst)
    crash,        \* "none", or the tor_assert that aborted the process
    cl,           \* the connection's event listener (EventListener record)
    ul,           \* the upstream's listener of the connection's events
    pub,          \* every event the connection published, in order
    up,           \* state of the upstream (connection_or / channeltls side)
    stalls        \* stalls the network may still produce

vars == <<state, sock, tls, torRead, torWrite, tlsRead, tlsWrite, bucketRead,
          bucketWrite, events, readActive, linkProto, wideCircIds, waiting,
          recv, used, desync, outbuf, rdCredit, wrCredit, elapsed, crash,
          cl, ul, pub, up, stalls>>

EL == INSTANCE EventListener

Cur == [state |-> state, sock |-> sock, tls |-> tls, torRead |-> torRead,
        torWrite |-> torWrite, tlsRead |-> tlsRead, tlsWrite |-> tlsWrite,
        bucketRead |-> bucketRead, bucketWrite |-> bucketWrite,
        events |-> events, readActive |-> readActive, linkProto |-> linkProto,
        wideCircIds |-> wideCircIds, waiting |-> waiting, recv |-> recv,
        used |-> used, desync |-> desync, outbuf |-> outbuf,
        rdCredit |-> rdCredit, wrCredit |-> wrCredit, elapsed |-> elapsed,
        crash |-> crash, cl |-> cl, ul |-> ul, pub |-> pub, up |-> up,
        stalls |-> stalls]

Assign(s) ==
    /\ state' = s.state /\ sock' = s.sock /\ tls' = s.tls
    /\ torRead' = s.torRead /\ torWrite' = s.torWrite
    /\ tlsRead' = s.tlsRead /\ tlsWrite' = s.tlsWrite
    /\ bucketRead' = s.bucketRead /\ bucketWrite' = s.bucketWrite
    /\ events' = s.events /\ readActive' = s.readActive
    /\ linkProto' = s.linkProto /\ wideCircIds' = s.wideCircIds
    /\ waiting' = s.waiting /\ recv' = s.recv /\ used' = s.used
    /\ desync' = s.desync /\ outbuf' = s.outbuf
    /\ rdCredit' = s.rdCredit /\ wrCredit' = s.wrCredit
    /\ elapsed' = s.elapsed /\ crash' = s.crash
    /\ cl' = s.cl /\ ul' = s.ul /\ pub' = s.pub /\ up' = s.up
    /\ stalls' = s.stalls

-----------------------------------------------------------------------------
(* The gates.  Registration is derived: socket_rw_state_set calls          *)
(* safe_connection_refresh_events on every change, which adds an event    *)
(* iff permission (never withdrawn in this repository) and want hold.      *)

is_read_wanted(s) == s.tlsRead \/ (s.torRead /\ s.bucketRead)

is_write_wanted(s) == s.tlsWrite \/ (s.torWrite /\ s.bucketWrite)

ReadRegistered(s) == s.events /\ is_read_wanted(s)

WriteRegistered(s) == s.events /\ is_write_wanted(s)

Crash(s, what) == IF s.crash = "none" THEN [s EXCEPT !.crash = what] ELSE s

\* event_source_publish on the connection's source.  The upstream listener
\* is subscribed to every label; cell events are delivered silently.
Publish(s, ev) ==
    [s EXCEPT !.pub = Append(@, ev),
              !.ul = EL!Receive(@, ev, ev.label \notin {"var_cell", "fixed_cell"}, {})]

\* safe_or_connection_refresh_bucket_rw_states
RefreshBucketStates(s) ==
    [s EXCEPT !.bucketRead = s.rdCredit > 0, !.bucketWrite = s.wrCredit > 0]

\* Mutant: the refill forgets the burst cap.
RefillBucketsUncapped(s) ==
    RefreshBucketStates(
        [s EXCEPT !.rdCredit = @ + Rate * s.elapsed,
                  !.wrCredit = @ + Rate * s.elapsed, !.elapsed = 0])

\* safe_or_connection_refill_buckets: token_bucket_rw_refill adds the credit
\* earned since the last refill, up to the burst.
RefillBuckets(s) ==
    RefreshBucketStates(
        [s EXCEPT !.rdCredit = MinOf(Burst, @ + Rate * s.elapsed),
                  !.wrCredit = MinOf(Burst, @ + Rate * s.elapsed),
                  !.elapsed = 0])

\* safe_or_connection_decrement_buckets
DecrementBuckets(s, nread, nwritten, useConnBuckets) ==
    RefreshBucketStates(
        IF useConnBuckets
        THEN [s EXCEPT !.rdCredit = Monus(@, nread), !.wrCredit = Monus(@, nwritten)]
        ELSE s)

-----------------------------------------------------------------------------
(* safe_or_connection_update_state, one operator per target state.  Each   *)
(* sets the four want flags, publishes the state event and only then       *)
(* stores the new state; leaving CLOSED is tor_assert(0).                   *)

StateEv(label) == [label |-> label, cmd |-> "none", ok |-> TRUE]

Enter(s, new) ==
    IF s.state = "Closed" /\ new # "Closed"
    THEN Crash(s, "update_state_from_closed")
    ELSE [s EXCEPT !.state = new]

SetWants(s, tr, tw, lr, lw) ==
    [s EXCEPT !.torRead = tr, !.torWrite = tw, !.tlsRead = lr, !.tlsWrite = lw]

ToTcpConnecting(s) ==
    Enter(Publish(SetWants(s, FALSE, FALSE, FALSE, TRUE),
                  StateEv("tcp_connecting")), "TcpConnecting")

\* The early E_ERROR returns of the TLS_HANDSHAKING case; tlsNewOk is
\* whether tor_tls_new succeeds.
TlsHandshakingFails(s, tlsNewOk) == s.tls \/ s.sock # "open" \/ ~tlsNewOk

ToTlsHandshaking(s) ==
    Enter(Publish(SetWants([s EXCEPT !.tls = TRUE], FALSE, FALSE, TRUE, TRUE),
                  StateEv("tls_handshaking")), "TlsHandshaking")

ToLinkHandshaking(s) ==
    Enter(Publish(SetWants(s, TRUE, FALSE, FALSE, FALSE),
                  StateEv("link_handshaking")), "LinkHandshaking")

ToOpen(s) ==
    Enter(Publish(SetWants(s, TRUE, FALSE, FALSE, FALSE), StateEv("open")), "Open")

\* safe_connection_close_socket: free both events, detach the listener,
\* close the socket if it is valid.
CloseSocket(s) ==
    [s EXCEPT !.events = FALSE, !.readActive = FALSE, !.cl = EL!Detach(@),
              !.sock = IF @ = "open" THEN "closed" ELSE @]

\* Mutant: entering CLOSED keeps the TLS object.
ToClosedKeepTls(s) ==
    Enter(CloseSocket(Publish(SetWants(s, FALSE, FALSE, FALSE, FALSE),
                              StateEv("closed"))), "Closed")

\* Mutant: entering CLOSED tears down without publishing the closed event.
ToClosedNoEvent(s) ==
    Enter(CloseSocket([SetWants(s, FALSE, FALSE, FALSE, FALSE)
                       EXCEPT !.tls = FALSE]), "Closed")

ToClosed(s) ==
    Enter(CloseSocket([Publish(SetWants(s, FALSE, FALSE, FALSE, FALSE),
                               StateEv("closed"))
                       EXCEPT !.tls = FALSE]), "Closed")

-----------------------------------------------------------------------------
(* TCP and TLS steps, with the caller's "close on error".                  *)

\* safe_or_connection_check_tcp_connection: so is the SO_ERROR outcome.
CheckTcpConnection(s, so, tlsNewOk) ==
    CASE so = "error"                   -> ToClosed(s)
      [] so = "inprogress"              -> s
      [] TlsHandshakingFails(s, tlsNewOk) -> ToClosed(s)
      [] OTHER                          -> ToTlsHandshaking(s)

\* safe_or_connection_tls_handshake: r is what tor_tls_handshake returns.
TlsHandshake(s, r) ==
    CASE r \in TlsFailures -> ToClosed(s)
      [] r = "wantwrite"   -> [s EXCEPT !.tlsWrite = TRUE, !.tlsRead = FALSE]
      [] r = "wantread"    -> [s EXCEPT !.tlsRead = TRUE, !.tlsWrite = FALSE]
      [] ~s.tls            -> ToClosed(s)
      [] OTHER             -> ToLinkHandshaking(s)

\* safe_or_connection_read_encrypted (use_conn_buckets is always false for
\* reads, so the suggested size is never 0): k halves reach the inbuf even
\* when TLS then reports an error.
ReadEncrypted(s, r, k) ==
    LET s1 == [RefillBuckets(s) EXCEPT !.recv = @ + k]
        s2 == IF r = "wantwrite"
              THEN [s1 EXCEPT !.tlsWrite = TRUE, !.torRead = FALSE]
              ELSE s1
    IN IF r \in TlsFailures THEN s1 ELSE DecrementBuckets(s2, 0, 0, FALSE)

\* The bytes write_encrypted hands to write_tls: MIN of the outbuf and the
\* write credit after the refill (SIZE_MAX when buckets are not used).
WriteBudget(s, useConnBuckets) ==
    LET s1 == RefillBuckets(s)
    IN IF useConnBuckets THEN MinOf(s1.wrCredit, s1.outbuf) ELSE s1.outbuf

\* safe_or_connection_write_encrypted: j halves flushed with TLS result r.
WriteEncrypted(s, r, j, useConnBuckets) ==
    LET s1 == RefillBuckets(s)
        s2 == [s1 EXCEPT !.outbuf = @ - j]
        s3 == IF r = "wantread"
              THEN [s2 EXCEPT !.tlsRead = TRUE, !.torWrite = FALSE]
              ELSE s2
        s4 == IF s3.outbuf = 0 THEN [s3 EXCEPT !.torWrite = FALSE] ELSE s3
    IN CASE useConnBuckets /\ s1.wrCredit = 0 -> s1
         [] WriteBudget(s, useConnBuckets) = 0 -> Crash(s1, "write_tls_zero_bytes")
         [] r \in TlsFailures                  -> s2
         [] OTHER -> DecrementBuckets(s4, 0, j, useConnBuckets)

\* What buf_flush_to_tls can have flushed: everything on DONE, less on any
\* other result.
FlushOk(s, r, j, useConnBuckets) ==
    LET n == WriteBudget(s, useConnBuckets)
    IN IF n = 0 \/ r = "done" THEN j = n ELSE j < n

-----------------------------------------------------------------------------
(* process_cells_from_inbuf.  fetch_var_cell_from_buf reads a var-cell     *)
(* header with 4-byte circuit ids iff link_protocol >= 4; fetch_cell and   *)
(* cell_unpack use wide_circ_ids.  A VERSIONS cell seen while the link     *)
(* protocol is unknown stops the loop until the upstream has chosen one.   *)

CellLabels == {"var_cell", "fixed_cell"}

\* Mutant: the framer does not stop at the first VERSIONS cell.
FrameStepNoWait(s) ==
    IF s.recv - s.used < CellHalves THEN s
    ELSE LET cmd    == PeerCells[s.used \div CellHalves + 1]
             isVar  == cmd \in VarCommands
             wide   == IF isVar THEN s.linkProto >= 4 ELSE s.wideCircIds
             intact == ~s.desync /\ wide = PeerWide(cmd)
         IN Publish([s EXCEPT !.used = @ + CellHalves, !.desync = ~intact],
                    [label |-> IF isVar THEN "var_cell" ELSE "fixed_cell",
                     cmd |-> IF intact THEN cmd ELSE "GARBLED", ok |-> intact])

\* One iteration of the loop of process_cells_from_inbuf: fetch and publish
\* the next complete cell; the loop breaks on an incomplete cell and after
\* the first VERSIONS cell (waiting_for_link_protocol).
FrameStep(s) ==
    IF s.waiting \/ s.recv - s.used < CellHalves THEN s
    ELSE LET cmd    == PeerCells[s.used \div CellHalves + 1]
             isVar  == cmd \in VarCommands
             wide   == IF isVar THEN s.linkProto >= 4 ELSE s.wideCircIds
             intact == ~s.desync /\ wide = PeerWide(cmd)
             ev     == [label |-> IF isVar THEN "var_cell" ELSE "fixed_cell",
                        cmd |-> IF intact THEN cmd ELSE "GARBLED", ok |-> intact]
             s1     == Publish([s EXCEPT !.used = @ + CellHalves,
                                         !.desync = ~intact], ev)
         IN [s1 EXCEPT !.waiting = isVar /\ s.linkProto = 0 /\ ev.cmd = "VERSIONS"]

\* The loop runs at most once per cell of the peer's stream.  (Each
\* iteration is bound to a value through a singleton set so that TLC, which
\* does not cache operator arguments when evaluating ENABLED, computes the
\* previous iteration once.)
FrameCells(s) ==
    LET iter[i \in 0..Len(PeerCells)] ==
            IF i = 0 THEN s
            ELSE CHOOSE t \in {FrameStep(u) : u \in {iter[i - 1]}} : TRUE
    IN iter[Len(PeerCells)]

\* Mutant: no wakeup of the upstream's listener after framing.
ProcessCellsNoWakeup(s) == FrameCells(s)

\* The loop, then event_source_wakeup_listener for the silent cell labels.
ProcessCellsFromInbuf(s) ==
    LET s1 == FrameCells(s)
    IN IF s1.used > s.used THEN [s1 EXCEPT !.ul = EL!Wakeup(@)] ELSE s1

-----------------------------------------------------------------------------
(* The libevent callbacks of the connection, per state.                    *)

\* safe_or_connection_read_cb, LINK_HANDSHAKING and OPEN.
ReadCbLinkOrOpen(s, r, k) ==
    LET s1 == IF s.tlsRead
              THEN [s EXCEPT !.tlsRead = FALSE, !.torWrite = TRUE]
              ELSE s
        s2 == ReadEncrypted(s1, r, k)
        s3 == IF r \in TlsFailures THEN ToClosed(s2) ELSE s2
    IN IF s3.waiting THEN s3 ELSE ProcessCellsFromInbuf(s3)

\* safe_or_connection_write_cb, LINK_HANDSHAKING and OPEN; buckets are
\* charged only when OPEN.
WriteCbLinkOrOpen(s, r, j) ==
    LET s1 == IF s.tlsWrite
              THEN [s EXCEPT !.tlsWrite = FALSE, !.torRead = TRUE]
              ELSE s
        use == s.state = "Open"
        s2 == WriteEncrypted(s1, r, j, use)
    IN IF r \in TlsFailures /\ WriteBudget(s1, use) > 0
       THEN ToClosed(s2) ELSE s2

-----------------------------------------------------------------------------
(* The listener callbacks of the connection (events from the upstream).    *)

UpEv(label, v) == [label |-> label, v |-> v]

\* Mutant: the callback leaves wide_circ_ids alone.
LinkProtocolVersionCbNoWide(s, v) ==
    CASE ~(s.state = "LinkHandshaking" /\ s.waiting /\ v >= 3) ->
             Crash(s, "link_protocol_version_cb")
      [] ~s.events -> Crash(s, "event_active_null_read_event")
      [] OTHER -> [s EXCEPT !.linkProto = v, !.waiting = FALSE, !.readActive = TRUE]

\* Mutant: the callback does not force a read of the buffered cells.
LinkProtocolVersionCbNoActivate(s, v) ==
    CASE ~(s.state = "LinkHandshaking" /\ s.waiting /\ v >= 3) ->
             Crash(s, "link_protocol_version_cb")
      [] ~s.events -> Crash(s, "event_active_null_read_event")
      [] OTHER -> [s EXCEPT !.linkProto = v, !.wideCircIds = (v >= 3), !.waiting = FALSE]

\* safe_or_conn_link_protocol_version_cb
LinkProtocolVersionCb(s, v) ==
    CASE ~(s.state = "LinkHandshaking" /\ s.waiting /\ v >= 3) ->
             Crash(s, "link_protocol_version_cb")
      [] ~s.events -> Crash(s, "event_active_null_read_event")
      [] OTHER -> [s EXCEPT !.linkProto = v, !.wideCircIds = (v >= 3),
                            !.waiting = FALSE, !.readActive = TRUE]

\* safe_or_conn_open_cb
OpenCb(s) ==
    CASE s.state \notin {"LinkHandshaking", "Closed"} -> Crash(s, "open_cb")
      [] s.state = "Closed" -> s
      [] OTHER -> ToOpen(s)

\* safe_or_conn_closed_cb
ClosedCb(s) == IF s.state # "Closed" THEN ToClosed(s) ELSE s

\* safe_or_conn_outgoing_cell_cb: buf_add of the packed cell cannot fail
\* at these sizes.
OutgoingCellCb(s) ==
    CASE s.state = "Closed" -> s
      [] s.state \notin {"LinkHandshaking", "Open"} -> Crash(s, "outgoing_cell_cb")
      [] OTHER -> [s EXCEPT !.outbuf = @ + CellHalves, !.torWrite = TRUE]

ConnDispatch(s, ev) ==
    CASE ev.label = "link_protocol_version" -> LinkProtocolVersionCb(s, ev.v)
      [] ev.label = "open"                  -> OpenCb(s)
      [] ev.label = "closed"                -> ClosedCb(s)
      [] OTHER                              -> OutgoingCellCb(s)

-----------------------------------------------------------------------------
(* The upstream.  The glue in connection_or.c is not in this repository:   *)
(* it is modelled from spec.md (sections 4.6 and 5): it subscribes to all  *)
(* the connection's events, processes them on the main loop, and publishes *)
(* link_protocol_version, open, closed and outgoing cells to the           *)
(* connection.  It publishes nothing once it has decided to close.         *)

UpstreamPublish(s, ev) == [s EXCEPT !.cl = EL!Receive(@, ev, TRUE, {})]

UpstreamClose(s) ==
    [UpstreamPublish(s, UpEv("closed", 0)) EXCEPT !.up.closing = TRUE]

\* channel_tls_process_versions_cell, up to setting link_proto: a second
\* VERSIONS is ignored, no common version >= 3 closes.
ProcessVersionsCell(s) ==
    CASE s.up.version # 0    -> s
      [] HighestSupported < 3 -> UpstreamClose(s)
      [] OTHER -> [UpstreamPublish(s, UpEv("link_protocol_version", HighestSupported))
                   EXCEPT !.up.version = HighestSupported]

\* The upstream's handling of one event of the connection.  A cell whose
\* command is garbage closes the channel (channel_tls_handle_cell rejects
\* unexpected commands while handshaking); NETINFO after VERSIONS opens it.
UpstreamReact(s, ev) ==
    LET s1 == IF ev.label \in CellLabels THEN [s EXCEPT !.up.cells = @ + 1] ELSE s
    IN CASE ev.label = "link_handshaking" -> [s EXCEPT !.up.sawLink = TRUE]
         [] ev.label = "closed"           -> [s EXCEPT !.up.gotClosed = TRUE]
         [] ev.label \notin CellLabels    -> s
         [] s.up.closing \/ s.up.gotClosed -> s1
         [] ~ev.ok                        -> UpstreamClose(s1)
         [] ev.cmd = "VERSIONS"           -> ProcessVersionsCell(s1)
         [] ev.cmd = "NETINFO" /\ s.up.version # 0 /\ ~s.up.opened ->
                [UpstreamPublish(s1, UpEv("open", 0)) EXCEPT !.up.opened = TRUE]
         [] OTHER                         -> s1

UpstreamActive(s) == ~s.up.closing /\ ~s.up.gotClosed

-----------------------------------------------------------------------------
(* Initial state: what safe_or_connection_new leaves.                      *)

Init ==
    /\ state = "NoSocket" /\ sock = "none" /\ tls = FALSE
    /\ torRead = FALSE /\ torWrite = FALSE /\ tlsRead = FALSE /\ tlsWrite = FALSE
    /\ rdCredit = Burst /\ wrCredit = Burst /\ elapsed = 0
    /\ bucketRead = TRUE /\ bucketWrite = TRUE
    /\ events = FALSE /\ readActive = FALSE
    /\ linkProto = 0 /\ wideCircIds = FALSE /\ waiting = FALSE
    /\ recv = 0 /\ used = 0 /\ desync = FALSE /\ outbuf = 0
    /\ crash = "none"
    /\ cl = EL!NewListener
    /\ ul = [EL!NewListener EXCEPT !.attached = TRUE]
    /\ pub = <<>>
    /\ up = [sawLink |-> FALSE, version |-> 0, opened |-> FALSE,
             closing |-> FALSE, gotClosed |-> FALSE, sent |-> 0, cells |-> 0]
    /\ stalls = MaxStalls

-----------------------------------------------------------------------------
(* Actions.  Every action needs a live process; the connection's loop runs *)
(* one callback at a time, so its callbacks wait while its listener runs.  *)

Alive == crash = "none"

ConnLoopIdle == ~cl.running

\* safe_connection_set_socket then socket_added_cb (upstream, main thread).
SetSocket ==
    /\ Alive /\ state = "NoSocket" /\ sock = "none" /\ UpstreamActive(Cur)
    /\ \E s \in {ToTcpConnecting([Cur EXCEPT !.sock = "open"])} : Assign(s)

\* safe_connection_register_events: unregister, detach, create both events,
\* attach the listener, refresh.  It asserts the socket is valid.
RegisterEvents ==
    /\ Alive /\ sock = "open" /\ ~events /\ UpstreamActive(Cur)
    /\ Assign([Cur EXCEPT !.events = TRUE, !.readActive = FALSE,
                          !.cl = EL!Attach(EL!Detach(@))])

\* The socket is readable while the peer has bytes in flight; TLS handshake
\* records are always in flight during the handshake.
SocketReadable == state = "TlsHandshaking" \/ recv < WireLen

ReadFires == Alive /\ ConnLoopIdle /\ ((ReadRegistered(Cur) /\ SocketReadable) \/ readActive)

WriteFires == Alive /\ ConnLoopIdle /\ WriteRegistered(Cur)

Fired(s) == [s EXCEPT !.readActive = FALSE]

\* A result of the network that makes no progress spends one stall.
Spend(s, isStall) == [s EXCEPT !.stalls = IF isStall THEN @ - 1 ELSE @]

CanSpend(isStall) == isStall => stalls > 0

\* The TLS_HANDSHAKING case of read_cb and of write_cb: both run the same
\* handshake step, whichever event fired.
TlsHandshakeStep(r) ==
    /\ ReadFires \/ WriteFires
    /\ state = "TlsHandshaking"
    /\ CanSpend(r \in {"wantread", "wantwrite"})
    /\ \E s \in {TlsHandshake(Spend(Fired(Cur), r \in {"wantread", "wantwrite"}), r)} : Assign(s)

\* A read that moves nothing although bytes are in flight, or that asks
\* for a write, is a stall.
ReadStall(r, k) ==
    r \notin TlsFailures /\ k = 0 /\ (recv < WireLen \/ r = "wantwrite")

\* A TLS read may move up to one cell of the peer's stream into the inbuf.
ReadLinkOrOpen(r, k) ==
    /\ ReadFires /\ state \in {"LinkHandshaking", "Open"}
    /\ k <= WireLen - recv /\ (r = "done" => k > 0)
    /\ (r = "wantwrite" /\ outbuf = 0) => EmptyOutbufWantWrite
    /\ CanSpend(ReadStall(r, k))
    /\ \E s \in {ReadCbLinkOrOpen(Spend(Fired(Cur), ReadStall(r, k)), r, k)} : Assign(s)

WriteTcpConnecting(so, tlsNewOk) ==
    /\ WriteFires /\ state = "TcpConnecting"
    /\ CanSpend(so = "inprogress")
    /\ \E s \in {CheckTcpConnection(Spend(Cur, so = "inprogress"), so, tlsNewOk)} : Assign(s)

\* A write that flushes nothing of a non-empty budget is a stall.
WriteStall(r, j) ==
    r \in {"wantread", "wantwrite"} /\ j = 0 /\ WriteBudget(Cur, state = "Open") > 0

WriteLinkOrOpen(r, j) ==
    /\ WriteFires /\ state \in {"LinkHandshaking", "Open"}
    /\ FlushOk(Cur, r, j, state = "Open")
    /\ CanSpend(WriteStall(r, j))
    /\ \E s \in {WriteCbLinkOrOpen(Spend(Cur, WriteStall(r, j)), r, j)} : Assign(s)

ConnListenerBegin ==
    /\ Alive /\ EL!CanBeginProcess(cl)
    /\ cl' = EL!BeginProcess(cl)
    /\ UNCHANGED <<state, sock, tls, torRead, torWrite, tlsRead, tlsWrite,
                   bucketRead, bucketWrite, events, readActive, linkProto,
                   wideCircIds, waiting, recv, used, desync, outbuf, rdCredit,
                   wrCredit, elapsed, crash, ul, pub, up, stalls>>

ConnListenerStep ==
    /\ Alive /\ EL!CanProcessOne(cl)
    /\ \E s \in {ConnDispatch([Cur EXCEPT !.cl = EL!PopHead(@)], Head(cl.queue))} : Assign(s)

ConnListenerEnd ==
    /\ Alive /\ EL!CanEndProcess(cl)
    /\ cl' = EL!EndProcess(cl)
    /\ UNCHANGED <<state, sock, tls, torRead, torWrite, tlsRead, tlsWrite,
                   bucketRead, bucketWrite, events, readActive, linkProto,
                   wideCircIds, waiting, recv, used, desync, outbuf, rdCredit,
                   wrCredit, elapsed, crash, ul, pub, up, stalls>>

UpListenerBegin ==
    /\ Alive /\ EL!CanBeginProcess(ul)
    /\ ul' = EL!BeginProcess(ul)
    /\ UNCHANGED <<state, sock, tls, torRead, torWrite, tlsRead, tlsWrite,
                   bucketRead, bucketWrite, events, readActive, linkProto,
                   wideCircIds, waiting, recv, used, desync, outbuf, rdCredit,
                   wrCredit, elapsed, crash, cl, pub, up, stalls>>

UpListenerStep ==
    /\ Alive /\ EL!CanProcessOne(ul)
    /\ \E s \in {UpstreamReact([Cur EXCEPT !.ul = EL!PopHead(@)], Head(ul.queue))} : Assign(s)

UpListenerEnd ==
    /\ Alive /\ EL!CanEndProcess(ul)
    /\ ul' = EL!EndProcess(ul)
    /\ UNCHANGED <<state, sock, tls, torRead, torWrite, tlsRead, tlsWrite,
                   bucketRead, bucketWrite, events, readActive, linkProto,
                   wideCircIds, waiting, recv, used, desync, outbuf, rdCredit,
                   wrCredit, elapsed, crash, cl, pub, up, stalls>>

\* The upstream hands the connection a cell to send (any of the three
\* outgoing-cell labels, all handled by safe_or_conn_outgoing_cell_cb).
UpstreamSendCell ==
    /\ Alive /\ up.sawLink /\ UpstreamActive(Cur) /\ up.sent < MaxOutCells
    /\ \E s \in {[UpstreamPublish(Cur, UpEv("outgoing_cell", 0))
                  EXCEPT !.up.sent = @ + 1]} : Assign(s)

\* The upstream closes the channel for its own reasons, once the connection
\* is registered on its loop.
UpstreamCloses ==
    /\ Alive /\ UpstreamActive(Cur) /\ events
    /\ \E s \in {UpstreamClose(Cur)} : Assign(s)

\* Time passes for the token bucket.
Tick ==
    /\ Alive /\ elapsed < Burst
    /\ elapsed' = elapsed + 1
    /\ UNCHANGED <<state, sock, tls, torRead, torWrite, tlsRead, tlsWrite,
                   bucketRead, bucketWrite, events, readActive, linkProto,
                   wideCircIds, waiting, recv, used, desync, outbuf, rdCredit,
                   wrCredit, crash, cl, ul, pub, up, stalls>>

ReadEvent ==
    \/ \E r \in TlsOutcomes : TlsHandshakeStep(r)
    \/ \E r \in TlsOutcomes, k \in 0..CellHalves : ReadLinkOrOpen(r, k)

WriteEvent ==
    \/ \E so \in {"error", "inprogress", "connected"}, ok \in BOOLEAN :
           WriteTcpConnecting(so, ok)
    \/ \E r \in TlsOutcomes, j \in 0..OutMax : WriteLinkOrOpen(r, j)

Next ==
    \/ SetSocket \/ RegisterEvents
    \/ ReadEvent \/ WriteEvent
    \/ ConnListenerBegin \/ ConnListenerStep \/ ConnListenerEnd
    \/ UpListenerBegin \/ UpListenerStep \/ UpListenerEnd
    \/ UpstreamSendCell \/ UpstreamCloses
    \/ Tick

Spec == Init /\ [][Next]_vars

(* Fairness.  libevent runs every added event whose socket is ready, every *)
(* activated event and each listener's loop event; the upstream           *)
(* eventually sets the socket and registers the events; time advances.    *)
(* Weak fairness of all of these together is weaker than fairness of each *)
(* loop, so it is sound to assume.  The network's stalls are bounded by    *)
(* MaxStalls instead of a fairness condition on its results.  The          *)
(* upstream's own decisions (sending cells, closing) are not fair.         *)
SystemStep ==
    \/ SetSocket \/ RegisterEvents \/ ReadEvent \/ WriteEvent
    \/ ConnListenerBegin \/ ConnListenerStep \/ ConnListenerEnd
    \/ UpListenerBegin \/ UpListenerStep \/ UpListenerEnd
    \/ Tick

FairSpec == Spec /\ WF_vars(SystemStep)

-----------------------------------------------------------------------------
(* Properties.                                                             *)

ConnEvents ==
    [label : {"tcp_connecting", "tls_handshaking", "link_handshaking", "open",
              "closed"}, cmd : {"none"}, ok : {TRUE}]
    \cup [label : CellLabels,
          cmd : {"VERSIONS", "CERTS", "AUTH_CHALLENGE", "NETINFO", "RELAY", "GARBLED"},
          ok : BOOLEAN]

UpEvents ==
    [label : {"link_protocol_version", "open", "closed", "outgoing_cell"},
     v : 0..5]

TypeOK ==
    /\ state \in States /\ sock \in {"none", "open", "closed"}
    /\ {tls, torRead, torWrite, tlsRead, tlsWrite, bucketRead, bucketWrite,
        events, readActive, wideCircIds, waiting, desync} \subseteq BOOLEAN
    /\ linkProto \in 0..5 /\ stalls \in 0..MaxStalls
    /\ used \in 0..recv /\ recv \in 0..WireLen /\ outbuf \in 0..OutMax
    /\ rdCredit \in 0..Burst /\ wrCredit \in 0..Burst /\ elapsed \in 0..Burst
    /\ cl \in EL!ListenerType(UpEvents) /\ ul \in EL!ListenerType(ConnEvents)
    /\ pub \in Seq(ConnEvents)

\* No tor_assert of the connection fires: the link-protocol callback only
\* runs in LINK_HANDSHAKING while the framer waits, the open callback never
\* finds the connection past the handshake, nothing leaves CLOSED, and
\* write_tls is never asked to write zero bytes.
NoAssertionFails == crash = "none"

\* Every cell the framer publishes was cut at the boundaries and with the
\* circuit-id width the peer encoded it with (process_cells_from_inbuf
\* against fetch_var_cell_from_buf, fetch_cell and the wide_circ_ids set by
\* safe_or_conn_link_protocol_version_cb).
CellsFramedIntact ==
    \A i \in 1..Len(pub) : pub[i].label \in CellLabels => pub[i].ok

\* Whatever path closes the connection (TCP or TLS failure, read or write
\* error, the upstream's closed event), a CLOSED connection holds no TLS
\* object, no open socket, no libevent events and no loop event for its
\* listener.
ClosedReleasesAll ==
    state = "Closed" =>
        /\ ~tls /\ sock # "open" /\ ~events /\ ~readActive /\ ~cl.attached
        /\ ~is_read_wanted(Cur) /\ ~torWrite /\ ~tlsWrite

\* The upstream never sees a cell from the connection after its closed
\* event (safe_or_connection_read_cb frames the inbuf after closing).
NoCellAfterClosed ==
    \A i, j \in 1..Len(pub) :
        (i < j /\ pub[i].label = "closed") => pub[j].label \notin CellLabels

\* The whole chain of handlers (set_socket, register_events, the TCP check,
\* the TLS handshake, framing VERSIONS, the upstream's negotiation, the
\* link-protocol callback forcing a read, framing NETINFO, the upstream's
\* open event, safe_or_conn_open_cb) ends every connection OPEN or CLOSED.
HandshakeCompletes == <>(state \in {"Open", "Closed"})

\* Every cell that has fully arrived in the inbuf reaches the upstream's
\* callbacks, unless the connection closes first: framing is not stranded by
\* waiting_for_link_protocol, and cells published silently are followed by
\* a wakeup of the upstream's listener.
CellsReachUpstream ==
    \A n \in 1..Len(PeerCells) :
        (recv >= CellHalves * n) ~> (up.cells >= n \/ state = "Closed")

\* A cell handed to the connection leaves its outbuf, unless the connection
\* closes: whatever state transitions happen meanwhile, the write callback
\* stays wanted (update_state, OUTGOING_CELL callback, write_cb).
OutbufDrains == (outbuf > 0) ~> (outbuf = 0 \/ state = "Closed")

\* The state events among the connection's publications, by label.
Announced ==
    LET sel == SelectSeq(pub, LAMBDA ev : ev.label \notin CellLabels)
    IN [i \in 1..Len(sel) |-> sel[i].label]

Lifecycle == INSTANCE ConnLifecycle WITH st <- state, announced <- Announced

\* The connection implements ConnLifecycle: whichever of its callbacks
\* (set_socket, the TCP check, the TLS handshake, read or write failures,
\* the upstream's open and closed events) moves the state, it moves along
\* spec.md 4.5 and publishes exactly one state event for the move, in
\* order; nothing moves it out of CLOSED or announces a second close.
ConnRefinesLifecycle == Lifecycle!Spec
=============================================================================
