---------------------------- MODULE LinkHandshake ----------------------------
(***************************************************************************)
(* The v3 link handshake of src/tor/src/core/or/channeltls.c between an    *)
(* initiator I and a responder R over one TLS stream in each direction.    *)
(*                                                                         *)
(* Each endpoint runs channel_tls_handle_cell and channel_tls_handle_var_   *)
(* cell on the cells its peer sent, in order; the processors for VERSIONS, *)
(* CERTS, AUTH_CHALLENGE, AUTHENTICATE and NETINFO update the connection's *)
(* state and handshake_state and may send cells back.  One endpoint may be *)
(* an adversary instead: it sends any cells it can build, and can present  *)
(* another relay's public certificates, but it signs only with its own     *)
(* key and its TLS link is bound to its own identity Adv.                  *)
(*                                                                         *)
(* Certificates and signatures are abstracted to what the checks decide:   *)
(* the identity a CERTS cell claims, whether its chain verifies, whether   *)
(* it carries Ed25519 certs, whether it is malformed; the identity that    *)
(* signed an AUTHENTICATE cell.  The cells our side sends are built by     *)
(* connection_or.c, which is not in this repository (spec.md 4.6).         *)
(***************************************************************************)
EXTENDS Integers, Sequences

CONSTANTS
    I, R,       \* the two endpoints, and the identities of their relays
    Adv,        \* the adversary's identity
    NoOne,
    MaxAdv      \* cells the adversary sends

Ends == {I, R}
Other(e) == IF e = I THEN R ELSE I

VARIABLES
    evil,     \* the endpoint played by the adversary, or NoOne
    conn,     \* conn[e]: the or_connection_t of an honest endpoint
    chan,     \* chan[e]: cells e has sent and its peer has not read
    advSent   \* cells the adversary has sent

vars == <<evil, conn, chan, advSent>>

-----------------------------------------------------------------------------
(* Cells, by what the processors inspect.                                  *)

\* A VERSIONS cell by the highest version it lists that
\* is_or_protocol_version_known accepts (0: none), and whether its payload
\* length is odd.
VersionsCell(odd, hv) == [cmd |-> "VERSIONS", odd |-> odd, hv |-> hv]
CertsCell(id, valid, ed, bad) ==
    [cmd |-> "CERTS", id |-> id, valid |-> valid, ed |-> ed, bad |-> bad]
AuthChallengeCell(usable, bad) ==
    [cmd |-> "AUTH_CHALLENGE", usable |-> usable, bad |-> bad]
AuthenticateCell(method, signer, ok) ==
    [cmd |-> "AUTHENTICATE", method |-> method, signer |-> signer, ok |-> ok]
NetinfoCell(ok) == [cmd |-> "NETINFO", ok |-> ok]

\* Commands that travel in fixed-length cells on a v3 link (the rest are
\* variable-length).
FixedCmds == {"NETINFO", "PADDING"}

\* The highest version our own VERSIONS cell lists (spec.md 4.6: {3,4,5}).
OurVersion == 5

\* What the adversary can send when it talks to victim v: its own
\* certificates or v's peer's public ones, signatures by its own key only.
AdvCells(v) ==
    {VersionsCell(odd, hv) : odd \in BOOLEAN, hv \in {0, 1, 2, 4}}
    \cup {[cmd |-> "VPADDING"], [cmd |-> "PADDING"]}
    \cup {CertsCell(id, valid, ed, FALSE) :
             id \in {Adv, Other(v)}, valid \in BOOLEAN, ed \in BOOLEAN}
    \cup {CertsCell(Adv, TRUE, TRUE, TRUE)}
    \cup {AuthChallengeCell(u, b) : u \in BOOLEAN, b \in BOOLEAN}
    \cup {AuthenticateCell(m, Adv, ok) :
             m \in {"rsa", "ed", "unknown"}, ok \in BOOLEAN}
    \cup {NetinfoCell(ok) : ok \in BOOLEAN}

NoCerts == CertsCell(NoOne, FALSE, FALSE, FALSE)

-----------------------------------------------------------------------------
(* A connection: its base state and link_proto, and the fields of its     *)
(* or_handshake_state.  tlsPeer is the identity the TLS link is bound to. *)

\* The initiator after connection_or_launch_v3_or_handshake; expect is the
\* identity digest it connected to.
InitiatorConn(pub, expect, tlsPeer) ==
    [st |-> "V3", lp |-> 0, me |-> I, started |-> TRUE, pub |-> pub,
     expect |-> expect, tlsPeer |-> tlsPeer, rVersions |-> FALSE, rCerts |-> FALSE,
     rChallenge |-> FALSE, rAuthenticate |-> FALSE, authenticated |-> FALSE,
     sentNetinfo |-> FALSE, certs |-> NoCerts, peerId |-> NoOne,
     client |-> FALSE]

\* The responder after its TLS handshake, waiting for a VERSIONS cell
\* (OR_CONN_STATE_TLS_SERVER_RENEGOTIATING).
ResponderConn(tlsPeer) ==
    [InitiatorConn(TRUE, NoOne, tlsPeer) EXCEPT !.st = "TlsRenegotiating",
                                               !.me = R,
                                               !.started = FALSE]

\* The result of a handler: the connection and the cells it sent.
Done(c, out) == [conn |-> c, out |-> out]

\* connection_or_close_for_error: the connection is marked for close.
Close(c) == Done([c EXCEPT !.st = "Closed"], <<>>)

\* connection_or_send_netinfo
SendNetinfo(c, out) ==
    Done([c EXCEPT !.sentNetinfo = TRUE], out \o <<NetinfoCell(TRUE)>>)

-----------------------------------------------------------------------------
(* The processors, each a whole function of channeltls.c from a           *)
(* connection and a cell to the connection and the cells sent.  Every     *)
(* ERR() is a close; the order of the checks is the code's.               *)

ProcessVersionsNoLowCheck(c, cell) ==
    LET h == cell.hv
        responder == ~c.started
        sendCerts == ~c.started \/ c.pub
        c1 == [c EXCEPT !.lp = h, !.rVersions = TRUE,
                        !.sentNetinfo = @ \/ responder]
        out == (IF responder THEN <<VersionsCell(FALSE, OurVersion)>> ELSE <<>>)
               \o (IF sendCerts THEN <<CertsCell(c.me, TRUE, TRUE, FALSE)>>
                   ELSE <<>>)
               \o (IF responder
                   THEN <<AuthChallengeCell(TRUE, FALSE), NetinfoCell(TRUE)>>
                   ELSE <<>>)
    IN IF cell.odd THEN Close(c)
       ELSE IF c.lp # 0 \/ c.rVersions THEN Done(c, <<>>)
       ELSE IF c.st # "V3" THEN Done(c, <<>>)
       ELSE IF h = 0 THEN Close(c)
       ELSE Done(c1, out)

\* channel_tls_process_versions_cell.  A link starts as v3 here, so the
\* OR_HANDSHAKING_V2 branches never apply; a version below 3 closes.
ProcessVersions(c, cell) ==
    LET h == cell.hv
        responder == ~c.started
        sendCerts == ~c.started \/ c.pub
        c1 == [c EXCEPT !.lp = h, !.rVersions = TRUE,
                        !.sentNetinfo = @ \/ responder]
        out == (IF responder THEN <<VersionsCell(FALSE, OurVersion)>> ELSE <<>>)
               \o (IF sendCerts THEN <<CertsCell(c.me, TRUE, TRUE, FALSE)>>
                   ELSE <<>>)
               \o (IF responder
                   THEN <<AuthChallengeCell(TRUE, FALSE), NetinfoCell(TRUE)>>
                   ELSE <<>>)
    IN IF cell.odd THEN Close(c)
       ELSE IF c.lp # 0 \/ c.rVersions THEN Done(c, <<>>)
       ELSE IF c.st # "V3" THEN Done(c, <<>>)
       ELSE IF h < 3 THEN Close(c)
       ELSE Done(c1, out)

\* or_handshake_certs_check_both yields an RSA identity: the chain verifies
\* and, on the initiator, the link certificate certifies this TLS session's
\* key, so the identity is the TLS peer's.  The responder learns that only
\* from AUTHENTICATE.
ChainOk(c, cell) == cell.valid /\ (c.started => cell.id = c.tlsPeer)

ProcessCertsNoExpectCheck(c, cell) ==
    LET c1 == [c EXCEPT !.certs = cell]
        auth == [c1 EXCEPT !.authenticated = TRUE, !.peerId = cell.id]
    IN IF \/ c.st # "V3" \/ c.lp < 3 \/ c.rCerts \/ c.authenticated
          \/ cell.bad
       THEN Close(c)
       ELSE IF ~ChainOk(c, cell) THEN Close(c1)
       ELSE IF c.started /\ ~c.pub
            THEN SendNetinfo([auth EXCEPT !.rCerts = TRUE], <<>>)
       ELSE IF c.started THEN Done([auth EXCEPT !.rCerts = TRUE], <<>>)
       ELSE Done([c1 EXCEPT !.rCerts = TRUE], <<>>)

ProcessCertsNetinfoIfPub(c, cell) ==
    LET c1 == [c EXCEPT !.certs = cell]
        auth == [c1 EXCEPT !.authenticated = TRUE, !.peerId = cell.id]
    IN IF \/ c.st # "V3" \/ c.lp < 3 \/ c.rCerts \/ c.authenticated
          \/ cell.bad
       THEN Close(c)
       ELSE IF ~ChainOk(c, cell) THEN Close(c1)
       ELSE IF c.started /\ cell.id # c.expect THEN Close(auth)
       ELSE IF c.started /\ c.pub
            THEN SendNetinfo([auth EXCEPT !.rCerts = TRUE], <<>>)
       ELSE IF c.started THEN Done([auth EXCEPT !.rCerts = TRUE], <<>>)
       ELSE Done([c1 EXCEPT !.rCerts = TRUE], <<>>)

\* channel_tls_process_certs_cell.  On the initiator, authenticated is set
\* before connection_or_client_learned_peer_id compares the identity with
\* the one it connected to.
ProcessCerts(c, cell) ==
    LET c1 == [c EXCEPT !.certs = cell]
        auth == [c1 EXCEPT !.authenticated = TRUE, !.peerId = cell.id]
    IN IF \/ c.st # "V3" \/ c.lp < 3 \/ c.rCerts \/ c.authenticated
          \/ cell.bad
       THEN Close(c)
       ELSE IF ~ChainOk(c, cell) THEN Close(c1)
       ELSE IF c.started /\ cell.id # c.expect THEN Close(auth)
       ELSE IF c.started /\ ~c.pub
            THEN SendNetinfo([auth EXCEPT !.rCerts = TRUE], <<>>)
       ELSE IF c.started THEN Done([auth EXCEPT !.rCerts = TRUE], <<>>)
       ELSE Done([c1 EXCEPT !.rCerts = TRUE], <<>>)

ProcessAuthChallengeNoAuthenticate(c, cell) ==
    LET c1 == [c EXCEPT !.rChallenge = TRUE]
    IN IF \/ c.st # "V3" \/ c.lp < 3 \/ ~c.started \/ c.rChallenge
          \/ ~c.rCerts \/ cell.bad
       THEN Close(c)
       ELSE IF ~c.pub THEN Done(c1, <<>>)
       ELSE SendNetinfo(c1, <<>>)

\* channel_tls_process_auth_challenge_cell.  A public server answers with
\* AUTHENTICATE (by the best method, Ed25519) when a method is usable, and
\* NETINFO either way.
ProcessAuthChallenge(c, cell) ==
    LET c1 == [c EXCEPT !.rChallenge = TRUE]
        out == IF cell.usable THEN <<AuthenticateCell("ed", c.me, TRUE)>>
               ELSE <<>>
    IN IF \/ c.st # "V3" \/ c.lp < 3 \/ ~c.started \/ c.rChallenge
          \/ ~c.rCerts \/ cell.bad
       THEN Close(c)
       ELSE IF ~c.pub THEN Done(c1, <<>>)
       ELSE SendNetinfo(c1, out)

\* channel_tls_process_authenticate_cell.  ok stands for the length checks
\* and the match with the expected body; the signature verifies only with
\* the authentication key of the identity the CERTS cell claimed.
ProcessAuthenticate(c, cell) ==
    LET methodOk == IF cell.method = "rsa" THEN ~c.certs.ed ELSE c.certs.ed
    IN IF \/ c.st # "V3" \/ c.lp < 3 \/ c.started \/ c.rAuthenticate
          \/ c.authenticated \/ ~c.rCerts
       THEN Close(c)
       ELSE IF cell.method = "unknown" \/ ~cell.ok THEN Close(c)
       ELSE IF ~methodOk \/ cell.signer # c.certs.id THEN Close(c)
       ELSE Done([c EXCEPT !.rAuthenticate = TRUE, !.authenticated = TRUE,
                           !.peerId = c.certs.id], <<>>)

\* can_process_netinfo_cell: link protocol 2 or higher, and handshaking.
CanProcessNetinfo(c) == c.lp >= 2 /\ c.st = "V3"

\* mark_channel_tls_endpoint_as_client
MarkClient(c) == [c EXCEPT !.client = TRUE]

ProcessNetinfoNoAuthCheck(c, cell) ==
    LET c1 == IF ~c.started /\ ~c.authenticated THEN MarkClient(c) ELSE c
        r == IF c1.sentNetinfo THEN Done(c1, <<>>) ELSE SendNetinfo(c1, <<>>)
    IN IF ~CanProcessNetinfo(c) THEN Done(c, <<>>)
       ELSE IF ~cell.ok THEN Close(c1)
       ELSE Done([r.conn EXCEPT !.st = "Open"], r.out)

\* channel_tls_process_netinfo_cell: a responder marks an unauthenticated
\* peer as a client; then NETINFO if not yet sent, and
\* connection_or_set_state_open.
ProcessNetinfo(c, cell) ==
    LET c1 == IF ~c.started /\ ~c.authenticated THEN MarkClient(c) ELSE c
        r == IF c1.sentNetinfo THEN Done(c1, <<>>) ELSE SendNetinfo(c1, <<>>)
    IN IF ~CanProcessNetinfo(c) THEN Done(c, <<>>)
       ELSE IF c.started /\ ~c.authenticated THEN Close(c)
       ELSE IF ~cell.ok THEN Close(c1)
       ELSE Done([r.conn EXCEPT !.st = "Open"], r.out)

\* channel_tls_handle_cell: while handshaking only VERSIONS and NETINFO
\* pass; PADDING is dropped.
HandleCell(c, cell) ==
    IF c.st # "Open" /\ cell.cmd \notin {"VERSIONS", "NETINFO"} THEN Close(c)
    ELSE IF cell.cmd = "NETINFO" THEN ProcessNetinfo(c, cell)
    ELSE Done(c, <<>>)

\* command_allowed_before_handshake
AllowedBeforeHandshake == {"VERSIONS", "VPADDING"}

\* enter_v3_handshake_with_cell: the responder's connection moves to
\* OR_HANDSHAKING_V3 with a fresh handshake state (started_here false).
EnterV3Handshake(c) == [c EXCEPT !.st = "V3"]

\* channel_tls_handle_var_cell: the state switch, then the dispatch.
HandleVarCell(c, cell) ==
    LET c1 == IF c.st = "TlsRenegotiating" THEN EnterV3Handshake(c) ELSE c
    IN IF c.st = "TlsRenegotiating" /\ cell.cmd \notin AllowedBeforeHandshake
       THEN Close(c)
       ELSE IF c.st = "Open" /\ c.lp < 3 THEN Done(c, <<>>)
       ELSE CASE cell.cmd = "VERSIONS"       -> ProcessVersions(c1, cell)
              [] cell.cmd = "CERTS"          -> ProcessCerts(c1, cell)
              [] cell.cmd = "AUTH_CHALLENGE" -> ProcessAuthChallenge(c1, cell)
              [] cell.cmd = "AUTHENTICATE"   -> ProcessAuthenticate(c1, cell)
              [] cell.cmd = "VPADDING"       -> Done(c1, <<>>)

-----------------------------------------------------------------------------

\* The identity the TLS link of e is bound to.
TlsPeer(e) == IF evil = Other(e) THEN Adv ELSE Other(e)

Init ==
    /\ evil \in {NoOne, I, R}
    /\ \E pub \in IF evil = I THEN {FALSE} ELSE BOOLEAN, expect \in {R, Adv} :
          conn = [e \in Ends |->
                    IF e = I THEN InitiatorConn(pub, expect, TlsPeer(I))
                    ELSE ResponderConn(TlsPeer(R))]
    /\ chan = [e \in Ends |->
                 IF e = I /\ evil # I THEN <<VersionsCell(FALSE, OurVersion)>>
                 ELSE <<>>]
    /\ advSent = 0

\* An honest endpoint not marked for close reads the next cell its peer sent
\* and handles it; what it sends goes to its own stream.
Apply(e, r) ==
    /\ conn' = [conn EXCEPT ![e] = r.conn]
    /\ chan' = [chan EXCEPT ![Other(e)] = Tail(@), ![e] = @ \o r.out]
    /\ UNCHANGED <<evil, advSent>>

Readable(e) ==
    e # evil /\ conn[e].st # "Closed" /\ chan[Other(e)] # <<>>

ReceiveCell(e) ==
    /\ Readable(e) /\ Head(chan[Other(e)]).cmd \in FixedCmds
    /\ Apply(e, HandleCell(conn[e], Head(chan[Other(e)])))

ReceiveVarCell(e) ==
    /\ Readable(e) /\ Head(chan[Other(e)]).cmd \notin FixedCmds
    /\ Apply(e, HandleVarCell(conn[e], Head(chan[Other(e)])))

\* The peer closed and everything it sent has been read: the read returns
\* end of file and the connection closes.
PeerClosed(e) ==
    /\ e # evil /\ evil # Other(e)
    /\ conn[e].st # "Closed" /\ conn[Other(e)].st = "Closed"
    /\ chan[Other(e)] = <<>>
    /\ conn' = [conn EXCEPT ![e].st = "Closed"]
    /\ UNCHANGED <<evil, chan, advSent>>

\* The adversary sends one cell once the victim has read the previous one
\* (the victim's state after a run of cells does not depend on when they
\* arrived), and stops when the victim has closed.
AdvSend ==
    /\ evil \in Ends /\ advSent < MaxAdv
    /\ chan[evil] = <<>> /\ conn[Other(evil)].st # "Closed"
    /\ \E cell \in AdvCells(Other(evil)) :
          chan' = [chan EXCEPT ![evil] = <<cell>>]
    /\ advSent' = advSent + 1
    /\ UNCHANGED <<evil, conn>>

EndStep(e) == ReceiveCell(e) \/ ReceiveVarCell(e) \/ PeerClosed(e)

\* Nothing is modelled after the handshake: once every cell is read the
\* system stops.
Next == (\E e \in Ends : EndStep(e)) \/ AdvSend

Spec == Init /\ [][Next]_vars

\* Each endpoint's event loop reads what is readable; the adversary is
\* owed nothing.
FairSpec == Spec /\ \A e \in Ends : WF_vars(EndStep(e))

-----------------------------------------------------------------------------

States == {"TlsRenegotiating", "V3", "Open", "Closed"}
Ids == {I, R, Adv, NoOne}

TypeOK ==
    /\ evil \in {NoOne, I, R}
    /\ \A e \in Ends :
         /\ conn[e].st \in States
         /\ conn[e].lp \in {0, 3, 4, 5}
         /\ conn[e].peerId \in Ids /\ conn[e].certs.id \in Ids
         /\ {conn[e].authenticated, conn[e].client, conn[e].rCerts,
             conn[e].sentNetinfo} \subseteq BOOLEAN
    /\ \A e \in Ends : \A k \in DOMAIN chan[e] :
         chan[e][k].cmd \in {"VERSIONS", "VPADDING", "PADDING", "CERTS",
                             "AUTH_CHALLENGE", "AUTHENTICATE", "NETINFO"}
    /\ advSent \in 0..MaxAdv

(* spec.md invariant 3, against any peer: an honest connection that is    *)
(* still alive and calls its peer authenticated has the identity its TLS  *)
(* link is bound to, and on the initiator the one it connected to.  The   *)
(* CERTS processor sets authenticated before checking the identity        *)
(* against the expected one, so this holds only because that check       *)
(* closes the connection.                                                 *)
AuthenticatedPeerIsTlsPeer ==
    \A e \in Ends \ {evil} :
       conn[e].authenticated /\ conn[e].st # "Closed" =>
          /\ conn[e].peerId = conn[e].tlsPeer
          /\ conn[e].started => conn[e].peerId = conn[e].expect

(* An honest connection opens only with a peer it knows: authenticated, or *)
(* on the responder an unauthenticated client marked as such.             *)
OpenPeerKnown ==
    \A e \in Ends \ {evil} :
       conn[e].st = "Open" =>
          \/ conn[e].authenticated
          \/ ~conn[e].started /\ conn[e].client

(* Between two honest relays, once both are open they agree: the same     *)
(* link protocol, and the responder treats the initiator as a client      *)
(* exactly when the initiator is not a public server.                     *)
HonestViewsAgree ==
    evil = NoOne /\ conn[I].st = "Open" /\ conn[R].st = "Open" =>
       /\ conn[I].lp = conn[R].lp
       /\ conn[R].client = ~conn[I].pub
       /\ conn[R].authenticated => conn[R].peerId = I

(* Two honest relays where the initiator connected to the right identity  *)
(* both open.                                                             *)
HonestHandshakeOpens ==
    (evil = NoOne /\ conn[I].expect = R)
       ~> (conn[I].st = "Open" /\ conn[R].st = "Open")
====
