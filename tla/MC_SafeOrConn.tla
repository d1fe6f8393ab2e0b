---------------------------- MODULE MC_SafeOrConn ----------------------------
(* The peer (a responder) sends VERSIONS, CERTS and NETINFO; the upstream   *)
(* hands the connection one outgoing cell; the bucket has the rate and      *)
(* burst safe_or_connection_new gives it.                                   *)
EXTENDS SafeOrConn

MCPeerCellsHandshake == <<"VERSIONS", "CERTS", "NETINFO">>
MCPeerVersionsModern == {3, 4, 5}
MCPeerVersionsV3 == {3}
=============================================================================
