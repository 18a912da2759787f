------------------------- MODULE MCPeerNegotiation -------------------------
(* PeerNegotiation for TLC.                                                  *)
EXTENDS PeerNegotiation
=============================================================================
