---------------------------- MODULE MCWsClient ----------------------------
(* WsClient for TLC.                                                         *)
EXTENDS WsClient
=============================================================================
