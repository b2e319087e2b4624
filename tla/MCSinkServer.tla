----------------------------- MODULE MCSinkServer -----------------------------
(* Model-checking instance of SinkServer: three streams, one of them from *)
(* an untrusted peer and one without peer info.                           *)
EXTENDS SinkServer

CONSTANTS c1, c2, c3
=============================================================================
