----------------------------- MODULE MCTcpRelay -----------------------------
(* Connections for TcpRelay, and which of their ends send and finish.      *)
EXTENDS TcpRelay

(* The ends of one connection, and a newer one or an older one beside it.  *)
CONSTANTS a, b
ClientOfA == {<<a, "lan">>}
EndsOfA == {<<a, "lan">>, <<a, "wan">>}
Talking == {<<a, "wan">>, <<b, "lan">>}
=============================================================================
