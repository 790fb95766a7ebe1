---------------------------- MODULE MCTcpServer ----------------------------
(* Model checking TcpServer: two connections and three descriptors, so that *)
(* the listener's number, and a connection's, can be taken by a handler.    *)
EXTENDS TcpServer
=============================================================================
