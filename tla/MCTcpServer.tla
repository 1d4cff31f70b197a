---------------------------- MODULE MCTcpServer ----------------------------
(* Instances of the server, in single mode and with several reactors.       *)
EXTENDS TcpServer
=============================================================================
