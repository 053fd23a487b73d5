---------------------------- MODULE MCTcpServer ----------------------------
(* TcpService.cfg gives the constants model values: clients, workers and    *)
(* callers of stop() are told apart by nothing but their names.             *)
EXTENDS TcpServer
=============================================================================
