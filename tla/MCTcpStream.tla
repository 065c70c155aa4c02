----------------------------- MODULE MCTcpStream -----------------------------
(* TcpStream for TLC.                                                      *)
EXTENDS TcpStream
=============================================================================
