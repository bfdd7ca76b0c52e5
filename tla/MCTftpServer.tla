---------------------------- MODULE MCTftpServer ----------------------------
(* TLC instances of TftpServer; the constants are given in the cfg files. *)
EXTENDS TftpServer
=============================================================================
