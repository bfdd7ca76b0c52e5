--------------------------- MODULE MCTftpTransfer ---------------------------
(* TLC instances of TftpTransfer; the constants are given in the cfg files. *)
EXTENDS TftpTransfer
=============================================================================
