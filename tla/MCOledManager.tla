---------------------------- MODULE MCOledManager ---------------------------
(* TLC instances of OledManager; the constants are given in the cfg files. *)
EXTENDS OledManager
=============================================================================
