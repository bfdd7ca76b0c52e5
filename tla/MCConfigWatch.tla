---------------------------- MODULE MCConfigWatch ----------------------------
(* TLC instances of ConfigWatch; the constants are given in the cfg files. *)
EXTENDS ConfigWatch
=============================================================================
