---------------------------- MODULE MCHttpServer ----------------------------
(* TLC instances of HttpServer; the constants are given in the cfg files. *)
EXTENDS HttpServer
=============================================================================
