-------------------------- MODULE MCExtractorCache --------------------------
(* TLC instances of ExtractorCache; the constants are given in the cfgs. *)
EXTENDS ExtractorCache
=============================================================================
