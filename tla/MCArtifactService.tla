-------------------------- MODULE MCArtifactService -------------------------
(* TLC instances of ArtifactService; the constants are given in the cfgs. *)
EXTENDS ArtifactService
=============================================================================
