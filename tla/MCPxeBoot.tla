------------------------------ MODULE MCPxeBoot ------------------------------
(* TLC instances of PxeBoot; the constants are given in the cfg files. *)
EXTENDS PxeBoot, TLC

(* Local and remote clients of the three firmwares. *)
MCProfiles == [arch: {"bios", "x64", "arm64"}, remote: BOOLEAN]

(* The default bootloaders are renamed together. *)
MCDefaults == {[k \in Kinds |-> n] : n \in Names}

NameSymmetry == Permutations(Macs) \cup Permutations(Names)
=============================================================================
