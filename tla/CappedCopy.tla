----------------------------- MODULE CappedCopy -----------------------------
(***************************************************************************)
(* copy_capped of bootycall-extractor/src/lib.rs: a kernel or an initrd is *)
(* copied out of an image in pieces of at most one buffer, and refused     *)
(* when it is larger than max_artifact_bytes.                              *)
(***************************************************************************)
EXTENDS Naturals

CONSTANTS
    Buffer,             \* bytes of the buffer
    MaxSize,            \* bound: bytes of the artifact
    Limits,             \* caps: numbers
    Unbounded           \* no cap is configured

ASSUME CopyAssumption ==
    /\ Buffer \in Nat \ {0} /\ MaxSize \in Nat
    /\ Limits \subseteq Nat /\ Unbounded \notin Nat

VARIABLES
    size, limit,        \* the artifact and the cap
    read, out,          \* bytes read and bytes in the output file
    copy_result         \* "copying", "ok", "too_large" or "failed"

copy_vars == <<size, limit, read, out, copy_result>>

CopyInit ==
    /\ size \in 0..MaxSize /\ limit \in Limits \cup {Unbounded}
    /\ read = 0 /\ out = 0 /\ copy_result = "copying"

(* Mutant: the cap is compared with what was written before this piece. *)
over_late(n) == limit # Unbounded /\ read > limit

(* written > limit, with the n bytes of the next piece. *)
over(n) == limit # Unbounded /\ read + n > limit

(* A piece is read: any number of bytes that are there and fit. *)
Pieces == {n \in 1..Buffer : read + n <= size}

CopyPiece(n) ==
    /\ copy_result = "copying" /\ n \in Pieces /\ ~over(n)
    /\ read' = read + n /\ out' = out + n
    /\ UNCHANGED <<size, limit, copy_result>>

RefuseArtifact(n) ==
    /\ copy_result = "copying" /\ n \in Pieces /\ over(n)
    /\ read' = read + n /\ copy_result' = "too_large"
    /\ UNCHANGED <<size, limit, out>>

(* A read of 0 bytes: the artifact is copied. *)
EndOfArtifact ==
    /\ copy_result = "copying" /\ read = size
    /\ copy_result' = "ok"
    /\ UNCHANGED <<size, limit, read, out>>

(* A read fails, or a write, of which a part may have been done. *)
Fail ==
    /\ copy_result = "copying" /\ copy_result' = "failed"
    /\ \E n \in Pieces \cup {0} : ~over(n) /\ read' = read + n /\ out' \in out..(out + n)
    /\ UNCHANGED <<size, limit>>

CopyNext == (\E n \in 1..Buffer : CopyPiece(n) \/ RefuseArtifact(n)) \/ EndOfArtifact \/ Fail

CopySpec == CopyInit /\ [][CopyNext]_copy_vars
-----------------------------------------------------------------------------
(* However the artifact comes in pieces, the cap keeps the disk: no more   *)
(* than max_artifact_bytes are ever written (issue 006).  A copy that      *)
(* succeeds is whole, an artifact is refused only if it is larger than the *)
(* cap, and one of exactly that size is not.                               *)
CapIsExact ==
    /\ limit # Unbounded => out <= limit
    /\ copy_result = "ok" => out = size
    /\ copy_result = "too_large" => limit # Unbounded /\ size > limit
    /\ copy_result = "ok" /\ limit # Unbounded => size <= limit
=============================================================================
