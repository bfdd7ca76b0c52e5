--------------------------- MODULE PartitionSlice ---------------------------
(***************************************************************************)
(* PartitionSlice of bootycall-extractor/src/disk.rs: a window into a disk *)
(* image that a FAT reader reads, seeks and writes in.  Offsets are u64    *)
(* and i64; IMax stands for i64::MAX, so that u64 goes up to 2 IMax + 1.   *)
(* The partition table comes from the image; that a partition ends within  *)
(* u64 is assumed of the gpt crate, the code itself does not check it.     *)
(***************************************************************************)
EXTENDS Integers, FiniteSets

CONSTANTS
    IMax,               \* i64::MAX
    Start, Length,      \* the partition
    Bufs                \* lengths of the caller's buffers

IMin == -IMax - 1
UMax == 2 * IMax + 1

ASSUME SliceAssumption ==
    /\ IMax \in Nat /\ Start \in Nat /\ Length \in Nat
    /\ Start + Length <= UMax
    /\ Bufs \subseteq Nat

VARIABLES
    pos,                \* offset inside the partition
    access,             \* the bytes of the image last touched: first and how many
    seek                \* the last seek: where it should have gone, and its answer

slice_vars == <<pos, access, seek>>

NoAccess == [at |-> Start, count |-> 0]
NoSeek == [target |-> 0, ok |-> TRUE, before |-> 0]

SliceInit == pos = 0 /\ access = NoAccess /\ seek = NoSeek

Smaller(a, b) == IF a < b THEN a ELSE b

(* Mutant: the end of the partition is compared with the whole image. *)
clamped_to_image(n) == Smaller(n, UMax - pos)

clamped(n) == Smaller(n, Length - pos)

(* read and write: the underlying file may do less than it is asked for.   *)
(* At the end of the partition a read returns 0 and a write fails.         *)
Transfer(n) ==
    /\ pos < Length
    /\ \E count \in 0..clamped(n) :
        /\ access' = [at |-> Start + pos, count |-> count]
        /\ pos' = pos + count
    /\ UNCHANGED seek

TransferAtEnd ==
    /\ pos >= Length
    /\ access' = NoAccess
    /\ UNCHANGED <<pos, seek>>

(* i64::try_from and checked_add: a number, or an error. *)
InI64(n) == n \in IMin..IMax

(* Mutant: the sum wraps around instead of failing. *)
SeekWrapped(base, offset) ==
    LET sum == ((base + offset - IMin) % (2 * (IMax + 1))) + IMin
        ok == sum >= 0
    IN  /\ pos' = IF ok THEN sum ELSE pos
        /\ seek' = [target |-> base + offset, ok |-> ok, before |-> pos]
        /\ UNCHANGED access

(* A seek relative to a base of 0, pos or Length. *)
SeekTo(base, offset) ==
    LET ok == InI64(base) /\ InI64(base + offset) /\ base + offset >= 0
    IN  /\ pos' = IF ok THEN base + offset ELSE pos
        /\ seek' = [target |-> base + offset, ok |-> ok, before |-> pos]
        /\ UNCHANGED access

Seek ==
    \/ \E offset \in 0..UMax : SeekTo(0, offset)
    \/ \E offset \in IMin..IMax, base \in {Length, pos} : SeekTo(base, offset)

SliceNext == (\E n \in Bufs : Transfer(n)) \/ TransferAtEnd \/ Seek

SliceSpec == SliceInit /\ [][SliceNext]_slice_vars
-----------------------------------------------------------------------------
(* No sequence of seeks and transfers touches a byte outside the partition.*)
InsidePartition ==
    access.at >= Start /\ access.at + access.count <= Start + Length

(* A seek that succeeds went exactly where it was asked to go, and one     *)
(* that fails left the position alone (BUG-12: raw casts wrapped around).  *)
SeekIsExact ==
    [][seek' # seek =>
        IF seek'.ok THEN pos' = seek'.target /\ pos' \in 0..IMax ELSE pos' = seek'.before]_slice_vars
=============================================================================
