----------------------------- MODULE DiskExtract ----------------------------
(***************************************************************************)
(* extract_from_disk of bootycall-extractor/src/disk.rs: the partitions of *)
(* a GPT image are tried in order until one has a kernel, and the initrd   *)
(* comes from that partition or the extraction fails.  What a search for a *)
(* file answers is ImageWalk; here a FAT partition has a kernel and an     *)
(* initrd, has none, or cannot be read where the file would be.            *)
(***************************************************************************)
EXTENDS SequencesExt

CONSTANTS
    MaxPartitions,      \* bound: entries of the partition table
    CopiesFail          \* whether copy_capped may fail

ASSUME DiskAssumption == MaxPartitions \in Nat /\ CopiesFail \in BOOLEAN

VARIABLES
    table,              \* the partitions of the image
    overridden,         \* whether the host names the kernel and the initrd
    at,                 \* the partition that is tried
    step,               \* "kernel", "initrd" or "done"
    written,            \* per output file: its partition, 0 if it was not written
    torn,               \* whether the last copy was cut short
    verdict             \* "pending", "ok" or the error

disk_vars == <<table, overridden, at, step, written, torn, verdict>>

Lookup == {"file", "none", "error"}
Fat == [kind: {"fat"}, kernel: Lookup, initrd: Lookup]

(* Not in use, a range that cannot be computed, or no FAT file system. *)
Unusable == [kind: {"unused", "no_range", "not_fat"}, kernel: {"none"}, initrd: {"none"}]

DiskInit ==
    /\ table \in BoundedSeq(Fat \cup Unusable, MaxPartitions)
    /\ overridden \in [{"kernel", "initrd"} -> BOOLEAN]
    /\ at = 1 /\ step = "kernel"
    /\ written = [f \in {"kernel", "initrd"} |-> 0]
    /\ torn = FALSE /\ verdict = "pending"

(* A search fails where the image cannot be read; a file that the host     *)
(* names and that cannot be opened counts as missing.                      *)
Search(f) ==
    LET l == table[at][f] IN IF l = "error" /\ overridden[f] THEN "none" ELSE l

Finish(r) == step' = "done" /\ verdict' = r

Trying(s) == step = s /\ at <= Len(table)

SkipPartition ==
    /\ Trying("kernel") /\ table[at] \in Unusable
    /\ at' = at + 1
    /\ UNCHANGED <<table, overridden, step, written, torn, verdict>>

(* File::open of the image for the slice fails. *)
ReopenFails ==
    /\ Trying("kernel") /\ table[at].kind \in {"fat", "not_fat"} /\ CopiesFail
    /\ Finish("error")
    /\ UNCHANGED <<table, overridden, at, written, torn>>

SearchFails(f) ==
    /\ Trying(f) /\ table[at] \in Fat /\ Search(f) = "error"
    /\ Finish("error")
    /\ UNCHANGED <<table, overridden, at, written, torn>>

(* copy_capped creates the output file and then may fail, at the cap too. *)
CopyFails(f) ==
    /\ Trying(f) /\ table[at] \in Fat /\ Search(f) = "file" /\ CopiesFail
    /\ written' = [written EXCEPT ![f] = at] /\ torn' = TRUE
    /\ Finish("error")
    /\ UNCHANGED <<table, overridden, at>>

CopyKernel ==
    /\ Trying("kernel") /\ table[at] \in Fat /\ Search("kernel") = "file"
    /\ written' = [written EXCEPT !["kernel"] = at]
    /\ step' = "initrd"
    /\ UNCHANGED <<table, overridden, at, torn, verdict>>

NoKernelHere ==
    /\ Trying("kernel") /\ table[at] \in Fat /\ Search("kernel") = "none"
    /\ at' = at + 1
    /\ UNCHANGED <<table, overridden, step, written, torn, verdict>>

CopyInitrd ==
    /\ Trying("initrd") /\ Search("initrd") = "file"
    /\ written' = [written EXCEPT !["initrd"] = at]
    /\ Finish("ok")
    /\ UNCHANGED <<table, overridden, at, torn>>

(* Mutant: the search goes on in the next partition (BUG-13). *)
NoInitrdGoesOn ==
    /\ Trying("initrd") /\ Search("initrd") = "none"
    /\ at' = at + 1 /\ step' = "kernel"
    /\ UNCHANGED <<table, overridden, written, torn, verdict>>

(* Once a kernel was extracted the search does not go on. *)
NoInitrdHere ==
    /\ Trying("initrd") /\ Search("initrd") = "none"
    /\ Finish("InitrdNotFound")
    /\ UNCHANGED <<table, overridden, at, written, torn>>

NoPartitionLeft ==
    /\ step = "kernel" /\ at > Len(table)
    /\ Finish("KernelNotFound")
    /\ UNCHANGED <<table, overridden, at, written, torn>>

DiskNext ==
    \/ SkipPartition \/ ReopenFails \/ NoPartitionLeft
    \/ \E f \in {"kernel", "initrd"} : SearchFails(f) \/ CopyFails(f)
    \/ CopyKernel \/ NoKernelHere \/ CopyInitrd \/ NoInitrdHere

DiskSpec == DiskInit /\ [][DiskNext]_disk_vars
-----------------------------------------------------------------------------
(* The partitions with a kernel that the host's configuration leads to. *)
Bearing == {i \in DOMAIN table : table[i] \in Fat /\ table[i].kernel = "file"}

(* An extraction that succeeds took a whole kernel and a whole initrd, and *)
(* both from the first partition with a kernel: never a kernel of one      *)
(* system with the initrd of another.  An error names what is missing: no  *)
(* kernel only if no partition has one, and no initrd only if the first    *)
(* partition with a kernel has none that can be read (BUG-13).             *)
OneSystem ==
    /\ verdict = "ok" =>
            /\ ~torn
            /\ written["kernel"] = written["initrd"]
            /\ written["kernel"] \in Bearing /\ \A i \in Bearing : written["kernel"] <= i
    /\ verdict = "KernelNotFound" => Bearing = {} /\ written["kernel"] = 0
    /\ verdict = "InitrdNotFound" =>
            /\ at \in Bearing /\ \A i \in Bearing : at <= i
            /\ table[at].initrd # "file"
=============================================================================
