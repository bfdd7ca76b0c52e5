--------------------------- MODULE ExtractorCache ---------------------------
(***************************************************************************)
(* The artifact cache of one host: sync_host_cache of                      *)
(* bootycall-extractor/src/lib.rs with the ISO and disk extractors, step   *)
(* by step over the files kernel, initrd and metadata.json, while images   *)
(* are replaced, disappear and come back, and the process may crash.       *)
(*                                                                         *)
(* Syncs of one process never overlap: the first runs before the watcher   *)
(* is armed, the later ones on the watcher's single thread.                *)
(***************************************************************************)
EXTENDS Naturals

CONSTANTS
    Paths,              \* image paths a host configuration may name
    Overrides,          \* values of kernel_path and of initrd_path (None included)
    MaxVersion,         \* bound: how often an image is replaced
    Faults              \* injected faults: "crash", "metadata"

ASSUME CacheAssumption ==
    /\ Faults \subseteq {"crash", "metadata"}
    /\ MaxVersion \in Nat

(* What sync_host_cache reads of HostConfig. *)
HostConfigs == [image_path: Paths, kernel_path: Overrides, initrd_path: Overrides]

Absent == [state |-> "absent"]
Torn == [state |-> "torn"]              \* metadata.json cut short: does not parse

VARIABLES
    version,            \* per path: content of the image, newer = larger (mtime, size)
    present,            \* per path: the image file exists
    kernel, initrd,     \* the cached files: absent, or what they were cut from
    metadata,           \* metadata.json: absent, torn, or a key
    pc,                 \* where the sync is; "down" between crash and restart
    key,                \* the metadata the running sync will write
    method,             \* extractor being tried: "iso" first, then "disk"
    source,             \* version of the image the extractor has open
    result              \* how the last finished sync ended

images == <<version, present>>
files == <<kernel, initrd, metadata>>
vars == <<version, present, kernel, initrd, metadata, pc, key, method, source,
          result>>

Versions == 0..MaxVersion
Keys == [state: {"key"}, image_path: Paths, version: Versions,
         kernel_override: Overrides, initrd_override: Overrides]

(* The cache key of host for the image as it is now. *)
CacheMetadata(host) ==
    [state |-> "key", image_path |-> host.image_path,
     version |-> version[host.image_path],
     kernel_override |-> host.kernel_path, initrd_override |-> host.initrd_path]

(* A cached file: which image and version it is cut from, which override   *)
(* chose it inside the image, and whether all of it was written.           *)
Artifact(path, v, override, whole) ==
    [state |-> "file", image_path |-> path, version |-> v, override |-> override,
     whole |-> whole]

Artifacts == [state: {"file"}, image_path: Paths, version: Versions,
              override: Overrides, whole: BOOLEAN]

Init ==
    /\ version = [p \in Paths |-> 0] /\ present = [p \in Paths |-> TRUE]
    /\ kernel = Absent /\ initrd = Absent /\ metadata = Absent
    /\ pc = "idle" /\ method = "iso" /\ source = 0 /\ result = "none"
    /\ \E host \in HostConfigs : key = CacheMetadata(host)
-----------------------------------------------------------------------------
(* Mutant: an edit of initrd_path does not invalidate the cache. *)
cache_valid_any_initrd(k) ==
    /\ metadata \notin {Absent, Torn} /\ kernel # Absent /\ initrd # Absent
    /\ [metadata EXCEPT !.initrd_override = k.initrd_override] = k

(* cache_valid: all three files exist and every field of the key agrees. *)
cache_valid(k) ==
    /\ metadata # Absent /\ kernel # Absent /\ initrd # Absent
    /\ metadata = k

Return(r) == pc' = "idle" /\ result' = r

(* The stat and the validity check. *)
SyncImageMissing(host) ==
    /\ pc = "idle" /\ ~present[host.image_path]
    /\ Return("failed")
    /\ UNCHANGED <<images, files, key, method, source>>

(* Another stat error, or the host's cache directory cannot be made. *)
SyncCannotStart(host) ==
    /\ pc = "idle"
    /\ Return("failed")
    /\ UNCHANGED <<images, files, key, method, source>>

SyncHit(host) ==
    /\ pc = "idle" /\ present[host.image_path]
    /\ cache_valid(CacheMetadata(host))
    /\ Return("hit")
    /\ key' = CacheMetadata(host)
    /\ UNCHANGED <<images, files, method, source>>

(* Mutant: metadata.json is written before the files are extracted. *)
SyncMissRecordsFirst(host) ==
    /\ pc = "idle" /\ present[host.image_path]
    /\ ~cache_valid(CacheMetadata(host))
    /\ key' = CacheMetadata(host) /\ metadata' = key'
    /\ pc' = "open" /\ method' = "iso"
    /\ UNCHANGED <<images, kernel, initrd, source, result>>

SyncMiss(host) ==
    /\ pc = "idle" /\ present[host.image_path]
    /\ ~cache_valid(CacheMetadata(host))
    /\ key' = CacheMetadata(host)
    /\ pc' = "open" /\ method' = "iso"
    /\ UNCHANGED <<images, files, source, result>>

(* Open the image, find the kernel in it and create the kernel file, which *)
(* truncates the old one.  The open file keeps its version.                *)
OpenImage ==
    /\ pc = "open" /\ present[key.image_path]
    /\ source' = version[key.image_path]
    /\ kernel' = Artifact(key.image_path, source', key.kernel_override, FALSE)
    /\ pc' = "kernel"
    /\ UNCHANGED <<images, initrd, metadata, key, method, result>>

KernelCopied ==
    /\ pc = "kernel"
    /\ kernel' = Artifact(key.image_path, source, key.kernel_override, TRUE)
    /\ pc' = "initrd"
    /\ UNCHANGED <<images, initrd, metadata, key, method, source, result>>

InitrdCreated ==
    /\ pc = "initrd"
    /\ initrd' = Artifact(key.image_path, source, key.initrd_override, FALSE)
    /\ pc' = "initrdCopy"
    /\ UNCHANGED <<images, kernel, metadata, key, method, source, result>>

InitrdCopied ==
    /\ pc = "initrdCopy"
    /\ initrd' = Artifact(key.image_path, source, key.initrd_override, TRUE)
    /\ pc' = "metadata"
    /\ UNCHANGED <<images, kernel, metadata, key, method, source, result>>

(* Mutant: a failed extraction returns at once, without the cleanup. *)
ExtractFailsUncleaned ==
    /\ pc \in {"open", "kernel", "initrd", "initrdCopy"}
    /\ method' = "disk"
    /\ pc' = IF method = "iso" THEN "open" ELSE "idle"
    /\ result' = "failed"
    /\ UNCHANGED <<images, files, key, source>>

(* Not an image of this kind, kernel or initrd not found, artifact too     *)
(* large, or an I/O error: after ISO the disk extractor is tried, after    *)
(* that the cache is cleaned up.                                           *)
ExtractFails ==
    /\ pc \in {"open", "kernel", "initrd", "initrdCopy"}
    /\ method' = "disk"
    /\ pc' = IF method = "iso" THEN "open" ELSE "cleanup"
    /\ UNCHANGED <<images, files, key, source, result>>

CleanupKernel ==
    /\ pc = "cleanup" /\ pc' = "cleanupInitrd" /\ kernel' = Absent
    /\ UNCHANGED <<images, initrd, metadata, key, method, source, result>>

CleanupInitrd ==
    /\ pc = "cleanupInitrd" /\ pc' = "cleanupMetadata" /\ initrd' = Absent
    /\ UNCHANGED <<images, kernel, metadata, key, method, source, result>>

(* Mutant: the cleanup forgets metadata.json. *)
CleanupKeepsMetadata ==
    /\ pc = "cleanupMetadata"
    /\ Return("failed")
    /\ UNCHANGED <<images, files, key, method, source>>

CleanupMetadata ==
    /\ pc = "cleanupMetadata"
    /\ metadata' = Absent
    /\ Return("failed")
    /\ UNCHANGED <<images, kernel, initrd, key, method, source>>

(* fs::write: create or truncate, then write. *)
MetadataCreated ==
    /\ pc = "metadata"
    /\ metadata' = Torn
    /\ pc' = "metadataWrite"
    /\ UNCHANGED <<images, kernel, initrd, key, method, source, result>>

MetadataWritten ==
    /\ pc = "metadataWrite"
    /\ metadata' = key
    /\ Return("extracted")
    /\ UNCHANGED <<images, kernel, initrd, key, method, source>>

(* The `?` on write_to_file: nothing is cleaned up. *)
MetadataFails ==
    /\ "metadata" \in Faults /\ pc \in {"metadata", "metadataWrite"}
    /\ Return("failed")
    /\ UNCHANGED <<images, files, key, method, source>>

Crash ==
    /\ "crash" \in Faults /\ pc # "down"
    /\ pc' = "down"
    /\ UNCHANGED <<images, files, key, method, source, result>>

Restart ==
    /\ pc = "down"
    /\ Return("none")
    /\ UNCHANGED <<images, files, key, method, source>>
-----------------------------------------------------------------------------
(* The operator: replaces an image by a newer one (atomically, by rename), *)
(* removes it, puts it back.                                               *)
ReplaceImage(p) ==
    /\ version[p] < MaxVersion
    /\ version' = [version EXCEPT ![p] = @ + 1]
    /\ present' = [present EXCEPT ![p] = TRUE]
    /\ UNCHANGED <<files, pc, key, method, source, result>>

TogglePresent(p) ==
    /\ present' = [present EXCEPT ![p] = ~@]
    /\ UNCHANGED <<version, files, pc, key, method, source, result>>
-----------------------------------------------------------------------------
Sync == \E host \in HostConfigs :
            \/ SyncImageMissing(host) \/ SyncCannotStart(host)
            \/ SyncHit(host) \/ SyncMiss(host)

Extract ==
    \/ OpenImage \/ KernelCopied \/ InitrdCreated \/ InitrdCopied \/ ExtractFails
    \/ CleanupKernel \/ CleanupInitrd \/ CleanupMetadata
    \/ MetadataCreated \/ MetadataWritten \/ MetadataFails

Environment == \E p \in Paths : ReplaceImage(p) \/ TogglePresent(p)

Next == Sync \/ Extract \/ Crash \/ Restart \/ Environment

Spec == Init /\ [][Next]_vars
-----------------------------------------------------------------------------
(* Every variable has its type. *)
TypeOK ==
    /\ version \in [Paths -> Versions] /\ present \in [Paths -> BOOLEAN]
    /\ kernel \in {Absent} \cup Artifacts /\ initrd \in {Absent} \cup Artifacts
    /\ metadata \in {Absent, Torn} \cup Keys
    /\ pc \in {"idle", "open", "kernel", "initrd", "initrdCopy", "metadata",
               "metadataWrite", "cleanup", "cleanupInitrd", "cleanupMetadata",
               "down"}
    /\ key \in Keys /\ method \in {"iso", "disk"} /\ source \in Versions
    /\ result \in {"none", "hit", "extracted", "failed"}

(* Cut from exactly this version of this image, as this override selects. *)
IsFrom(f, path, v, override) == f = Artifact(path, v, override, TRUE)

(* Whenever a sync would find the cache valid for a host configuration and *)
(* the image as it is, both cached files are whole and were cut from that  *)
(* very image with those very overrides: lib.rs says that any field that   *)
(* drifted between what was extracted and the host config now forces       *)
(* re-extraction.                                                          *)
HitIsExact ==
    pc = "idle" =>
      \A host \in HostConfigs :
        cache_valid(CacheMetadata(host)) =>
          LET v == version[host.image_path]
          IN  /\ IsFrom(kernel, host.image_path, v, host.kernel_path)
              /\ IsFrom(initrd, host.image_path, v, host.initrd_path)

(* Between syncs the cache holds both files or none, whole, and from one   *)
(* version of one image: never the kernel of one image with the initrd of  *)
(* another, whatever extraction failed in between.                         *)
PairNeverMixed ==
    pc = "idle" =>
        \/ kernel = Absent /\ initrd = Absent
        \/ /\ kernel # Absent /\ initrd # Absent
           /\ kernel.whole /\ initrd.whole
           /\ kernel.image_path = initrd.image_path
           /\ kernel.version = initrd.version

(* A sync that extracts and reports success leaves the pair the host       *)
(* config asked for, no older than the image whose stat it recorded.       *)
ExtractedIsConfigured ==
    pc = "idle" /\ result = "extracted" =>
        /\ source >= key.version
        /\ IsFrom(kernel, key.image_path, source, key.kernel_override)
        /\ IsFrom(initrd, key.image_path, source, key.initrd_override)

Copying == {"kernel", "initrd", "initrdCopy", "metadata", "metadataWrite"}
Syncing == Copying \cup {"open", "cleanup", "cleanupInitrd", "cleanupMetadata"}

(* How far the running sync has got: it works on a version of the image no *)
(* older than the one its key records, the kernel file is complete from    *)
(* pc = "initrd" on, the initrd from pc = "metadata" on, and the cleanup   *)
(* removes them in turn.                                                   *)
Progress ==
    /\ pc \in Syncing => key.version <= version[key.image_path]
    /\ pc \in Copying => key.version <= source /\ source <= version[key.image_path]
    /\ pc \in {"initrd", "initrdCopy", "metadata", "metadataWrite"} =>
            IsFrom(kernel, key.image_path, source, key.kernel_override)
    /\ pc \in {"metadata", "metadataWrite"} =>
            IsFrom(initrd, key.image_path, source, key.initrd_override)
    /\ pc \in {"cleanupInitrd", "cleanupMetadata"} => kernel = Absent
    /\ pc = "cleanupMetadata" => initrd = Absent

(* The cache describes itself: both files are whole, from one version of   *)
(* the image metadata.json names, no older than the version it records.    *)
SelfDescribing ==
    \E v \in Versions :
        /\ metadata.version <= v /\ v <= version[metadata.image_path]
        /\ IsFrom(kernel, metadata.image_path, v, metadata.kernel_override)
        /\ IsFrom(initrd, metadata.image_path, v, metadata.initrd_override)

(* Without faults: between syncs the cache is empty or describes itself.   *)
SettledInv ==
    /\ TypeOK /\ Progress /\ ExtractedIsConfigured
    /\ pc # "down"
    /\ pc = "idle" =>
            \/ metadata = Absent /\ kernel = Absent /\ initrd = Absent
            \/ metadata \in Keys /\ SelfDescribing

(* With crashes, for one unchanging host configuration: metadata.json is   *)
(* about the current image only while the files are exactly that image's,  *)
(* and a sync that has begun to write has an older or no metadata.json.    *)
CrashInv ==
    /\ TypeOK /\ Progress
    /\ metadata \in Keys =>
            /\ metadata.version <= version[metadata.image_path]
            /\ metadata.version = version[metadata.image_path] =>
                    pc \notin Syncing /\ SelfDescribing
=============================================================================
