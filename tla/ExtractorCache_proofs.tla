------------------------ MODULE ExtractorCache_proofs ------------------------
(***************************************************************************)
(* Proofs about bootycall-extractor and the health probe.  Without faults  *)
(* the cache is never taken for valid wrongly, for any set of image paths  *)
(* and overrides; with crashes and failed metadata writes the same holds   *)
(* as long as the host's configuration stays as it is (ExtractorCache).    *)
(* Without crashes the probe is exact (ArtifactService).  The copy with    *)
(* its cap, the window into a partition and the search of a partition      *)
(* table are right for every size (CappedCopy, PartitionSlice,             *)
(* DiskExtract).  The search of an image finds the first match and comes   *)
(* to an end, in every tree of directories and with every cap (ImageWalk). *)
(***************************************************************************)
EXTENDS ArtifactService, DiskExtract, PartitionSlice, CappedCopy, ImageWalk,
        SequenceTheorems, WellFoundedInduction, TLAPS

NoFaults == Faults = {}
OneConfig == \A a, b \in HostConfigs : a = b

(* The key a sync computes is a key. *)
LEMMA KeyType ==
    ASSUME TypeOK, NEW host \in HostConfigs
    PROVE  /\ CacheMetadata(host) \in Keys
           /\ CacheMetadata(host).image_path = host.image_path
           /\ CacheMetadata(host).version = version[host.image_path]
           /\ CacheMetadata(host).kernel_override = host.kernel_path
           /\ CacheMetadata(host).initrd_override = host.initrd_path
  BY DEF TypeOK, CacheMetadata, Keys, HostConfigs

(* A key is neither of the other contents of metadata.json. *)
LEMMA KeyIsKey ==
    ASSUME NEW k \in Keys
    PROVE  k # Absent /\ k # Torn
  BY DEF Keys, Absent, Torn

(* Cached files are well formed, and not absent. *)
LEMMA ArtifactType ==
    ASSUME NEW p \in Paths, NEW v \in Versions, NEW o \in Overrides,
           NEW w \in BOOLEAN
    PROVE  /\ Artifact(p, v, o, w) \in Artifacts
           /\ Artifact(p, v, o, w) # Absent
           /\ Artifact(p, v, o, w).whole = w
           /\ Artifact(p, v, o, w).image_path = p
           /\ Artifact(p, v, o, w).version = v
  BY DEF Artifact, Artifacts, Absent

(* A file cut completely from an image is there, whole, and says so. *)
LEMMA WholeArtifact ==
    ASSUME NEW f, NEW p, NEW v, NEW o, IsFrom(f, p, v, o)
    PROVE  f # Absent /\ f.whole /\ f.image_path = p /\ f.version = v
  BY DEF IsFrom, Artifact, Absent

(* Every step keeps the types. *)
LEMMA TypeStep ==
    ASSUME TypeOK, [Next]_vars
    PROVE  TypeOK'
<1> USE DEF images, files, Return
<1>1. ASSUME NEW host \in HostConfigs,
             \/ SyncImageMissing(host) \/ SyncCannotStart(host)
             \/ SyncHit(host) \/ SyncMiss(host)
      PROVE  TypeOK'
  <2>1. CacheMetadata(host) \in Keys
    BY KeyType
  <2> QED
    BY <1>1, <2>1 DEF SyncImageMissing, SyncCannotStart, SyncHit, SyncMiss, TypeOK
<1>2. CASE OpenImage
  <2>1. /\ source' \in Versions
        /\ kernel' \in Artifacts
    BY <1>2, ArtifactType DEF OpenImage, TypeOK, Keys
  <2> QED
    BY <1>2, <2>1 DEF OpenImage, TypeOK
<1>3. CASE KernelCopied
  <2>1. kernel' \in Artifacts
    BY <1>3, ArtifactType DEF KernelCopied, TypeOK, Keys
  <2> QED
    BY <1>3, <2>1 DEF KernelCopied, TypeOK
<1>4. CASE InitrdCreated
  <2>1. initrd' \in Artifacts
    BY <1>4, ArtifactType DEF InitrdCreated, TypeOK, Keys
  <2> QED
    BY <1>4, <2>1 DEF InitrdCreated, TypeOK
<1>5. CASE InitrdCopied
  <2>1. initrd' \in Artifacts
    BY <1>5, ArtifactType DEF InitrdCopied, TypeOK, Keys
  <2> QED
    BY <1>5, <2>1 DEF InitrdCopied, TypeOK
<1>6. CASE ExtractFails
  BY <1>6 DEF ExtractFails, TypeOK
<1>7. CASE CleanupKernel \/ CleanupInitrd \/ CleanupMetadata
  BY <1>7 DEF CleanupKernel, CleanupInitrd, CleanupMetadata, TypeOK
<1>8. CASE MetadataCreated \/ MetadataWritten \/ MetadataFails
  BY <1>8 DEF MetadataCreated, MetadataWritten, MetadataFails, TypeOK
<1>9. CASE Crash \/ Restart
  BY <1>9 DEF Crash, Restart, TypeOK
<1>10. ASSUME NEW p \in Paths, ReplaceImage(p)
       PROVE  TypeOK'
  <2>1. version[p] + 1 \in Versions
    BY <1>10, CacheAssumption DEF ReplaceImage, TypeOK, Versions
  <2>2. version' \in [Paths -> Versions] /\ present' \in [Paths -> BOOLEAN]
    BY <1>10, <2>1 DEF ReplaceImage, TypeOK
  <2> QED
    BY <1>10, <2>2 DEF ReplaceImage, TypeOK
<1>11. ASSUME NEW p \in Paths, TogglePresent(p)
       PROVE  TypeOK'
  <2>1. present' \in [Paths -> BOOLEAN]
    BY <1>11 DEF TogglePresent, TypeOK
  <2> QED
    BY <1>11, <2>1 DEF TogglePresent, TypeOK
<1>12. CASE UNCHANGED vars
  BY <1>12 DEF vars, TypeOK
<1> QED
  BY <1>1, <1>2, <1>3, <1>4, <1>5, <1>6, <1>7, <1>8, <1>9, <1>10, <1>11, <1>12
  DEF Next, Sync, Extract, Environment

(* Images only get newer. *)
LEMMA VersionsGrow ==
    ASSUME TypeOK, [Next]_vars, NEW p \in Paths
    PROVE  /\ version[p] \in Nat /\ version'[p] \in Nat
           /\ version[p] <= version'[p]
<1>1. version' = version \/ \E q \in Paths : ReplaceImage(q)
  BY DEF Next, Sync, Extract, Environment, SyncImageMissing, SyncCannotStart, SyncHit, SyncMiss,
         OpenImage, KernelCopied, InitrdCreated, InitrdCopied, ExtractFails,
         CleanupKernel, CleanupInitrd, CleanupMetadata, MetadataCreated,
         MetadataWritten, MetadataFails, Crash, Restart, TogglePresent, vars, images
<1>2. version[p] \in Nat
  BY CacheAssumption DEF TypeOK, Versions
<1>3. CASE version' = version
  BY <1>2, <1>3
<1>4. CASE \E q \in Paths : ReplaceImage(q)
  BY <1>2, <1>4 DEF ReplaceImage, TypeOK
<1> QED
  BY <1>1, <1>3, <1>4

(* Every step keeps track of how far the sync has got. *)
LEMMA ProgressStep ==
    ASSUME TypeOK, Progress, [Next]_vars
    PROVE  Progress'
<1> USE DEF images, files, Return, Syncing, Copying, IsFrom
<1>0. key.image_path \in Paths /\ key.version \in Nat /\ source \in Nat
  BY CacheAssumption DEF TypeOK, Keys, Versions
<1>1. ASSUME NEW host \in HostConfigs,
             \/ SyncImageMissing(host) \/ SyncCannotStart(host)
             \/ SyncHit(host) \/ SyncMiss(host)
      PROVE  Progress'
  <2>1. /\ CacheMetadata(host).image_path = host.image_path
        /\ CacheMetadata(host).version = version[host.image_path]
    BY KeyType
  <2>2. version[host.image_path] \in Nat
    BY CacheAssumption DEF TypeOK, HostConfigs, Versions
  <2>3. CASE SyncImageMissing(host) \/ SyncCannotStart(host) \/ SyncHit(host)
    BY <2>3 DEF SyncImageMissing, SyncCannotStart, SyncHit, Progress
  <2>4. CASE SyncMiss(host)
    <3>1. pc' = "open" /\ key' = CacheMetadata(host) /\ version' = version
      BY <2>4 DEF SyncMiss
    <3>2. key'.version <= version'[key'.image_path]
      BY <2>1, <2>2, <3>1
    <3> QED
      BY <3>1, <3>2 DEF Progress
  <2> QED
    BY <1>1, <2>3, <2>4
<1>2. CASE OpenImage
  <2>1. version[key.image_path] \in Nat
    BY <1>0, CacheAssumption DEF TypeOK, Versions
  <2> QED
    BY <1>0, <1>2, <2>1 DEF OpenImage, Progress
<1>3. CASE KernelCopied \/ InitrdCreated \/ InitrdCopied
  BY <1>3 DEF KernelCopied, InitrdCreated, InitrdCopied, Progress
<1>4. CASE ExtractFails
  BY <1>4 DEF ExtractFails, Progress
<1>5. CASE CleanupKernel \/ CleanupInitrd \/ CleanupMetadata
  BY <1>5 DEF CleanupKernel, CleanupInitrd, CleanupMetadata, Progress
<1>6. CASE MetadataCreated \/ MetadataWritten \/ MetadataFails
  BY <1>6 DEF MetadataCreated, MetadataWritten, MetadataFails, Progress
<1>7. CASE Crash \/ Restart
  BY <1>7 DEF Crash, Restart, Progress
<1>8. CASE Environment
  <2>1. UNCHANGED <<kernel, initrd, metadata, pc, key, method, source>>
    BY <1>8 DEF Environment, ReplaceImage, TogglePresent
  <2>2. /\ version[key.image_path] \in Nat /\ version'[key.image_path] \in Nat
        /\ version[key.image_path] <= version'[key.image_path]
    BY <1>0, VersionsGrow
  <2>3. key'.version = key.version /\ key'.image_path = key.image_path
    BY <2>1
  <2>4. pc' \in Syncing => key'.version <= version'[key'.image_path]
    BY <1>0, <2>1, <2>2, <2>3 DEF Progress
  <2>5. pc' \in Copying => key'.version <= source' /\ source' <= version'[key'.image_path]
    BY <1>0, <2>1, <2>2, <2>3 DEF Progress
  <2> QED
    BY <2>1, <2>4, <2>5 DEF Progress
<1>9. CASE UNCHANGED vars
  BY <1>9 DEF vars, Progress
<1> QED
  BY <1>1, <1>2, <1>3, <1>4, <1>5, <1>6, <1>7, <1>8, <1>9
  DEF Next, Sync, Extract

(* A cache that describes itself keeps doing so while images get newer. *)
LEMMA SelfDescribingStep ==
    ASSUME TypeOK, [Next]_vars, metadata \in Keys, SelfDescribing,
           UNCHANGED <<kernel, initrd, metadata>>
    PROVE  SelfDescribing'
<1>1. PICK v \in Versions :
        /\ metadata.version <= v /\ v <= version[metadata.image_path]
        /\ IsFrom(kernel, metadata.image_path, v, metadata.kernel_override)
        /\ IsFrom(initrd, metadata.image_path, v, metadata.initrd_override)
  BY DEF SelfDescribing
<1>2. metadata.image_path \in Paths /\ v \in Nat
  BY CacheAssumption DEF Keys, Versions
<1>3. /\ version[metadata.image_path] \in Nat
      /\ version'[metadata.image_path] \in Nat
      /\ version[metadata.image_path] <= version'[metadata.image_path]
  BY <1>2, VersionsGrow
<1>4. v <= version'[metadata.image_path]
  BY <1>1, <1>2, <1>3
<1> QED
  BY <1>1, <1>4 DEF SelfDescribing, IsFrom

(* Writing metadata.json completes a cache that describes itself. *)
LEMMA WrittenDescribes ==
    ASSUME TypeOK, Progress, MetadataWritten
    PROVE  metadata' \in Keys /\ SelfDescribing'
<1>1. /\ key \in Keys /\ source \in Versions /\ metadata' = key
      /\ UNCHANGED <<version, kernel, initrd, key, source>>
  BY DEF TypeOK, MetadataWritten, images
<1>2. /\ key.version <= source /\ source <= version[key.image_path]
      /\ IsFrom(kernel, key.image_path, source, key.kernel_override)
      /\ IsFrom(initrd, key.image_path, source, key.initrd_override)
  BY DEF Progress, MetadataWritten, Copying
<1> QED
  BY <1>1, <1>2 DEF SelfDescribing, IsFrom

-----------------------------------------------------------------------------
(* Without faults every step preserves SettledInv. *)
LEMMA SettledStep ==
    ASSUME NoFaults, SettledInv, [Next]_vars
    PROVE  SettledInv'
<1>1. TypeOK' /\ Progress'
  BY TypeStep, ProgressStep DEF SettledInv
<1>2. pc' # "down"
  BY DEF SettledInv, NoFaults, Next, Sync, Extract, Environment, SyncImageMissing,
         SyncCannotStart, SyncHit, SyncMiss, OpenImage, KernelCopied, InitrdCreated, InitrdCopied,
         ExtractFails, CleanupKernel, CleanupInitrd, CleanupMetadata,
         MetadataCreated, MetadataWritten, MetadataFails, Crash, Restart,
         ReplaceImage, TogglePresent, vars, Return
<1> DEFINE Settled == \/ metadata = Absent /\ kernel = Absent /\ initrd = Absent
                      \/ metadata \in Keys /\ SelfDescribing
<1>3. CASE MetadataWritten
  <2>1. metadata' \in Keys /\ SelfDescribing'
    BY <1>3, WrittenDescribes DEF SettledInv
  <2>2. ExtractedIsConfigured'
    BY <1>3 DEF SettledInv, Progress, MetadataWritten, Copying,
                ExtractedIsConfigured, IsFrom
  <2> QED
    BY <1>1, <1>2, <2>1, <2>2 DEF SettledInv
<1>4. CASE CleanupMetadata
  <2>1. Settled'
    BY <1>4 DEF SettledInv, Progress, CleanupMetadata
  <2>2. ExtractedIsConfigured'
    BY <1>4 DEF CleanupMetadata, Return, ExtractedIsConfigured
  <2> QED
    BY <1>1, <1>2, <2>1, <2>2 DEF SettledInv
<1>5. CASE pc' # "idle"
  BY <1>1, <1>2, <1>5 DEF SettledInv, ExtractedIsConfigured
<1>6. CASE pc = "idle" /\ pc' = "idle"
  <2>1. UNCHANGED <<kernel, initrd, metadata>>
    BY <1>6 DEF Next, Sync, Extract, Environment, SyncImageMissing,
         SyncCannotStart, SyncHit, SyncMiss, OpenImage, KernelCopied, InitrdCreated, InitrdCopied,
         ExtractFails, CleanupKernel, CleanupInitrd, CleanupMetadata,
         MetadataCreated, MetadataWritten, MetadataFails, Crash, Restart,
         ReplaceImage, TogglePresent, vars, files
  <2>2. Settled'
    BY <1>6, <2>1, SelfDescribingStep DEF SettledInv
  <2>3. result' = "extracted" => UNCHANGED <<result, key, source>>
    BY <1>6 DEF Next, Sync, Extract, Environment, SyncImageMissing,
         SyncCannotStart, SyncHit, SyncMiss, OpenImage, KernelCopied, InitrdCreated, InitrdCopied,
         ExtractFails, CleanupKernel, CleanupInitrd, CleanupMetadata,
         MetadataCreated, MetadataWritten, MetadataFails, Crash, Restart,
         ReplaceImage, TogglePresent, vars, Return
  <2>4. ExtractedIsConfigured'
    BY <1>6, <2>1, <2>3 DEF SettledInv, ExtractedIsConfigured, IsFrom
  <2> QED
    BY <1>1, <1>2, <2>2, <2>4 DEF SettledInv
<1>7. pc = "idle" \/ pc' # "idle" \/ MetadataWritten \/ CleanupMetadata
  BY DEF SettledInv, NoFaults, Next, Sync, Extract, Environment, SyncImageMissing,
         SyncCannotStart, SyncHit, SyncMiss, OpenImage, KernelCopied, InitrdCreated, InitrdCopied,
         ExtractFails, CleanupKernel, CleanupInitrd,
         MetadataCreated, MetadataFails, Crash, Restart,
         ReplaceImage, TogglePresent, vars, Return
<1> QED
  BY <1>3, <1>4, <1>5, <1>6, <1>7

(* A cache that describes itself is valid for no host configuration but    *)
(* the one it was made for.                                                *)
LEMMA DescribedIsExact ==
    ASSUME TypeOK, metadata \in Keys, SelfDescribing, NEW host \in HostConfigs,
           cache_valid(CacheMetadata(host))
    PROVE  /\ IsFrom(kernel, host.image_path, version[host.image_path], host.kernel_path)
           /\ IsFrom(initrd, host.image_path, version[host.image_path], host.initrd_path)
<1>1. metadata = CacheMetadata(host)
  BY DEF cache_valid
<1>2. /\ metadata.image_path = host.image_path
      /\ metadata.version = version[host.image_path]
      /\ metadata.kernel_override = host.kernel_path
      /\ metadata.initrd_override = host.initrd_path
  BY <1>1, KeyType
<1>3. PICK v \in Versions :
        /\ metadata.version <= v /\ v <= version[metadata.image_path]
        /\ IsFrom(kernel, metadata.image_path, v, metadata.kernel_override)
        /\ IsFrom(initrd, metadata.image_path, v, metadata.initrd_override)
  BY DEF SelfDescribing
<1>4. v \in Nat /\ version[host.image_path] \in Nat
  BY CacheAssumption DEF TypeOK, Versions, HostConfigs
<1>5. v = version[host.image_path]
  BY <1>2, <1>3, <1>4
<1> QED
  BY <1>2, <1>3, <1>5

(* SettledInv implies the properties it is meant for. *)
LEMMA SettledImplies ==
    ASSUME SettledInv
    PROVE  HitIsExact /\ PairNeverMixed /\ ExtractedIsConfigured
<1>1. HitIsExact
  BY DescribedIsExact DEF SettledInv, HitIsExact, cache_valid
<1>2. PairNeverMixed
  <2>1. ASSUME metadata \in Keys, SelfDescribing, pc = "idle"
        PROVE  PairNeverMixed
    <3>1. PICK v \in Versions :
            /\ IsFrom(kernel, metadata.image_path, v, metadata.kernel_override)
            /\ IsFrom(initrd, metadata.image_path, v, metadata.initrd_override)
      BY <2>1 DEF SelfDescribing
    <3>2. /\ kernel # Absent /\ kernel.whole
          /\ kernel.image_path = metadata.image_path /\ kernel.version = v
      BY <3>1, WholeArtifact
    <3>3. /\ initrd # Absent /\ initrd.whole
          /\ initrd.image_path = metadata.image_path /\ initrd.version = v
      BY <3>1, WholeArtifact
    <3> QED
      BY <3>2, <3>3 DEF PairNeverMixed
  <2> QED
    BY <2>1 DEF SettledInv, PairNeverMixed
<1> QED
  BY <1>1, <1>2 DEF SettledInv

(* The initial states: an empty cache. *)
LEMMA InitSettled == Init => SettledInv /\ CrashInv
<1> SUFFICES ASSUME Init PROVE SettledInv /\ CrashInv
  OBVIOUS
<1>1. PICK host \in HostConfigs : key = CacheMetadata(host)
  BY DEF Init
<1>2. 0 \in Versions
  BY CacheAssumption DEF Versions
<1>3. version \in [Paths -> Versions] /\ present \in [Paths -> BOOLEAN]
  BY <1>2 DEF Init
<1>4. key \in Keys
  BY <1>1, <1>3 DEF CacheMetadata, Keys, HostConfigs
<1>5. TypeOK
  BY <1>2, <1>3, <1>4 DEF Init, TypeOK
<1>6. Progress /\ ExtractedIsConfigured
  BY DEF Init, Progress, ExtractedIsConfigured, Syncing, Copying
<1>7. metadata \notin Keys
  BY KeyIsKey DEF Init
<1> QED
  BY <1>5, <1>6, <1>7 DEF Init, SettledInv, CrashInv

-----------------------------------------------------------------------------
(* With crashes and one host configuration every step preserves CrashInv. *)
LEMMA CrashStep ==
    ASSUME OneConfig, CrashInv, [Next]_vars
    PROVE  CrashInv'
<1>1. TypeOK' /\ Progress' /\ TypeOK /\ Progress
  BY TypeStep, ProgressStep DEF CrashInv
<1> SUFFICES ASSUME metadata' \in Keys
             PROVE  /\ metadata'.version <= version'[metadata'.image_path]
                    /\ metadata'.version = version'[metadata'.image_path] =>
                            pc' \notin Syncing /\ SelfDescribing'
  BY <1>1 DEF CrashInv
<1>2. metadata'.image_path \in Paths /\ metadata'.version \in Nat
  BY CacheAssumption DEF Keys, Versions
<1>3. /\ version[metadata'.image_path] \in Nat /\ version'[metadata'.image_path] \in Nat
      /\ version[metadata'.image_path] <= version'[metadata'.image_path]
  BY <1>1, <1>2, VersionsGrow
<1>4. CASE MetadataWritten
  <2>1. SelfDescribing'
    BY <1>1, <1>4, WrittenDescribes
  <2>2. pc' = "idle"
    BY <1>4 DEF MetadataWritten, Return
  <2>3. PICK v \in Versions : metadata'.version <= v /\ v <= version'[metadata'.image_path]
    BY <2>1 DEF SelfDescribing
  <2>4. v \in Nat
    BY CacheAssumption DEF Versions
  <2> QED
    BY <1>2, <1>3, <2>1, <2>2, <2>3, <2>4 DEF Syncing, Copying
<1>5. CASE ~MetadataWritten
  <2>1. metadata' = metadata
    BY <1>5, KeyIsKey DEF Next, Sync, Extract, Environment, SyncImageMissing,
         SyncCannotStart, SyncHit, SyncMiss, OpenImage, KernelCopied, InitrdCreated, InitrdCopied,
         ExtractFails, CleanupKernel, CleanupInitrd, CleanupMetadata,
         MetadataCreated, MetadataFails, Crash, Restart,
         ReplaceImage, TogglePresent, vars, files
  <2>2. /\ metadata \in Keys
        /\ metadata.version <= version[metadata.image_path]
        /\ metadata.version = version[metadata.image_path] =>
                pc \notin Syncing /\ SelfDescribing
    BY <2>1 DEF CrashInv
  <2>3. metadata'.version <= version'[metadata'.image_path]
    BY <1>2, <1>3, <2>1, <2>2
  <2>4. ASSUME metadata'.version = version'[metadata'.image_path]
        PROVE  pc' \notin Syncing /\ SelfDescribing'
    <3>1. metadata.version = version[metadata.image_path]
      BY <1>2, <1>3, <2>1, <2>2, <2>4
    <3>2. pc \notin Syncing /\ SelfDescribing
      BY <2>2, <3>1
    <3>3. UNCHANGED <<kernel, initrd>>
      BY <3>2 DEF Next, Sync, Extract, Environment, SyncImageMissing,
         SyncCannotStart, SyncHit, SyncMiss, OpenImage, KernelCopied, InitrdCreated, InitrdCopied,
         ExtractFails, CleanupKernel, CleanupInitrd, CleanupMetadata,
         MetadataCreated, MetadataWritten, MetadataFails, Crash, Restart,
         ReplaceImage, TogglePresent, vars, files, Syncing, Copying
    <3>4. SelfDescribing'
      BY <1>1, <2>1, <2>2, <3>2, <3>3, SelfDescribingStep
    <3>5. ASSUME NEW host \in HostConfigs
          PROVE  ~SyncMiss(host)
      <4>1. metadata.image_path \in Paths /\ metadata.kernel_override \in Overrides
            /\ metadata.initrd_override \in Overrides
        BY <2>2 DEF Keys
      <4>2. [image_path |-> metadata.image_path, kernel_path |-> metadata.kernel_override,
             initrd_path |-> metadata.initrd_override] = host
        BY <4>1 DEF OneConfig, HostConfigs
      <4>3. /\ metadata.image_path = host.image_path
            /\ metadata.kernel_override = host.kernel_path
            /\ metadata.initrd_override = host.initrd_path
        BY <4>2
      <4>4. metadata = CacheMetadata(host)
        BY <2>2, <3>1, <4>3 DEF Keys, CacheMetadata
      <4>5. kernel # Absent /\ initrd # Absent
        <5>1. PICK v \in Versions :
                /\ IsFrom(kernel, metadata.image_path, v, metadata.kernel_override)
                /\ IsFrom(initrd, metadata.image_path, v, metadata.initrd_override)
          BY <3>2 DEF SelfDescribing
        <5> QED
          BY <5>1, WholeArtifact
      <4>6. cache_valid(CacheMetadata(host))
        BY <2>2, <4>4, <4>5, KeyIsKey DEF cache_valid
      <4> QED
        BY <4>6 DEF SyncMiss
    <3>6. pc' \notin Syncing
      BY <3>2, <3>5 DEF Next, Sync, Extract, Environment, SyncImageMissing,
         SyncCannotStart, SyncHit, OpenImage, KernelCopied, InitrdCreated, InitrdCopied,
         ExtractFails, CleanupKernel, CleanupInitrd, CleanupMetadata,
         MetadataCreated, MetadataWritten, MetadataFails, Crash, Restart,
         ReplaceImage, TogglePresent, vars, Return, Syncing, Copying
    <3> QED
      BY <3>4, <3>6
  <2> QED
    BY <2>3, <2>4
<1> QED
  BY <1>4, <1>5

(* CrashInv implies that a hit is exact. *)
LEMMA CrashImplies ==
    ASSUME CrashInv
    PROVE  HitIsExact
<1> SUFFICES ASSUME NEW host \in HostConfigs, cache_valid(CacheMetadata(host))
             PROVE  /\ IsFrom(kernel, host.image_path, version[host.image_path],
                              host.kernel_path)
                    /\ IsFrom(initrd, host.image_path, version[host.image_path],
                              host.initrd_path)
  BY DEF HitIsExact
<1>1. TypeOK /\ metadata = CacheMetadata(host)
  BY DEF CrashInv, cache_valid
<1>2. metadata \in Keys /\ metadata.version = version[metadata.image_path]
  BY <1>1, KeyType
<1>3. SelfDescribing
  BY <1>2 DEF CrashInv
<1> QED
  BY <1>1, <1>2, <1>3, DescribedIsExact

-----------------------------------------------------------------------------
(* Without faults, whatever configurations a host is given and however its *)
(* images change and extractions fail: a cache hit is exact.               *)
THEOREM HitIsExactWithoutFaults ==
    ASSUME NoFaults PROVE Spec => []HitIsExact
<1>1. SettledInv /\ [Next]_vars => SettledInv'
  BY SettledStep
<1>2. SettledInv => HitIsExact
  BY SettledImplies
<1>3. Init => SettledInv
  BY InitSettled
<1> QED
  BY <1>1, <1>2, <1>3, PTL DEF Spec

(* Without faults the cache never holds a mixed or incomplete pair between *)
(* syncs, and a successful extraction leaves the configured pair.          *)
THEOREM PairsWithoutFaults ==
    ASSUME NoFaults PROVE Spec => [](PairNeverMixed /\ ExtractedIsConfigured)
<1>1. SettledInv /\ [Next]_vars => SettledInv'
  BY SettledStep
<1>2. SettledInv => PairNeverMixed /\ ExtractedIsConfigured
  BY SettledImplies
<1>3. Init => SettledInv
  BY InitSettled
<1> QED
  BY <1>1, <1>2, <1>3, PTL DEF Spec

(* With crashes and failed metadata writes at any point, a cache hit is    *)
(* exact as long as the host's configuration does not change.              *)
THEOREM HitIsExactAcrossCrashes ==
    ASSUME OneConfig PROVE Spec => []HitIsExact
<1>1. CrashInv /\ [Next]_vars => CrashInv'
  BY CrashStep
<1>2. CrashInv => HitIsExact
  BY CrashImplies
<1>3. Init => CrashInv
  BY InitSettled
<1> QED
  BY <1>1, <1>2, <1>3, PTL DEF Spec

(* Without faults every sync, extraction and cleanup keeps the inductive   *)
(* invariant: between syncs the cache is empty or describes itself.        *)
THEOREM SettledInvariant ==
    ASSUME NoFaults PROVE Spec => []SettledInv
<1>1. SettledInv /\ [Next]_vars => SettledInv'
  BY SettledStep
<1>2. Init => SettledInv
  BY InitSettled
<1> QED
  BY <1>1, <1>2, PTL DEF Spec
-----------------------------------------------------------------------------
(* The pair and the health probe, as long as the process does not crash;   *)
(* metadata.json may fail to be written.                                   *)
NoCrashes == "crash" \notin Faults

PairInv == TypeOK /\ Progress /\ pc # "down" /\ PairNeverMixed

(* Between two syncs nobody touches the files. *)
LEMMA IdleKeepsFiles ==
    ASSUME [Next]_vars, pc = "idle", pc' = "idle"
    PROVE  UNCHANGED <<kernel, initrd>>
BY DEF Next, Sync, Extract, Environment, SyncImageMissing, SyncCannotStart, SyncHit,
       SyncMiss, OpenImage, KernelCopied, InitrdCreated, InitrdCopied, ExtractFails,
       CleanupKernel, CleanupInitrd, CleanupMetadata, MetadataCreated, MetadataWritten,
       MetadataFails, Crash, Restart, ReplaceImage, TogglePresent, vars, files

(* A sync that ends, in whatever way, leaves a whole pair or nothing. *)
LEMMA PairStep ==
    ASSUME NoCrashes, PairInv, [Next]_vars
    PROVE  PairInv'
<1>1. TypeOK' /\ Progress'
  BY TypeStep, ProgressStep DEF PairInv
<1>2. pc' # "down"
  BY DEF PairInv, NoCrashes, Next, Sync, Extract, Environment, SyncImageMissing,
         SyncCannotStart, SyncHit, SyncMiss, OpenImage, KernelCopied, InitrdCreated,
         InitrdCopied, ExtractFails, CleanupKernel, CleanupInitrd, CleanupMetadata,
         MetadataCreated, MetadataWritten, MetadataFails, Crash, Restart,
         ReplaceImage, TogglePresent, vars, Return
<1>3. CASE MetadataWritten \/ MetadataFails
  <2>1. pc \in {"metadata", "metadataWrite"} /\ UNCHANGED <<kernel, initrd>>
    BY <1>3 DEF MetadataWritten, MetadataFails, files
  <2>2. /\ IsFrom(kernel, key.image_path, source, key.kernel_override)
        /\ IsFrom(initrd, key.image_path, source, key.initrd_override)
    BY <2>1 DEF PairInv, Progress
  <2>3. /\ kernel # Absent /\ kernel.whole
        /\ kernel.image_path = key.image_path /\ kernel.version = source
    BY <2>2, WholeArtifact
  <2>4. /\ initrd # Absent /\ initrd.whole
        /\ initrd.image_path = key.image_path /\ initrd.version = source
    BY <2>2, WholeArtifact
  <2>5. PairNeverMixed'
    BY <2>1, <2>3, <2>4 DEF PairNeverMixed
  <2> QED
    BY <1>1, <1>2, <2>5 DEF PairInv
<1>4. CASE CleanupMetadata
  <2>1. kernel' = Absent /\ initrd' = Absent
    BY <1>4 DEF CleanupMetadata, PairInv, Progress
  <2> QED
    BY <1>1, <1>2, <2>1 DEF PairInv, PairNeverMixed
<1>5. CASE pc' # "idle"
  BY <1>1, <1>2, <1>5 DEF PairInv, PairNeverMixed
<1>6. CASE pc = "idle" /\ pc' = "idle"
  BY <1>1, <1>2, <1>6, IdleKeepsFiles DEF PairInv, PairNeverMixed
<1>7. \/ pc = "idle" \/ pc' # "idle"
      \/ MetadataWritten \/ MetadataFails \/ CleanupMetadata
  BY DEF PairInv, NoCrashes, Next, Sync, Extract, Environment, SyncImageMissing,
         SyncCannotStart, SyncHit, SyncMiss, OpenImage, KernelCopied, InitrdCreated,
         InitrdCopied, ExtractFails, CleanupKernel, CleanupInitrd, MetadataCreated,
         Crash, Restart, ReplaceImage, TogglePresent, vars, Return
<1> QED
  BY <1>3, <1>4, <1>5, <1>6, <1>7

(* As long as the process does not crash the cache never holds a mixed or  *)
(* incomplete pair between syncs, also when metadata.json cannot be        *)
(* written: then the next sync extracts again over a whole pair.           *)
THEOREM PairsWithoutCrashes ==
    ASSUME NoCrashes PROVE Spec => []PairNeverMixed
<1>1. Init => PairInv
  BY InitSettled, SettledImplies DEF Init, SettledInv, PairInv
<1>2. PairInv /\ [Next]_vars => PairInv'
  BY PairStep
<1>3. PairInv => PairNeverMixed
  BY DEF PairInv
<1> QED
  BY <1>1, <1>2, <1>3, PTL DEF Spec

Probes == [stage: {"none", "half", "answered"}, ready: BOOLEAN, quiet: BOOLEAN]

(* A probe that no extraction overlaps has seen what is there still. *)
ProbeHolds ==
    probe.quiet =>
        /\ pc = "idle"
        /\ probe.stage = "half" => (probe.ready <=> kernel # Absent)
        /\ probe.stage = "answered" =>
                (probe.ready <=> kernel # Absent /\ initrd # Absent)

ServiceInv == PairInv /\ probe \in Probes /\ ProbeHolds

(* Between syncs a file is found if and only if it is there. *)
LEMMA IdleProbeIsExact ==
    ASSUME PairInv, pc = "idle"
    PROVE  /\ \A found \in nonempty(kernel) : found <=> kernel # Absent
           /\ \A found \in nonempty(initrd) : found <=> initrd # Absent
<1>1. kernel # Absent => kernel.whole
  BY DEF PairInv, PairNeverMixed
<1>2. initrd # Absent => initrd.whole
  BY DEF PairInv, PairNeverMixed
<1>3. ASSUME NEW file, file # Absent => file.whole, NEW found \in nonempty(file)
      PROVE  found <=> file # Absent
  <2>1. CASE file = Absent
    <3>1. nonempty(file) = {FALSE}
      BY <2>1 DEF nonempty
    <3>2. found = FALSE
      BY <1>3, <3>1
    <3> QED
      BY <2>1, <3>2
  <2>2. CASE file # Absent
    <3>1. nonempty(file) = {TRUE}
      BY <1>3, <2>2 DEF nonempty
    <3>2. found = TRUE
      BY <1>3, <3>1
    <3> QED
      BY <2>2, <3>2
  <2> QED
    BY <2>1, <2>2
<1> QED
  BY <1>1, <1>2, <1>3

(* The parts of a probe. *)
LEMMA ProbeParts ==
    /\ \A s \in {"none", "half", "answered"}, r \in BOOLEAN, q \in BOOLEAN :
          /\ Probe(s, r, q) \in Probes
          /\ Probe(s, r, q).stage = s /\ Probe(s, r, q).ready = r
          /\ Probe(s, r, q).quiet = q
    /\ \A p \in Probes, q \in BOOLEAN :
          /\ [p EXCEPT !.quiet = q] \in Probes
          /\ [p EXCEPT !.quiet = q].stage = p.stage
          /\ [p EXCEPT !.quiet = q].ready = p.ready
          /\ [p EXCEPT !.quiet = q].quiet = q
BY DEF Probe, Probes

(* What the probe looks at is a set of answers. *)
LEMMA AnswerType ==
    ASSUME NEW file
    PROVE  nonempty(file) \subseteq BOOLEAN
BY DEF nonempty

(* A step of the cache ends the quiet, or leaves the files alone. *)
LEMMA CacheStepKeeps ==
    ASSUME NoCrashes, ServiceInv, CacheStep
    PROVE  ServiceInv'
<1>1. PairInv'
  BY PairStep DEF CacheStep, ServiceInv
<1>2. pc' # "down" /\ [Next]_vars
  BY <1>1 DEF PairInv, CacheStep
<1> DEFINE q == probe.quiet /\ pc' = "idle"
<1>3. q \in BOOLEAN
  OBVIOUS
<1>4. probe' = [probe EXCEPT !.quiet = q]
  BY <1>2 DEF CacheStep
<1>5. q => probe.quiet /\ pc' = "idle"
  OBVIOUS
<1> HIDE DEF q
<1>6. /\ probe' \in Probes /\ probe'.stage = probe.stage
      /\ probe'.ready = probe.ready /\ probe'.quiet = q
  BY <1>3, <1>4, ProbeParts DEF ServiceInv
<1>7. ASSUME probe'.quiet
      PROVE  /\ pc' = "idle"
             /\ probe'.stage = "half" => (probe'.ready <=> kernel' # Absent)
             /\ probe'.stage = "answered" =>
                     (probe'.ready <=> kernel' # Absent /\ initrd' # Absent)
  <2>1. probe.quiet /\ pc' = "idle"
    BY <1>5, <1>6, <1>7
  <2>2. /\ pc = "idle"
        /\ probe.stage = "half" => (probe.ready <=> kernel # Absent)
        /\ probe.stage = "answered" =>
                (probe.ready <=> kernel # Absent /\ initrd # Absent)
    BY <2>1 DEF ServiceInv, ProbeHolds
  <2>3. kernel' = kernel /\ initrd' = initrd
    BY <1>2, <2>1, <2>2, IdleKeepsFiles
  <2> QED
    BY <1>6, <2>1, <2>2, <2>3
<1>8. ProbeHolds'
  BY <1>7 DEF ProbeHolds
<1> QED
  BY <1>1, <1>6, <1>8 DEF ServiceInv

(* The probe's two steps, which leave the cache alone. *)
LEMMA ProbeStepKeeps ==
    ASSUME ServiceInv, HealthKernel \/ HealthInitrd
    PROVE  ServiceInv'
<1>0. PairInv /\ probe \in Probes
  BY DEF ServiceInv
<1>1. UNCHANGED vars
  BY DEF HealthKernel, HealthInitrd
<1>2. UNCHANGED <<version, kernel, initrd, metadata, pc, present, key, method, source,
                  result>>
  BY <1>1 DEF vars
<1>3. PairInv'
  <2>1. TypeOK'
    BY <1>1, TypeStep, <1>0 DEF PairInv
  <2>2. Progress'
    BY <1>1, ProgressStep, <1>0 DEF PairInv
  <2>3. PairNeverMixed' /\ pc' # "down"
    BY <1>0, <1>2 DEF PairInv, PairNeverMixed
  <2> QED
    BY <2>1, <2>2, <2>3 DEF PairInv
<1>4. CASE HealthKernel
  <2>1. PICK ready \in nonempty(kernel) : probe' = Probe("half", ready, pc = "idle")
    BY <1>4 DEF HealthKernel
  <2> DEFINE q == pc = "idle"
  <2>2. ready \in BOOLEAN /\ q \in BOOLEAN /\ probe' = Probe("half", ready, q)
    BY <2>1, AnswerType
  <2>3. q => (ready <=> kernel # Absent)
    BY <1>0, <2>1, IdleProbeIsExact
  <2>4. q => pc = "idle"
    OBVIOUS
  <2> HIDE DEF q
  <2>5. /\ probe' \in Probes /\ probe'.stage = "half" /\ probe'.ready = ready
        /\ probe'.quiet = q
    BY <2>2, ProbeParts
  <2>6. ProbeHolds'
    BY <1>2, <2>3, <2>4, <2>5 DEF ProbeHolds
  <2> QED
    BY <1>3, <2>5, <2>6 DEF ServiceInv
<1>5. CASE HealthInitrd
  <2>1. probe.stage = "half"
    BY <1>5 DEF HealthInitrd
  <2>2. PICK found \in nonempty(initrd) :
            probe' = Probe("answered", probe.ready /\ found, probe.quiet)
    BY <1>5 DEF HealthInitrd
  <2> DEFINE r == probe.ready /\ found
  <2>3. r \in BOOLEAN /\ probe.quiet \in BOOLEAN /\ probe.ready \in BOOLEAN
    BY <1>0 DEF Probes
  <2>4. probe' = Probe("answered", r, probe.quiet)
    BY <2>2
  <2>5. r <=> probe.ready /\ found
    OBVIOUS
  <2> HIDE DEF r
  <2>6. /\ probe' \in Probes /\ probe'.stage = "answered" /\ probe'.ready = r
        /\ probe'.quiet = probe.quiet
    BY <2>3, <2>4, ProbeParts
  <2>7. ASSUME probe.quiet
        PROVE  pc = "idle" /\ (r <=> kernel # Absent /\ initrd # Absent)
    <3>1. pc = "idle" /\ (probe.ready <=> kernel # Absent)
      BY <2>1, <2>7 DEF ServiceInv, ProbeHolds
    <3>2. found <=> initrd # Absent
      BY <1>0, <2>2, <3>1, IdleProbeIsExact
    <3> QED
      BY <2>5, <3>1, <3>2
  <2>8. ProbeHolds'
    BY <1>2, <2>6, <2>7 DEF ProbeHolds
  <2> QED
    BY <1>3, <2>6, <2>8 DEF ServiceInv
<1> QED
  BY <1>4, <1>5

(* As long as the process does not crash, whether or not metadata.json     *)
(* can be written: host_cache_ready, looking at the two files one after    *)
(* the other without a lock, answers healthy if and only if a whole pair   *)
(* from one image is there, unless an extraction overlaps the probe.       *)
THEOREM HealthWithoutCrashes ==
    ASSUME NoCrashes PROVE ServiceSpec => []HealthIsTrue
<1>1. ServiceInit => ServiceInv
  <2> SUFFICES ASSUME ServiceInit PROVE ServiceInv
    OBVIOUS
  <2>1. PairInv
    BY InitSettled, SettledImplies DEF ServiceInit, SettledInv, PairInv
  <2>2. probe = Probe("none", FALSE, FALSE)
    BY DEF ServiceInit, NoProbe
  <2>3. probe \in Probes /\ probe.quiet = FALSE
    BY <2>2, ProbeParts
  <2> QED
    BY <2>1, <2>3 DEF ServiceInv, ProbeHolds
<1>2. ServiceInv /\ [ServiceNext]_service_vars => ServiceInv'
  <2> SUFFICES ASSUME ServiceInv, [ServiceNext]_service_vars PROVE ServiceInv'
    OBVIOUS
  <2>1. CASE UNCHANGED service_vars
    <3>1. UNCHANGED <<probe, vars>> /\ UNCHANGED <<kernel, initrd, pc>>
      BY <2>1 DEF service_vars, vars
    <3>2. PairInv'
      BY <3>1, PairStep DEF ServiceInv
    <3> QED
      BY <3>1, <3>2 DEF ServiceInv, ProbeHolds
  <2> QED
    BY <2>1, CacheStepKeeps, ProbeStepKeeps DEF ServiceNext
<1>3. ServiceInv => HealthIsTrue
  <2> SUFFICES ASSUME ServiceInv, probe.stage = "answered", probe.quiet
               PROVE  probe.ready <=>
                        /\ kernel # Absent /\ initrd # Absent
                        /\ kernel.whole /\ initrd.whole
                        /\ kernel.image_path = initrd.image_path
                        /\ kernel.version = initrd.version
    BY DEF HealthIsTrue
  <2>1. pc = "idle" /\ (probe.ready <=> kernel # Absent /\ initrd # Absent)
    BY DEF ServiceInv, ProbeHolds
  <2>2. \/ kernel = Absent /\ initrd = Absent
        \/ /\ kernel # Absent /\ initrd # Absent
           /\ kernel.whole /\ initrd.whole
           /\ kernel.image_path = initrd.image_path
           /\ kernel.version = initrd.version
    BY <2>1 DEF ServiceInv, PairInv, PairNeverMixed
  <2> QED
    BY <2>1, <2>2
<1> QED
  BY <1>1, <1>2, <1>3, PTL DEF ServiceSpec
-----------------------------------------------------------------------------
(***************************************************************************)
(* copy_capped.                                                            *)
(***************************************************************************)
(* While copy_capped runs, all that was read was written, and that is      *)
(* within the cap and within the artifact.                                 *)
CopyInv ==
    /\ size \in Nat /\ limit \in Nat \cup {Unbounded}
    /\ read \in 0..size /\ out \in 0..read
    /\ copy_result \in {"copying", "ok", "too_large", "failed"}
    /\ copy_result = "copying" => out = read
    /\ CapIsExact

(* However an artifact comes in pieces and wherever the copy fails:        *)
(* max_artifact_bytes bounds what is written, an artifact is refused       *)
(* exactly if it is larger, and a copy that succeeds is whole; for every   *)
(* size of buffer, artifact and cap.                                       *)
THEOREM CapsAreExact == CopySpec => []CapIsExact
<1>1. CopyInit => CopyInv
  BY CopyAssumption DEF CopyInit, CopyInv, CapIsExact
<1>2. CopyInv /\ [CopyNext]_copy_vars => CopyInv'
  <2> SUFFICES ASSUME CopyInv, [CopyNext]_copy_vars PROVE CopyInv'
    OBVIOUS
  <2>1. ASSUME NEW n \in 1..Buffer, CopyPiece(n) PROVE CopyInv'
    BY <2>1, CopyAssumption DEF CopyPiece, Pieces, over, CopyInv, CapIsExact
  <2>2. ASSUME NEW n \in 1..Buffer, RefuseArtifact(n) PROVE CopyInv'
    BY <2>2, CopyAssumption DEF RefuseArtifact, Pieces, over, CopyInv, CapIsExact
  <2>3. CASE EndOfArtifact
    BY <2>3, CopyAssumption DEF EndOfArtifact, CopyInv, CapIsExact
  <2>4. CASE Fail
    BY <2>4, CopyAssumption DEF Fail, Pieces, over, CopyInv, CapIsExact
  <2>5. CASE UNCHANGED copy_vars
    BY <2>5 DEF copy_vars, CopyInv, CapIsExact
  <2> QED
    BY <2>1, <2>2, <2>3, <2>4, <2>5 DEF CopyNext
<1>3. CopyInv => CapIsExact
  BY DEF CopyInv
<1> QED
  BY <1>1, <1>2, <1>3, PTL DEF CopySpec
-----------------------------------------------------------------------------
(***************************************************************************)
(* PartitionSlice.                                                         *)
(***************************************************************************)
(* A seek may go far beyond the partition, but never below it. *)
SliceInv ==
    /\ pos \in Nat
    /\ access \in [at: Nat, count: Nat]
    /\ InsidePartition

(* SeekTo from one of the three bases keeps the position a natural number. *)
LEMMA SeekStaysNat ==
    ASSUME pos \in Nat, NEW base \in Nat, NEW offset \in Int, SeekTo(base, offset)
    PROVE  pos' \in Nat /\ UNCHANGED access
BY SliceAssumption DEF SeekTo, InI64, IMin

(* No sequence of reads, writes and seeks of the FAT reader touches a byte *)
(* of the image outside the partition, wherever the partition table puts   *)
(* it and whatever the size of an offset.                                  *)
THEOREM SlicesStayInside == SliceSpec => []InsidePartition
<1>1. SliceInit => SliceInv
  BY SliceAssumption DEF SliceInit, SliceInv, InsidePartition, NoAccess
<1>2. SliceInv /\ [SliceNext]_slice_vars => SliceInv'
  <2> SUFFICES ASSUME SliceInv, [SliceNext]_slice_vars PROVE SliceInv'
    OBVIOUS
  <2>0. IMax \in Nat /\ Start \in Nat /\ Length \in Nat /\ Bufs \subseteq Nat
    BY SliceAssumption
  <2>1. ASSUME NEW n \in Bufs, Transfer(n) PROVE SliceInv'
    <3>1. PICK count \in 0..clamped(n) :
              access' = [at |-> Start + pos, count |-> count] /\ pos' = pos + count
      BY <2>1 DEF Transfer
    <3>2. pos \in Nat /\ pos < Length /\ n \in Nat
      BY <2>0, <2>1 DEF Transfer, SliceInv
    <3>3. count \in Nat /\ count <= Length - pos
      BY <2>0, <3>1, <3>2 DEF clamped, Smaller
    <3> QED
      BY <2>0, <3>1, <3>2, <3>3 DEF SliceInv, InsidePartition
  <2>2. CASE TransferAtEnd
    BY <2>0, <2>2 DEF TransferAtEnd, NoAccess, SliceInv, InsidePartition
  <2>3. CASE Seek
    <3>1. pos' \in Nat /\ UNCHANGED access
      BY <2>0, <2>3, SeekStaysNat DEF Seek, SliceInv, IMin, UMax
    <3> QED
      BY <3>1 DEF SliceInv, InsidePartition
  <2>4. CASE UNCHANGED slice_vars
    BY <2>4 DEF slice_vars, SliceInv, InsidePartition
  <2> QED
    BY <2>1, <2>2, <2>3, <2>4 DEF SliceNext
<1>3. SliceInv => InsidePartition
  BY DEF SliceInv
<1> QED
  BY <1>1, <1>2, <1>3, PTL DEF SliceSpec

(* A seek that succeeds goes exactly where it was asked to go, within the  *)
(* offsets of an i64, and one that fails leaves the position alone, for    *)
(* every width of the integers.                                            *)
THEOREM SeeksAreExact == SliceSpec => SeekIsExact
<1>1. ASSUME [SliceNext]_slice_vars
      PROVE  [seek' # seek =>
                IF seek'.ok THEN pos' = seek'.target /\ pos' \in 0..IMax
                ELSE pos' = seek'.before]_slice_vars
  <2> SUFFICES ASSUME seek' # seek
               PROVE  IF seek'.ok THEN pos' = seek'.target /\ pos' \in 0..IMax
                      ELSE pos' = seek'.before
    OBVIOUS
  <2>1. ASSUME NEW base, NEW offset, SeekTo(base, offset)
        PROVE  IF seek'.ok THEN pos' = seek'.target /\ pos' \in 0..IMax
               ELSE pos' = seek'.before
    <3> DEFINE ok == InI64(base) /\ InI64(base + offset) /\ base + offset >= 0
    <3>1. /\ pos' = IF ok THEN base + offset ELSE pos
          /\ seek' = [target |-> base + offset, ok |-> ok, before |-> pos]
      BY <2>1 DEF SeekTo
    <3>2. ok => base + offset \in 0..IMax
      BY SliceAssumption DEF InI64, IMin
    <3> HIDE DEF ok
    <3>3. seek'.ok = ok /\ seek'.target = base + offset /\ seek'.before = pos
      BY <3>1
    <3> QED
      BY <3>1, <3>2, <3>3
  <2>2. Seek
    BY <1>1 DEF SliceNext, Transfer, TransferAtEnd, slice_vars
  <2> QED
    BY <2>1, <2>2 DEF Seek
<1> QED
  BY <1>1, PTL DEF SliceSpec, SeekIsExact
-----------------------------------------------------------------------------
(***************************************************************************)
(* extract_from_disk.                                                      *)
(***************************************************************************)
DiskType ==
    /\ table \in Seq(Fat \cup Unusable)
    /\ at \in Nat \ {0}
    /\ step \in {"kernel", "initrd", "done"}
    /\ written \in [{"kernel", "initrd"} -> Nat]
    /\ torn \in BOOLEAN

(* Nothing was written before the first partition with a kernel.  It is    *)
(* that partition the initrd is looked for in.                             *)
SearchHolds ==
    /\ \A i \in Bearing : at <= i
    /\ step = "kernel" => written["kernel"] = 0 /\ ~torn
    /\ step = "initrd" => at \in Bearing /\ written["kernel"] = at /\ ~torn
    /\ step # "done" => verdict = "pending"

DiskInv == DiskType /\ SearchHolds /\ OneSystem

(* The table of a bounded search is a sequence. *)
LEMMA TableType ==
    ASSUME DiskInit PROVE table \in Seq(Fat \cup Unusable)
<1>1. PICK n \in 0..MaxPartitions : table \in [1..n -> Fat \cup Unusable]
  BY DEF DiskInit, BoundedSeq, SeqOf
<1> QED
  BY <1>1, DiskAssumption

(* A partition that is passed over has no kernel that could be found. *)
LEMMA PassedOver ==
    ASSUME DiskType, Trying("kernel"),
           table[at] \in Unusable \/ Search("kernel") = "none"
    PROVE  at \notin Bearing
BY DEF DiskType, Trying, Search, Bearing, Fat, Unusable, Lookup

(* A step that only moves on to the next partition. *)
LEMMA MoveOn ==
    ASSUME DiskInv, at \notin Bearing, step = "kernel", at' = at + 1,
           UNCHANGED <<table, overridden, step, written, torn, verdict>>
    PROVE  DiskInv'
<1>1. Bearing' = Bearing /\ Bearing \subseteq Nat
  BY DEF Bearing, DiskInv, DiskType
<1>2. \A i \in Bearing : at + 1 <= i
  BY <1>1 DEF DiskInv, DiskType, SearchHolds
<1>3. verdict = "pending"
  BY DEF DiskInv, SearchHolds
<1>4. DiskType'
  BY DEF DiskInv, DiskType
<1>5. SearchHolds'
  BY <1>1, <1>2 DEF DiskInv, SearchHolds
<1>6. OneSystem'
  BY <1>3 DEF OneSystem
<1> QED
  BY <1>4, <1>5, <1>6 DEF DiskInv

(* A step that ends with an error that names nothing. *)
LEMMA EndsInError ==
    ASSUME DiskInv, Finish("error"), UNCHANGED <<table, overridden, at>>,
           written' \in [{"kernel", "initrd"} -> Nat], torn' \in BOOLEAN
    PROVE  DiskInv'
<1>1. Bearing' = Bearing
  BY DEF Bearing
<1>2. step' = "done" /\ verdict' = "error"
  BY DEF Finish
<1>3. DiskType'
  BY <1>2 DEF DiskInv, DiskType
<1>4. SearchHolds'
  BY <1>1, <1>2 DEF DiskInv, SearchHolds
<1>5. OneSystem'
  BY <1>2 DEF OneSystem
<1> QED
  BY <1>3, <1>4, <1>5 DEF DiskInv

(* An extraction from a disk image that succeeds took a whole kernel and a *)
(* whole initrd of the first partition with a kernel, and one that fails   *)
(* names what is missing, for a partition table of any length.             *)
THEOREM ExtractsOneSystem == DiskSpec => []OneSystem
<1>1. DiskInit => DiskInv
  <2> SUFFICES ASSUME DiskInit PROVE DiskInv
    OBVIOUS
  <2>1. DiskType
    <3>1. table \in Seq(Fat \cup Unusable)
      BY TableType
    <3>2. written \in [{"kernel", "initrd"} -> Nat] /\ at \in Nat \ {0}
      BY DEF DiskInit
    <3>3. step = "kernel" /\ torn = FALSE
      BY DEF DiskInit
    <3> QED
      BY <3>1, <3>2, <3>3 DEF DiskType
  <2>2. Bearing \subseteq Nat \ {0}
    BY <2>1 DEF DiskType, Bearing
  <2>3. SearchHolds
    BY <2>1, <2>2 DEF DiskInit, SearchHolds
  <2>4. OneSystem
    BY DEF DiskInit, OneSystem
  <2> QED
    BY <2>1, <2>3, <2>4 DEF DiskInv
<1>2. DiskInv /\ [DiskNext]_disk_vars => DiskInv'
  <2> SUFFICES ASSUME DiskInv, [DiskNext]_disk_vars PROVE DiskInv'
    OBVIOUS
  <2>0. DiskType /\ SearchHolds /\ OneSystem
    BY DEF DiskInv
  <2>1. CASE SkipPartition
    <3>1. at \notin Bearing
      BY <2>0, <2>1, PassedOver DEF SkipPartition
    <3> QED
      BY <2>1, <3>1, MoveOn DEF SkipPartition, Trying
  <2>2. CASE ReopenFails
    BY <2>0, <2>2, EndsInError DEF ReopenFails, DiskType
  <2>3. CASE NoPartitionLeft
    <3>1. /\ step = "kernel" /\ at > Len(table) /\ step' = "done"
          /\ verdict' = "KernelNotFound"
          /\ UNCHANGED <<table, overridden, at, written, torn>>
      BY <2>3 DEF NoPartitionLeft, Finish
    <3>2. Bearing' = Bearing /\ Bearing = {}
      BY <2>0, <3>1 DEF Bearing, DiskType, SearchHolds
    <3>3. DiskType'
      BY <2>0, <3>1 DEF DiskType
    <3>4. SearchHolds'
      BY <2>0, <3>1, <3>2 DEF SearchHolds
    <3>5. OneSystem'
      BY <2>0, <3>1, <3>2 DEF SearchHolds, OneSystem
    <3> QED
      BY <3>3, <3>4, <3>5 DEF DiskInv
  <2>4. ASSUME NEW f \in {"kernel", "initrd"}, SearchFails(f) PROVE DiskInv'
    BY <2>0, <2>4, EndsInError DEF SearchFails, DiskType
  <2>5. ASSUME NEW f \in {"kernel", "initrd"}, CopyFails(f) PROVE DiskInv'
    BY <2>0, <2>5, EndsInError DEF CopyFails, DiskType
  <2>6. CASE CopyKernel
    <3>1. /\ step = "kernel" /\ at <= Len(table) /\ table[at] \in Fat
          /\ written' = [written EXCEPT !["kernel"] = at] /\ step' = "initrd"
          /\ UNCHANGED <<table, overridden, at, torn, verdict>>
      BY <2>6 DEF CopyKernel, Trying
    <3>2. table[at].kernel = "file"
      BY <2>6 DEF CopyKernel, Search
    <3>3. Bearing' = Bearing /\ at \in Bearing
      BY <2>0, <3>1, <3>2 DEF Bearing, DiskType
    <3>4. DiskType'
      BY <2>0, <3>1 DEF DiskType
    <3>5. SearchHolds'
      BY <2>0, <3>1, <3>3 DEF SearchHolds, DiskType
    <3>6. OneSystem'
      BY <2>0, <3>1 DEF SearchHolds, OneSystem
    <3> QED
      BY <3>4, <3>5, <3>6 DEF DiskInv
  <2>7. CASE NoKernelHere
    <3>1. at \notin Bearing
      BY <2>0, <2>7, PassedOver DEF NoKernelHere
    <3> QED
      BY <2>7, <3>1, MoveOn DEF NoKernelHere, Trying
  <2>8. CASE CopyInitrd
    <3>1. /\ step = "initrd" /\ step' = "done" /\ verdict' = "ok"
          /\ written' = [written EXCEPT !["initrd"] = at]
          /\ UNCHANGED <<table, overridden, at, torn>>
      BY <2>8 DEF CopyInitrd, Trying, Finish
    <3>2. Bearing' = Bearing
      BY <3>1 DEF Bearing
    <3>3. DiskType'
      BY <2>0, <3>1 DEF DiskType
    <3>4. SearchHolds'
      BY <2>0, <3>1, <3>2 DEF SearchHolds
    <3>5. written'["kernel"] = at /\ written'["initrd"] = at
      BY <2>0, <3>1 DEF DiskType, SearchHolds
    <3>6. OneSystem'
      BY <2>0, <3>1, <3>2, <3>5 DEF SearchHolds, OneSystem
    <3> QED
      BY <3>3, <3>4, <3>6 DEF DiskInv
  <2>9. CASE NoInitrdHere
    <3>1. /\ step = "initrd" /\ step' = "done" /\ verdict' = "InitrdNotFound"
          /\ UNCHANGED <<table, overridden, at, written, torn>>
      BY <2>9 DEF NoInitrdHere, Trying, Finish
    <3>2. Bearing' = Bearing
      BY <3>1 DEF Bearing
    <3>3. DiskType'
      BY <2>0, <3>1 DEF DiskType
    <3>4. SearchHolds'
      BY <2>0, <3>1, <3>2 DEF SearchHolds
    <3>5. table[at].initrd # "file"
      BY <2>9 DEF NoInitrdHere, Search
    <3>6. OneSystem'
      BY <2>0, <3>1, <3>2, <3>5 DEF SearchHolds, OneSystem
    <3> QED
      BY <3>3, <3>4, <3>6 DEF DiskInv
  <2>10. CASE UNCHANGED disk_vars
    BY <2>0, <2>10 DEF disk_vars, DiskInv, DiskType, SearchHolds, OneSystem, Bearing
  <2> QED
    BY <2>1, <2>2, <2>3, <2>4, <2>5, <2>6, <2>7, <2>8, <2>9, <2>10 DEF DiskNext
<1>3. DiskInv => OneSystem
  BY DEF DiskInv
<1> QED
  BY <1>1, <1>2, <1>3, PTL DEF DiskSpec
-----------------------------------------------------------------------------
(* Every nonempty set of naturals has a least element: induction over the  *)
(* naturals, as a fact about sets.                                         *)
LEMMA LeastElement ==
    ASSUME NEW T, T \subseteq Nat, T # {}
    PROVE  \E m \in T : \A k \in T : m <= k
<1>1. PICK m \in T : \A k \in T : <<k, m>> \notin OpToRel(<, Nat)
  BY WFMin, NatLessThanWellFounded, Zenon
<1>2. \A k \in T : ~(k < m)
  BY <1>1, Zenon DEF OpToRel
<1> QED  BY <1>2

Frames == [dir : Dirs, next : Nat \ {0}]

(* The directories of the calls under way. *)
StackDirs == [k \in 1..Len(stack) |-> stack[k].dir]

WalkTypeOK ==
    /\ contents \in [Dirs -> BoundedSeq(Files \cup Dirs, MaxEntries)]
    /\ stack \in Seq(Frames)
    /\ outcome \in {"walking", "found", "none", "failed"}

(* The inductive invariant behind WalkIsFirst.  The calls under way are a  *)
(* path of the image, and every path that decides is the one the search    *)
(* stands at or one it has still to come to.                               *)
WalkInv ==
    /\ WalkTypeOK
    /\ Len(stack) <= MaxDepth
    /\ outcome = "none" <=> stack = <<>>
    /\ stack # <<>> =>
        /\ Here \in Seq(Nat \ {0}) /\ Through(Here, StackDirs)
        /\ \A q \in Deciding : q = Here \/ Before(Here, q)
    /\ outcome = "none" => Deciding = {}
    /\ outcome = "found" => Here \in LeadingTo("match")
    /\ outcome = "failed" => Here \in LeadingTo("unreadable")

(* A function over 1..n is a sequence. *)
LEMMA FunctionIsSeq ==
    ASSUME NEW S, NEW n \in Nat, NEW f \in [1..n -> S]
    PROVE  f \in Seq(S) /\ Len(f) = n
  OBVIOUS

(* A sequence without its last element. *)
LEMMA FrontType ==
    ASSUME NEW S, NEW s \in Seq(S), Len(s) # 0
    PROVE  /\ Front(s) \in Seq(S) /\ Len(Front(s)) = Len(s) - 1
           /\ \A k \in 1..(Len(s) - 1) : Front(s)[k] = s[k]
<1> DEFINE n == Len(s) - 1
<1>1. Len(s) \in Nat \ {0} /\ n \in Nat /\ 1 \in Int /\ n \in Int
  OBVIOUS
<1>2. \A i \in 1..n : s[i] \in S
  BY <1>1
<1>3. /\ SubSeq(s, 1, n) \in Seq(S)
      /\ Len(SubSeq(s, 1, n)) = IF 1 <= n THEN n - 1 + 1 ELSE 0
      /\ \A i \in 1..(n - 1 + 1) : SubSeq(s, 1, n)[i] = s[1 + i - 1]
  <2> HIDE DEF n
  <2> QED  BY <1>1, <1>2, SubSeqProperties
<1>4. n - 1 + 1 = n /\ (IF 1 <= n THEN n - 1 + 1 ELSE 0) = n /\ \A i \in 1..n : 1 + i - 1 = i
  <2> HIDE DEF n
  <2>1. \A i \in Nat : i - 1 + 1 = i /\ 1 + i - 1 = i /\ (~(1 <= i) => i = 0)
    OBVIOUS
  <2> QED  BY <1>1, <2>1
<1> QED  BY <1>3, <1>4 DEF Front

(* The entries of a directory. *)
LEMMA ContentsType ==
    ASSUME WalkTypeOK, NEW d \in Dirs
    PROVE  /\ contents[d] \in Seq(Files \cup Dirs)
           /\ Len(contents[d]) \in Nat /\ Len(contents[d]) <= MaxEntries
           /\ \A i \in Nat \ {0} : i <= Len(contents[d]) => contents[d][i] \in Files \cup Dirs
<1>1. PICK m \in 0..MaxEntries : contents[d] \in [1..m -> Files \cup Dirs]
  BY DEF WalkTypeOK, BoundedSeq, SeqOf
<1>2. m \in Nat /\ m <= MaxEntries
  BY <1>1, WalkAssumption
<1>3. contents[d] \in Seq(Files \cup Dirs) /\ Len(contents[d]) = m
  BY <1>1, <1>2
<1> QED  BY <1>2, <1>3, <1>1

(* A path is a sequence of entry numbers. *)
LEMMA PathType ==
    ASSUME NEW p \in EntryPaths
    PROVE  /\ p \in Seq(Nat \ {0}) /\ p \in Seq(1..MaxEntries)
           /\ Len(p) \in 1..MaxDepth
<1>1. PICK n \in 1..MaxDepth : p \in [1..n -> 1..MaxEntries]
  BY DEF EntryPaths
<1>2. n \in Nat
  BY <1>1, WalkAssumption
<1>3. p \in Seq(1..MaxEntries) /\ Len(p) = n
  BY <1>1, <1>2, FunctionIsSeq
<1>4. p \in Seq(Nat \ {0})
  BY <1>3, SeqMonotonic, WalkAssumption
<1> QED  BY <1>3, <1>4

(* Two paths that begin with the same entries go through the same          *)
(* directories so far.                                                     *)
LEMMA SameDirs ==
    ASSUME NEW p \in Seq(Nat \ {0}), NEW q \in Seq(Nat \ {0}), NEW ds, NEW es,
           Through(p, ds), Through(q, es),
           NEW n \in Nat, n <= Len(p), n <= Len(q),
           \A j \in 1..(n - 1) : p[j] = q[j]
    PROVE  \A k \in 1..n : ds[k] = es[k]
<1> DEFINE Bad == {k \in 1..n : ds[k] # es[k]}
<1>1. SUFFICES ASSUME Bad # {}  PROVE FALSE
  OBVIOUS
<1>2. Bad \subseteq Nat
  OBVIOUS
<1>3. PICK m \in Bad : \A k \in Bad : m <= k
  BY <1>1, <1>2, LeastElement
<1>4. m \in 1..n /\ ds[m] # es[m]
  BY <1>3
<1>5. CASE m = 1
  BY <1>4, <1>5 DEF Through
<1>6. CASE m # 1
  <2>1. m - 1 \in 1..n /\ m - 1 \in 1..(n - 1) /\ m - 1 \notin Bad
    BY <1>3, <1>4, <1>6
  <2>2. ds[m - 1] = es[m - 1]
    BY <2>1
  <2>3. m - 1 \in 1..(Len(p) - 1) /\ m - 1 \in 1..(Len(q) - 1)
    BY <2>1
  <2>4. ds[m] = contents[ds[m - 1]][p[m - 1]]
    <3>1. contents[ds[m - 1]][p[m - 1]] = ds[(m - 1) + 1]
      BY <2>3 DEF Through
    <3> QED  BY <3>1, <1>4
  <2>5. es[m] = contents[es[m - 1]][q[m - 1]]
    <3>1. contents[es[m - 1]][q[m - 1]] = es[(m - 1) + 1]
      BY <2>3 DEF Through
    <3> QED  BY <3>1, <1>4
  <2> QED  BY <2>1, <2>2, <2>4, <2>5, <1>4
<1> QED  BY <1>5, <1>6

(* Of two different paths at most one is the earlier. *)
LEMMA BeforeAsymmetric ==
    ASSUME NEW p \in Seq(Nat \ {0}), NEW q \in Seq(Nat \ {0}),
           Before(p, q), Before(q, p)
    PROVE  FALSE
<1> DEFINE Diff(a, b, k) == k <= Len(b) /\ a[k] < b[k] /\ \A j \in 1..(k - 1) : a[j] = b[j]
<1>0. \A i \in 1..Len(p) : p[i] \in Nat
  OBVIOUS
<1>00. \A i \in 1..Len(q) : q[i] \in Nat
  OBVIOUS
<1>1. CASE \E k \in 1..Len(p) : Diff(p, q, k)
  <2>1. PICK k \in 1..Len(p) : Diff(p, q, k)
    BY <1>1
  <2>2. CASE \E i \in 1..Len(q) : Diff(q, p, i)
    <3>1. PICK i \in 1..Len(q) : Diff(q, p, i)
      BY <2>2
    <3>2. CASE i < k
      BY <3>1, <3>2, <2>1, <1>0, <1>00
    <3>3. CASE i = k
      BY <3>1, <3>3, <2>1, <1>0, <1>00
    <3>4. CASE k < i
      <4>1. k \in 1..(i - 1) /\ k \in 1..Len(q)
        BY <3>4
      <4>2. q[k] = p[k] /\ p[k] < q[k] /\ q[k] \in Nat
        BY <4>1, <3>1, <2>1, <1>00
      <4> QED  BY <4>2
    <3> QED  BY <3>2, <3>3, <3>4
  <2>3. CASE Len(q) < Len(p) /\ \A j \in 1..Len(q) : q[j] = p[j]
    BY <2>1, <2>3, <1>0, <1>00
  <2> QED  BY <2>2, <2>3 DEF Before
<1>2. CASE Len(p) < Len(q) /\ \A j \in 1..Len(p) : p[j] = q[j]
  <2>2. CASE \E i \in 1..Len(q) : Diff(q, p, i)
    BY <1>2, <2>2, <1>0, <1>00
  <2>3. CASE Len(q) < Len(p) /\ \A j \in 1..Len(q) : q[j] = p[j]
    BY <1>2, <2>3
  <2> QED  BY <2>2, <2>3 DEF Before
<1> QED  BY <1>1, <1>2 DEF Before

(* Where the search goes from a path h when it is done with the first m    *)
(* entries of it: a path q that was not behind h, and does not begin with  *)
(* these entries, is not behind the path g that follows.                   *)
LEMMA Forward ==
    ASSUME NEW h \in Seq(Nat \ {0}), NEW q \in Seq(Nat \ {0}), NEW g \in Seq(Nat \ {0}),
           NEW m \in 1..Len(h), Len(g) = m,
           g[m] = h[m] + 1, \A j \in 1..(m - 1) : g[j] = h[j],
           q = h \/ Before(h, q),
           ~(m <= Len(q) /\ \A j \in 1..m : q[j] = h[j])
    PROVE  q = g \/ Before(g, q)
<1>0. /\ \A i \in 1..Len(h) : h[i] \in Nat
      /\ \A i \in 1..Len(q) : q[i] \in Nat
      /\ m \in Nat /\ Len(h) \in Nat /\ Len(q) \in Nat
  OBVIOUS
<1>1. PICK k \in 1..Len(h) : k <= Len(q) /\ h[k] < q[k] /\ \A j \in 1..(k - 1) : h[j] = q[j]
  <2>1. q # h
    BY <1>0
  <2>2. ~(Len(h) < Len(q) /\ \A j \in 1..Len(h) : h[j] = q[j])
    BY <1>0
  <2> QED  BY <2>1, <2>2 DEF Before
<1>2. k <= m
  BY <1>0, <1>1
<1>3. CASE k < m
  <2>1. k \in 1..Len(g) /\ k <= Len(q) /\ g[k] < q[k]
    BY <1>3, <1>1
  <2>2. \A j \in 1..(k - 1) : g[j] = q[j]
    BY <1>3, <1>1
  <2> QED  BY <2>1, <2>2 DEF Before
<1>4. CASE k = m
  <2>1. \A j \in 1..(m - 1) : g[j] = q[j]
    BY <1>4, <1>1
  <2>2. g[m] <= q[m] /\ m <= Len(q) /\ g[m] \in Nat /\ q[m] \in Nat
    BY <1>4, <1>1, <1>0
  <2>3. CASE g[m] < q[m]
    <3>1. m \in 1..Len(g)
      BY Len(g) = m
    <3> QED  BY <2>1, <2>2, <2>3, <3>1 DEF Before
  <2>4. CASE g[m] = q[m]
    <3>1. \A j \in 1..m : g[j] = q[j]
      <4>1. \A j \in 1..m : j = m \/ j \in 1..(m - 1)
        OBVIOUS
      <4> QED  BY <4>1, <2>1, <2>4
    <3>2. CASE Len(q) = m
      <4>1. q = g
        BY <3>1, <3>2, SeqEqual
      <4> QED  BY <4>1
    <3>3. CASE m < Len(q)
      BY <3>1, <3>3 DEF Before
    <3> QED  BY <3>2, <3>3, <2>2, <1>0
  <2> QED  BY <2>2, <2>3, <2>4
<1> QED  BY <1>2, <1>3, <1>4

(* And where it goes when it descends: to the first entry below h. *)
LEMMA Downward ==
    ASSUME NEW h \in Seq(Nat \ {0}), NEW q \in Seq(Nat \ {0}), NEW g \in Seq(Nat \ {0}),
           Len(g) = Len(h) + 1, g[Len(h) + 1] = 1, \A j \in 1..Len(h) : g[j] = h[j],
           Before(h, q)
    PROVE  q = g \/ Before(g, q)
<1>0. /\ \A i \in 1..Len(q) : q[i] \in Nat \ {0}
      /\ Len(h) \in Nat /\ Len(q) \in Nat
  OBVIOUS
<1>1. CASE \E k \in 1..Len(h) : k <= Len(q) /\ h[k] < q[k] /\ \A j \in 1..(k - 1) : h[j] = q[j]
  <2>1. PICK k \in 1..Len(h) : k <= Len(q) /\ h[k] < q[k] /\ \A j \in 1..(k - 1) : h[j] = q[j]
    BY <1>1
  <2>2. k \in 1..Len(g) /\ k <= Len(q) /\ g[k] < q[k]
    BY <2>1, <1>0
  <2>3. \A j \in 1..(k - 1) : g[j] = q[j]
    BY <2>1, <1>0
  <2> QED  BY <2>2, <2>3 DEF Before
<1>2. CASE Len(h) < Len(q) /\ \A j \in 1..Len(h) : h[j] = q[j]
  <2> DEFINE m == Len(h) + 1
  <2>1. m \in 1..Len(g) /\ m <= Len(q) /\ g[m] = 1 /\ q[m] \in Nat \ {0}
    BY <1>2, <1>0
  <2>2. \A j \in 1..(m - 1) : g[j] = q[j]
    BY <1>2, <1>0
  <2>3. CASE g[m] < q[m]
    BY <2>1, <2>2, <2>3 DEF Before
  <2>4. CASE g[m] = q[m]
    <3>1. \A j \in 1..m : g[j] = q[j]
      <4>1. \A j \in 1..m : j = m \/ j \in 1..(m - 1)
        BY <1>0
      <4> QED  BY <4>1, <2>2, <2>4
    <3>2. CASE Len(q) = m
      <4>1. q = g
        BY <3>1, <3>2, SeqEqual
      <4> QED  BY <4>1
    <3>3. CASE m < Len(q)
      BY <3>1, <3>3 DEF Before
    <3> QED  BY <3>2, <3>3, <2>1, <1>0
  <2> QED  BY <2>1, <2>3, <2>4
<1> QED  BY <1>1, <1>2 DEF Before

(* The place of the search, while there are calls under way. *)
LEMMA HereType ==
    ASSUME WalkTypeOK, stack # <<>>
    PROVE  /\ Len(stack) \in Nat \ {0}
           /\ DOMAIN Here = 1..Len(stack)
           /\ Here[Len(stack)] = Top.next
           /\ \A k \in 1..(Len(stack) - 1) : Here[k] = stack[k].next - 1
           /\ Top \in Frames
           /\ StackDirs \in [1..Len(stack) -> Dirs]
           /\ StackDirs[Len(stack)] = Top.dir
<1>1. Len(stack) \in Nat \ {0}
  BY EmptySeq DEF WalkTypeOK
<1>2. \A k \in 1..Len(stack) : stack[k] \in Frames
  BY ElementOfSeq DEF WalkTypeOK
<1>3. /\ Len(stack) \in 1..Len(stack)
      /\ \A k \in 1..(Len(stack) - 1) : k \in 1..Len(stack) /\ k < Len(stack)
  BY <1>1
<1>4. Top \in Frames
  BY <1>2, <1>3 DEF Top, Last
<1>5. \A k \in 1..Len(stack) : stack[k].dir \in Dirs
  BY <1>2 DEF Frames
<1> QED  BY <1>1, <1>3, <1>4, <1>5 DEF Here, StackDirs, Top, Last

(* A path that leads somewhere and begins with the directories of the      *)
(* calls under way goes on with an entry of the innermost one.             *)
LEMMA GoesOn ==
    ASSUME WalkInv, stack # <<>>, NEW what, NEW q \in LeadingTo(what),
           Len(stack) <= Len(q),
           \A j \in 1..(Len(stack) - 1) : q[j] = Here[j]
    PROVE  /\ q[Len(stack)] <= Len(contents[Top.dir])
           /\ Len(q) = Len(stack) => contents[Top.dir][q[Len(stack)]] = what
           /\ Len(stack) < Len(q) => contents[Top.dir][q[Len(stack)]] \in Dirs
<1> DEFINE n == Len(stack)
<1>1. PICK es \in [1..Len(q) -> Dirs] : Through(q, es) /\ EndsIn(q, es[Len(q)], what)
  BY DEF LeadingTo
<1>2. q \in Seq(Nat \ {0}) /\ Len(q) \in Nat
  BY PathType DEF LeadingTo
<1>3. WalkTypeOK /\ Here \in Seq(Nat \ {0}) /\ Through(Here, StackDirs)
  BY DEF WalkInv
<1>4. n \in Nat \ {0} /\ Len(Here) = n
  BY <1>3, HereType, LenProperties
<1>5. StackDirs[n] = es[n]
  <2>1. \A k \in 1..n : StackDirs[k] = es[k]
    BY <1>1, <1>2, <1>3, <1>4, SameDirs
  <2> QED  BY <2>1, <1>4
<1>6. es[n] = Top.dir
  BY <1>3, <1>5, HereType
<1>7. CASE Len(q) = n
  BY <1>1, <1>6, <1>7 DEF EndsIn
<1>8. CASE n < Len(q)
  <2>1. n \in 1..(Len(q) - 1) /\ n + 1 \in 1..Len(q)
    BY <1>2, <1>4, <1>8
  <2>2. q[n] <= Len(contents[es[n]]) /\ contents[es[n]][q[n]] = es[n + 1]
    BY <1>1, <2>1 DEF Through
  <2> QED  BY <2>1, <2>2, <1>1, <1>6, <1>8
<1> QED  BY <1>2, <1>4, <1>7, <1>8

(* No path that decides begins with the entry the search stands at, if     *)
(* that is neither a match nor unreadable and it is not gone into.         *)
LEMMA NothingHere ==
    ASSUME WalkInv, stack # <<>>, ~AtEnd,
           Entry \notin {"match", "unreadable"},
           Entry \notin Dirs \/ MaxDepth <= Len(stack),
           NEW q \in Deciding
    PROVE  ~(Len(stack) <= Len(q) /\ \A j \in 1..Len(stack) : q[j] = Here[j])
<1> DEFINE n == Len(stack)
<1>1. SUFFICES ASSUME n <= Len(q), \A j \in 1..n : q[j] = Here[j]
               PROVE  FALSE
  OBVIOUS
<1>2. PICK what \in {"match", "unreadable"} : q \in LeadingTo(what)
  BY DEF Deciding
<1>3. n \in Nat \ {0} /\ q[n] = Top.next
  BY <1>1, HereType DEF WalkInv
<1>4. /\ Len(q) = n => Entry = what
      /\ n < Len(q) => Entry \in Dirs
  BY <1>1, <1>2, <1>3, GoesOn DEF Entry
<1>5. Len(q) \in 1..MaxDepth
  BY <1>2, PathType DEF LeadingTo
<1> QED  BY <1>1, <1>2, <1>3, <1>4, <1>5, WalkAssumption

(* What a path means depends on the image only. *)
LEMMA SameImage ==
    ASSUME contents' = contents
    PROVE  /\ Deciding' = Deciding
           /\ LeadingTo("match")' = LeadingTo("match")
           /\ LeadingTo("unreadable")' = LeadingTo("unreadable")
  BY DEF Deciding, LeadingTo, Through, EndsIn

(* The stack when the innermost call goes on with its next entry. *)
LEMMA AdvancedType ==
    ASSUME WalkTypeOK, stack # <<>>
    PROVE  /\ Advanced \in Seq(Frames) /\ Len(Advanced) = Len(stack)
           /\ \A k \in 1..(Len(stack) - 1) : Advanced[k] = stack[k]
           /\ Advanced[Len(stack)].dir = Top.dir
           /\ Advanced[Len(stack)].next = Top.next + 1
<1> DEFINE n == Len(stack)
           e == [stack[n] EXCEPT !.next = @ + 1]
<1>1. n \in Nat \ {0} /\ n \in 1..n /\ stack[n] = Top /\ Top \in Frames /\ stack \in Seq(Frames)
  BY HereType DEF Top, Last, WalkTypeOK
<1>2. e \in Frames /\ e.dir = Top.dir /\ e.next = Top.next + 1
  BY <1>1 DEF Frames
<1>3. Advanced = [stack EXCEPT ![n] = e]
  BY DEF Advanced
<1> HIDE DEF e
<1>4. /\ Advanced \in Seq(Frames) /\ Len(Advanced) = n
      /\ \A j \in 1..n : Advanced[j] = IF j = n THEN e ELSE stack[j]
  BY <1>1, <1>2, <1>3, ExceptSeq
<1> QED  BY <1>1, <1>2, <1>4

(* The search stays right when the stack becomes a path g that no path     *)
(* that decides is behind.                                                 *)
LEMMA KeepsWalkInv ==
    ASSUME WalkTypeOK, WalkTypeOK', contents' = contents, outcome' = "walking",
           stack' # <<>>, Len(stack') <= MaxDepth,
           Here' \in Seq(Nat \ {0}), Through(Here, StackDirs)',
           \A q \in Deciding : q = Here' \/ Before(Here', q)
    PROVE  WalkInv'
<1>1. Deciding' = Deciding
  BY SameImage
<1>2. \A q \in Deciding' : q = Here' \/ Before(Here', q)
  BY <1>1
<1>3. \A q \in Deciding' : (q = Here \/ Before(Here, q))'
  BY <1>2 DEF Before
<1> QED  BY <1>3 DEF WalkInv

(* The search moves on behind the first m entries of its path: it skips an *)
(* entry (m is the number of calls), or goes back to the caller of an      *)
(* exhausted directory (m is one less).                                    *)
LEMMA MovesOn ==
    ASSUME WalkInv, stack # <<>>, WalkTypeOK', contents' = contents, outcome' = "walking",
           NEW m \in 1..Len(stack), Len(stack') = m,
           \A k \in 1..m : stack'[k].dir = stack[k].dir,
           \A k \in 1..(m - 1) : stack'[k].next = stack[k].next,
           stack'[m].next = Here[m] + 1,
           \A q \in Deciding : ~(m <= Len(q) /\ \A j \in 1..m : q[j] = Here[j])
    PROVE  WalkInv'
<1> DEFINE n == Len(stack)
<1>1. /\ WalkTypeOK /\ n \in Nat \ {0} /\ n <= MaxDepth /\ MaxDepth \in Nat
      /\ Here \in Seq(Nat \ {0}) /\ Len(Here) = n
      /\ Through(Here, StackDirs)
      /\ \A q \in Deciding : q = Here \/ Before(Here, q)
  BY HereType, LenProperties, WalkAssumption DEF WalkInv
<1>2. stack' # <<>> /\ m \in Nat \ {0} /\ m <= n
  BY <1>1
<1>3. Here' = [k \in 1..m |-> IF k < m THEN stack'[k].next - 1 ELSE stack'[k].next]
  BY DEF Here
<1>4. \A k \in 1..(m - 1) : Here'[k] = Here[k]
  <2>1. \A k \in 1..(m - 1) : k \in 1..m /\ k < m /\ k \in 1..(n - 1)
    BY <1>1, <1>2
  <2>2. \A k \in 1..(n - 1) : Here[k] = stack[k].next - 1
    BY <1>1, HereType
  <2> QED  BY <2>1, <2>2, <1>3
<1>5. Here'[m] = Here[m] + 1
  BY <1>2, <1>3
<1>6. Here' \in Seq(Nat \ {0}) /\ Len(Here') = m
  <2>1. \A k \in 1..m : Here[k] \in Nat \ {0}
    BY <1>1, <1>2
  <2>2. \A k \in 1..m : Here'[k] \in Nat \ {0}
    <3>1. \A k \in 1..m : k = m \/ k \in 1..(m - 1)
      OBVIOUS
    <3> QED  BY <3>1, <2>1, <1>4, <1>5
  <2>3. Here' \in [1..m -> Nat \ {0}]
    BY <2>2, <1>3
  <2> QED  BY <2>3, <1>2, FunctionIsSeq
<1>7. StackDirs' = [k \in 1..m |-> stack[k].dir]
  BY DEF StackDirs
<1>8. Through(Here, StackDirs)'
  <2>1. \A k \in 1..m : StackDirs'[k] = StackDirs[k]
    BY <1>1, <1>2, <1>7 DEF StackDirs
  <2>2. StackDirs'[1] = Root
    BY <2>1, <1>1, <1>2 DEF Through
  <2>3. ASSUME NEW k \in 1..(m - 1)
        PROVE  /\ Here'[k] <= Len(contents[StackDirs'[k]])
               /\ contents[StackDirs'[k]][Here'[k]] = StackDirs'[k + 1]
    <3>1. k \in 1..(n - 1) /\ k \in 1..m /\ k + 1 \in 1..m /\ Here'[k] = Here[k]
      BY <1>1, <1>2, <1>4
    <3>2. /\ Here[k] <= Len(contents[StackDirs[k]])
          /\ contents[StackDirs[k]][Here[k]] = StackDirs[k + 1]
      BY <3>1, <1>1 DEF Through
    <3> QED  BY <3>1, <3>2, <2>1
  <2> QED  BY <2>2, <2>3, <1>6 DEF Through
<1>9. ASSUME NEW q \in Deciding
      PROVE  q = Here' \/ Before(Here', q)
  <2>1. q \in Seq(Nat \ {0})
    BY PathType DEF Deciding, LeadingTo
  <2>2. q = Here \/ Before(Here, q)
    BY <1>1
  <2>3. m \in 1..Len(Here)
    BY <1>1
  <2> QED  BY <2>1, <2>2, <2>3, <1>1, <1>4, <1>5, <1>6, Forward
<1>10. Len(stack') <= MaxDepth
  BY <1>1, <1>2
<1> QED  BY <1>1, <1>2, <1>6, <1>8, <1>9, <1>10, KeepsWalkInv

(* An entry is passed over. *)
LEMMA EntryPassed ==
    ASSUME WalkInv, Walking, ~AtEnd, stack' = Advanced, UNCHANGED <<contents, outcome>>,
           Entry \notin {"match", "unreadable"},
           Entry \notin Dirs \/ MaxDepth <= Len(stack)
    PROVE  WalkInv'
<1>1. WalkTypeOK /\ stack # <<>> /\ outcome' = "walking"
  BY DEF WalkInv, Walking
<1>2. WalkTypeOK'
  BY <1>1, AdvancedType DEF WalkTypeOK
<1>3. Len(stack) \in 1..Len(stack) /\ Here[Len(stack)] = Top.next
  BY <1>1, HereType
<1>4. /\ Len(stack') = Len(stack)
      /\ \A k \in 1..(Len(stack) - 1) : stack'[k] = stack[k]
      /\ stack'[Len(stack)].dir = Top.dir
      /\ stack'[Len(stack)].next = Here[Len(stack)] + 1
  BY <1>1, <1>3, AdvancedType
<1>5. \A k \in 1..Len(stack) : stack'[k].dir = stack[k].dir
  <2>1. \A k \in 1..Len(stack) : k = Len(stack) \/ k \in 1..(Len(stack) - 1)
    BY <1>1, HereType
  <2> QED  BY <2>1, <1>4 DEF Top, Last
<1>6. \A q \in Deciding : ~(Len(stack) <= Len(q) /\ \A j \in 1..Len(stack) : q[j] = Here[j])
  BY <1>1, NothingHere
<1> QED  BY <1>1, <1>2, <1>3, <1>4, <1>5, <1>6, MovesOn

(* A directory is gone into. *)
LEMMA DescendKeeps ==
    ASSUME WalkInv, Descend
    PROVE  WalkInv'
<1> DEFINE n == Len(stack)
<1>1. /\ WalkTypeOK /\ stack # <<>> /\ outcome' = "walking" /\ contents' = contents
      /\ ~AtEnd /\ Entry \in Dirs /\ stack' = Append(Advanced, Frame(Entry))
  BY DEF WalkInv, Descend, Walking
<1>2. /\ n \in Nat \ {0} /\ n < MaxDepth /\ MaxDepth \in Nat
      /\ Here \in Seq(Nat \ {0}) /\ Len(Here) = n
      /\ Through(Here, StackDirs)
      /\ \A q \in Deciding : q = Here \/ Before(Here, q)
  <2>1. n \in Nat \ {0} /\ ~(n >= MaxDepth) /\ MaxDepth \in Nat
    BY <1>1, HereType, WalkAssumption DEF Descend, depth_exceeded
  <2> QED  BY <2>1, <1>1, HereType, LenProperties DEF WalkInv
<1>3. Frame(Entry) \in Frames /\ Frame(Entry).dir = Entry /\ Frame(Entry).next = 1
  BY <1>1 DEF Frame, Frames
<1>4. /\ stack' \in Seq(Frames) /\ Len(stack') = n + 1
      /\ \A k \in 1..n : stack'[k] = Advanced[k]
      /\ stack'[n + 1] = Frame(Entry)
  BY <1>1, <1>3, AdvancedType, AppendProperties
<1>5. WalkTypeOK' /\ stack' # <<>> /\ Len(stack') <= MaxDepth
  <2>1. stack' # <<>> /\ Len(stack') <= MaxDepth
    BY <1>2, <1>4
  <2> QED  BY <2>1, <1>1, <1>4 DEF WalkTypeOK
<1>6. /\ \A k \in 1..n : stack'[k].dir = stack[k].dir
      /\ \A k \in 1..n : stack'[k].next - 1 = Here[k]
  <2>1. \A k \in 1..n : k = n \/ k \in 1..(n - 1)
    BY <1>2
  <2>2. \A k \in 1..(n - 1) : stack'[k] = stack[k] /\ Here[k] = stack[k].next - 1
    BY <1>1, <1>2, <1>4, AdvancedType, HereType
  <2>3. stack'[n].dir = stack[n].dir /\ stack'[n].next - 1 = Here[n]
    <3>1. Top.next \in Nat /\ Here[n] = Top.next /\ n \in 1..n /\ Top = stack[n]
      BY <1>1, HereType DEF Frames, Top, Last
    <3>2. stack'[n].dir = Top.dir /\ stack'[n].next = Top.next + 1
      BY <3>1, <1>1, <1>4, AdvancedType
    <3> QED  BY <3>1, <3>2
  <2> QED  BY <2>1, <2>2, <2>3
<1>7. /\ Here' \in [1..(n + 1) -> Nat \ {0}]
      /\ \A k \in 1..n : Here'[k] = Here[k]
      /\ Here'[n + 1] = 1
  <2>1. Here' = [k \in 1..(n + 1) |-> IF k < n + 1 THEN stack'[k].next - 1 ELSE stack'[k].next]
    BY <1>4 DEF Here
  <2>2. \A k \in 1..n : k \in 1..(n + 1) /\ k < n + 1 /\ Here[k] \in Nat \ {0}
    BY <1>2
  <2>3. \A k \in 1..n : Here'[k] = Here[k]
    BY <2>1, <2>2, <1>6
  <2>4. n + 1 \in 1..(n + 1) /\ Here'[n + 1] = 1
    BY <2>1, <1>2, <1>3, <1>4
  <2>5. \A k \in 1..(n + 1) : k \in 1..n \/ k = n + 1
    BY <1>2
  <2>6. \A k \in 1..(n + 1) : Here'[k] \in Nat \ {0}
    BY <2>2, <2>3, <2>4, <2>5
  <2>7. DOMAIN Here' = 1..(n + 1) /\ Here' = [k \in 1..(n + 1) |-> Here'[k]]
    BY <2>1
  <2> QED  BY <2>3, <2>4, <2>6, <2>7
<1>8. Here' \in Seq(Nat \ {0}) /\ Len(Here') = n + 1
  BY <1>2, <1>7, FunctionIsSeq
<1>9. Through(Here, StackDirs)'
  <2>1. /\ \A k \in 1..n : StackDirs'[k] = StackDirs[k]
        /\ StackDirs'[n + 1] = Entry
    BY <1>2, <1>3, <1>4, <1>6 DEF StackDirs
  <2>2. StackDirs'[1] = Root
    BY <2>1, <1>2 DEF Through
  <2>3. ASSUME NEW k \in 1..n
        PROVE  /\ Here'[k] <= Len(contents[StackDirs'[k]])
               /\ contents[StackDirs'[k]][Here'[k]] = StackDirs'[k + 1]
    <3>1. CASE k = n
      <4>1. Here'[n] = Top.next /\ StackDirs'[n] = Top.dir
        BY <1>1, <1>2, <1>7, <2>1, HereType
      <4>2. Top.next <= Len(contents[Top.dir])
        <5>1. Top.dir \in Dirs /\ Top.next \in Nat
          BY <1>1, HereType DEF Frames
        <5> QED  BY <5>1, <1>1, ContentsType DEF AtEnd
      <4> QED  BY <4>1, <4>2, <2>1, <3>1 DEF Entry
    <3>2. CASE k \in 1..(n - 1)
      <4>1. k + 1 \in 1..n
        BY <3>2, <1>2
      <4>2. /\ Here[k] <= Len(contents[StackDirs[k]])
            /\ contents[StackDirs[k]][Here[k]] = StackDirs[k + 1]
        BY <3>2, <1>2 DEF Through
      <4> QED  BY <4>1, <4>2, <2>1, <1>7
    <3> QED  BY <3>1, <3>2, <1>2
  <2> QED  BY <2>2, <2>3, <1>1, <1>2, <1>8 DEF Through
<1>10. ASSUME NEW q \in Deciding
       PROVE  q = Here' \/ Before(Here', q)
  <2>1. q \in Seq(Nat \ {0})
    BY PathType DEF Deciding, LeadingTo
  <2>2. q # Here
    <3>1. PICK what \in {"match", "unreadable"} : q \in LeadingTo(what)
      BY DEF Deciding
    <3>2. ASSUME q = Here PROVE FALSE
      <4>1. contents[Top.dir][q[n]] = what
        BY <3>1, <3>2, <1>1, <1>2, GoesOn
      <4>2. Entry = what
        BY <4>1, <3>2, <1>1, HereType DEF Entry
      <4> QED  BY <4>2, <3>1, <1>1, WalkAssumption DEF Files
    <3> QED  BY <3>2
  <2>3. Before(Here, q)
    BY <2>2, <1>2
  <2> QED  BY <2>1, <2>3, <1>2, <1>7, <1>8, Downward
<1> QED  BY <1>1, <1>5, <1>8, <1>9, <1>10, KeepsWalkInv

(* A directory is exhausted. *)
LEMMA ExhaustedKeeps ==
    ASSUME WalkInv, Exhausted
    PROVE  WalkInv'
<1> DEFINE n == Len(stack)
           m == n - 1
<1>1. /\ WalkTypeOK /\ stack # <<>> /\ contents' = contents
      /\ AtEnd /\ stack' = Front(stack) /\ outcome = "walking"
      /\ outcome' = IF n = 1 THEN "none" ELSE "walking"
  BY DEF WalkInv, Exhausted, Walking
<1>2. /\ n \in Nat \ {0} /\ n <= MaxDepth /\ MaxDepth \in Nat
      /\ Here \in Seq(Nat \ {0}) /\ Len(Here) = n
      /\ \A q \in Deciding : q = Here \/ Before(Here, q)
  BY <1>1, HereType, LenProperties, WalkAssumption DEF WalkInv
<1>3. stack' \in Seq(Frames) /\ Len(stack') = m /\ \A k \in 1..m : stack'[k] = stack[k]
  BY <1>1, <1>2, FrontType DEF WalkTypeOK
<1>4. ASSUME NEW q \in Deciding
      PROVE  ~(m <= Len(q) /\ \A j \in 1..m : q[j] = Here[j])
  <2>1. SUFFICES ASSUME m <= Len(q), \A j \in 1..m : q[j] = Here[j]
                 PROVE  FALSE
    OBVIOUS
  <2>2. PICK what \in {"match", "unreadable"} : q \in LeadingTo(what)
    BY DEF Deciding
  <2>3. q \in Seq(Nat \ {0}) /\ Len(q) \in Nat
    BY <2>2, PathType DEF LeadingTo
  <2>4. n <= Len(q) /\ Here[n] <= q[n] /\ q[n] \in Nat /\ Here[n] \in Nat
    <3>0. \A i \in 1..n : Here[i] \in Nat
      BY <1>2
    <3>1. CASE q = Here
      BY <3>1, <1>2, <3>0
    <3>2. CASE \E k \in 1..Len(Here) :
                k <= Len(q) /\ Here[k] < q[k] /\ \A j \in 1..(k - 1) : Here[j] = q[j]
      <4>1. PICK k \in 1..n : k <= Len(q) /\ Here[k] < q[k]
        BY <3>2, <1>2
      <4>2. k \notin 1..m
        BY <4>1, <2>1, <3>0, <1>2
      <4>3. k = n
        BY <4>2, <1>2
      <4> QED  BY <4>1, <4>3, <2>3, <3>0
    <3>3. CASE Len(Here) < Len(q) /\ \A j \in 1..Len(Here) : Here[j] = q[j]
      BY <3>3, <1>2, <3>0
    <3> QED  BY <1>2, <3>1, <3>2, <3>3 DEF Before
  <2>5. q[n] <= Len(contents[Top.dir])
    BY <2>1, <2>2, <2>4, <1>1, GoesOn
  <2>6. Here[n] > Len(contents[Top.dir])
    BY <1>1, HereType DEF AtEnd
  <2>7. Len(contents[Top.dir]) \in Nat
    <3>1. Top.dir \in Dirs
      BY <1>1, HereType DEF Frames
    <3> QED  BY <3>1, <1>1, ContentsType
  <2> QED  BY <2>4, <2>5, <2>6, <2>7
<1>5. CASE n = 1
  <2>1. stack' = <<>> /\ outcome' = "none"
    BY <1>1, <1>3, <1>5, EmptySeq
  <2>2. Deciding = {}
    <3>1. \A q \in Deciding : Len(q) \in Nat
      BY PathType DEF Deciding, LeadingTo
    <3>2. m = 0 /\ 1..m = {}
      BY <1>5
    <3> HIDE DEF m
    <3>3. \A q \in Deciding : ~(0 <= Len(q))
      BY <3>2, <1>4
    <3> QED  BY <3>1, <3>3
  <2>3. Deciding' = {}
    BY <2>2, <1>1, SameImage
  <2>4. WalkTypeOK' /\ Len(stack') <= MaxDepth
    <3>1. Len(stack') <= MaxDepth
      BY <1>2, <1>3, <1>5
    <3> QED  BY <3>1, <2>1, <1>1, <1>3 DEF WalkTypeOK
  <2> QED  BY <2>1, <2>3, <2>4 DEF WalkInv
<1>6. CASE n # 1
  <2>1. m \in 1..n /\ m \in Nat \ {0} /\ m \in 1..m /\ m < n
    BY <1>2, <1>6
  <2>2. outcome' = "walking"
    BY <1>1, <1>6
  <2>3. WalkTypeOK'
    BY <1>1, <1>3, <2>2 DEF WalkTypeOK
  <2>4. stack'[m].next = Here[m] + 1
    <3>1. Here[m] = stack[m].next - 1
      BY <1>1, <2>1, HereType
    <3>2. stack[m].next \in Nat
      <4>1. stack[m] \in Frames
        BY <1>1, <2>1, ElementOfSeq DEF WalkTypeOK
      <4> QED  BY <4>1 DEF Frames
    <3>3. stack'[m] = stack[m]
      BY <1>3, <2>1
    <3> HIDE DEF m
    <3> QED  BY <3>1, <3>2, <3>3
  <2>5. /\ \A k \in 1..m : stack'[k].dir = stack[k].dir
        /\ \A k \in 1..(m - 1) : stack'[k].next = stack[k].next
    <3>1. \A k \in 1..(m - 1) : k \in 1..m
      BY <2>1
    <3> QED  BY <3>1, <1>3
  <2>6. Len(stack') = m
    BY <1>3
  <2>7. \A q \in Deciding : ~(m <= Len(q) /\ \A j \in 1..m : q[j] = Here[j])
    BY <1>4
  <2> HIDE DEF m
  <2> QED  BY <2>1, <2>2, <2>3, <2>4, <2>5, <2>6, <2>7, <1>1, MovesOn
<1> QED  BY <1>5, <1>6

(* The entry the search stands at is where its path leads to. *)
LEMMA HereLeads ==
    ASSUME WalkInv, Walking, ~AtEnd
    PROVE  Here \in LeadingTo(Entry)
<1> DEFINE n == Len(stack)
<1>1. /\ WalkTypeOK /\ stack # <<>> /\ n <= MaxDepth
      /\ Here \in Seq(Nat \ {0}) /\ Through(Here, StackDirs)
  BY DEF WalkInv, Walking
<1>2. /\ n \in Nat \ {0} /\ Len(Here) = n /\ n \in 1..n
      /\ Here[n] = Top.next /\ Top.next \in Nat /\ Top.dir \in Dirs
      /\ StackDirs \in [1..n -> Dirs] /\ StackDirs[n] = Top.dir
  BY <1>1, HereType, LenProperties DEF Frames
<1>3. Here[n] <= Len(contents[Top.dir])
  BY <1>1, <1>2, ContentsType DEF AtEnd
<1>4. ASSUME NEW k \in 1..n
      PROVE  Here[k] \in 1..MaxEntries
  <2>1. Here[k] \in Nat \ {0} /\ StackDirs[k] \in Dirs
    BY <1>1, <1>2
  <2>2. Here[k] <= Len(contents[StackDirs[k]])
    <3>1. CASE k = n
      BY <3>1, <1>2, <1>3
    <3>2. CASE k # n
      <4>1. k \in 1..(Len(Here) - 1)
        BY <3>2, <1>2
      <4> QED  BY <4>1, <1>1 DEF Through
    <3> QED  BY <3>1, <3>2
  <2>3. Len(contents[StackDirs[k]]) \in Nat /\ Len(contents[StackDirs[k]]) <= MaxEntries
    BY <2>1, <1>1, ContentsType
  <2> QED  BY <2>1, <2>2, <2>3, WalkAssumption
<1>5. Here \in EntryPaths
  <2>1. Here \in [1..n -> 1..MaxEntries]
    <3>1. Here = [k \in 1..n |-> Here[k]]
      BY <1>1, <1>2, LenProperties
    <3> QED  BY <3>1, <1>4
  <2>2. n \in 1..MaxDepth
    BY <1>1, <1>2, WalkAssumption
  <2> QED  BY <2>1, <2>2 DEF EntryPaths
<1>6. EndsIn(Here, StackDirs[n], Entry)
  BY <1>2, <1>3 DEF EndsIn, Entry
<1> QED  BY <1>1, <1>2, <1>5, <1>6 DEF LeadingTo

(* The search ends at the entry it stands at. *)
LEMMA EndKeeps ==
    ASSUME WalkInv, Walking, ~AtEnd, UNCHANGED <<contents, stack>>,
           \/ Entry = "match" /\ outcome' = "found"
           \/ Entry = "unreadable" /\ outcome' = "failed"
    PROVE  WalkInv'
<1>1. /\ stack # <<>> /\ stack' # <<>> /\ Here' = Here /\ StackDirs' = StackDirs
      /\ WalkTypeOK' /\ Through(Here, StackDirs)'
  BY DEF Walking, Here, StackDirs, WalkInv, WalkTypeOK, Through
<1>2. /\ Here \in LeadingTo(Entry)
      /\ Deciding' = Deciding
      /\ LeadingTo("match")' = LeadingTo("match")
      /\ LeadingTo("unreadable")' = LeadingTo("unreadable")
  BY HereLeads, SameImage
<1>3. /\ Here \in Seq(Nat \ {0}) /\ Len(stack) <= MaxDepth
      /\ \A q \in Deciding : q = Here \/ Before(Here, q)
  BY <1>1 DEF WalkInv
<1>4. \A q \in Deciding' : (q = Here \/ Before(Here, q))'
  BY <1>1, <1>2, <1>3 DEF Before
<1> QED  BY <1>1, <1>2, <1>3, <1>4 DEF WalkInv

(* The search begins at the first entry of the root. *)
LEMMA WalkStart == WalkInit => WalkInv
<1>1. SUFFICES ASSUME WalkInit PROVE WalkInv
  OBVIOUS
<1>2. Frame(Root) \in Frames /\ Frame(Root).dir = Root /\ Frame(Root).next = 1
  BY WalkAssumption DEF Frame, Frames
<1>3. stack \in Seq(Frames) /\ Len(stack) = 1 /\ stack[1] = Frame(Root) /\ stack # <<>>
  BY <1>1, <1>2 DEF WalkInit
<1>4. WalkTypeOK
  BY <1>1, <1>3 DEF WalkInit, WalkTypeOK
<1>5. Here = [k \in 1..1 |-> 1] /\ StackDirs = [k \in 1..1 |-> Root]
  BY <1>2, <1>3 DEF Here, StackDirs
<1>6. Here \in Seq(Nat \ {0}) /\ Len(Here) = 1 /\ Here[1] = 1
  <2>1. Here \in [1..1 -> Nat \ {0}]
    BY <1>5
  <2> QED  BY <2>1, <1>5, FunctionIsSeq
<1>7. Through(Here, StackDirs)
  BY <1>5, <1>6 DEF Through
<1>8. ASSUME NEW q \in Deciding
      PROVE  q = Here \/ Before(Here, q)
  <2>1. q \in Seq(Nat \ {0}) /\ Len(q) \in Nat /\ 1 <= Len(q)
    BY PathType DEF Deciding, LeadingTo
  <2>2. q[1] \in Nat \ {0}
    BY <2>1
  <2>3. CASE q[1] > 1
    BY <2>1, <2>2, <2>3, <1>6 DEF Before
  <2>4. CASE q[1] = 1 /\ Len(q) = 1
    BY <2>1, <2>4, <1>6, SeqEqual
  <2>5. CASE q[1] = 1 /\ Len(q) > 1
    BY <2>1, <2>5, <1>6 DEF Before
  <2>6. (q[1] > 1 \/ q[1] = 1) /\ (Len(q) = 1 \/ Len(q) > 1)
    <3>1. \A i \in Nat \ {0} : i > 1 \/ i = 1
      OBVIOUS
    <3>2. Len(q) \in Nat \ {0}
      BY <2>1
    <3> QED  BY <2>2, <3>1, <3>2, Zenon
  <2> QED  BY <2>3, <2>4, <2>5, <2>6
<1>9. Len(stack) <= MaxDepth
  BY <1>3, WalkAssumption
<1> QED  BY <1>1, <1>3, <1>4, <1>6, <1>7, <1>8, <1>9 DEF WalkInv, WalkInit

(* Every step of the search keeps the invariant. *)
LEMMA WalkStep ==
    ASSUME WalkInv, [WalkNext]_walk_vars
    PROVE  WalkInv'
<1>1. CASE Found
  BY <1>1, EndKeeps DEF Found
<1>2. CASE Unreadable
  BY <1>2, EndKeeps DEF Unreadable
<1>3. CASE SkipEntry
  <2>1. Entry \notin {"match", "unreadable"} /\ Entry \notin Dirs
    BY <1>3, WalkAssumption DEF SkipEntry, Files
  <2> QED  BY <1>3, <2>1, EntryPassed DEF SkipEntry
<1>4. CASE RefuseDir
  <2>1. Entry \notin {"match", "unreadable"}
    BY <1>4, WalkAssumption DEF RefuseDir, Files
  <2>2. Len(stack) \in Nat /\ MaxDepth \in Nat
    BY <1>4, WalkAssumption, HereType DEF RefuseDir, Walking, WalkInv
  <2>3. MaxDepth <= Len(stack)
    BY <1>4, <2>2 DEF RefuseDir, depth_exceeded
  <2> QED  BY <1>4, <2>1, <2>3, EntryPassed DEF RefuseDir
<1>5. CASE Descend
  BY <1>5, DescendKeeps
<1>6. CASE Exhausted
  BY <1>6, ExhaustedKeeps
<1>7. CASE UNCHANGED walk_vars
  <2>1. /\ Here' = Here /\ StackDirs' = StackDirs /\ WalkTypeOK'
        /\ Through(Here, StackDirs) => Through(Here, StackDirs)'
    BY <1>7 DEF walk_vars, Here, StackDirs, WalkInv, WalkTypeOK, Through
  <2>2. /\ Deciding' = Deciding
        /\ LeadingTo("match")' = LeadingTo("match")
        /\ LeadingTo("unreadable")' = LeadingTo("unreadable")
    BY <1>7, SameImage DEF walk_vars
  <2>3. stack' = stack /\ outcome' = outcome
    BY <1>7 DEF walk_vars
  <2>4. (\A q \in Deciding : q = Here \/ Before(Here, q))
         => (\A q \in Deciding : q = Here \/ Before(Here, q))'
    BY <2>1, <2>2 DEF Before
  <2> QED  BY <2>1, <2>2, <2>3, <2>4 DEF WalkInv
<1> QED  BY <1>1, <1>2, <1>3, <1>4, <1>5, <1>6, <1>7 DEF WalkNext

(* A path leads to one entry only. *)
LEMMA LeadsToOne ==
    ASSUME WalkInv, NEW p \in LeadingTo("match"), p \in LeadingTo("unreadable")
    PROVE  FALSE
<1>1. PICK ds \in [1..Len(p) -> Dirs] : Through(p, ds) /\ EndsIn(p, ds[Len(p)], "match")
  BY DEF LeadingTo
<1>2. PICK es \in [1..Len(p) -> Dirs] : Through(p, es) /\ EndsIn(p, es[Len(p)], "unreadable")
  BY DEF LeadingTo
<1>3. p \in Seq(Nat \ {0}) /\ Len(p) \in Nat /\ Len(p) \in 1..Len(p)
  BY PathType DEF LeadingTo
<1>4. \A k \in 1..Len(p) : ds[k] = es[k]
  BY <1>1, <1>2, <1>3, SameDirs
<1> QED  BY <1>1, <1>2, <1>3, <1>4 DEF EndsIn

(* The search has decided as expected. *)
LEMMA DecidesFirst == WalkInv => WalkIsFirst
<1>1. SUFFICES ASSUME WalkInv PROVE WalkIsFirst
  OBVIOUS
<1>2. Len(stack) <= MaxDepth
  BY <1>1 DEF WalkInv
<1>3. CASE outcome = "none"
  BY <1>1, <1>2, <1>3 DEF WalkInv, WalkIsFirst, Expected
<1>4. CASE outcome = "walking"
  BY <1>2, <1>4 DEF WalkIsFirst
<1>5. CASE outcome \in {"found", "failed"}
  <2>1. Here \in Deciding /\ \A q \in Deciding \ {Here} : Before(Here, q)
    BY <1>1, <1>5 DEF WalkInv, Deciding
  <2>2. \A p \in Deciding : (\A q \in Deciding \ {p} : Before(p, q)) => p = Here
    <3>1. \A p \in Deciding : p \in Seq(Nat \ {0})
      BY PathType DEF Deciding, LeadingTo
    <3>2. SUFFICES ASSUME NEW p \in Deciding, \A q \in Deciding \ {p} : Before(p, q), p # Here
                   PROVE  FALSE
      OBVIOUS
    <3>3. Before(p, Here) /\ Before(Here, p)
      BY <2>1, <3>2
    <3> QED  BY <2>1, <3>1, <3>3, BeforeAsymmetric
  <2> DEFINE first == CHOOSE p \in Deciding : \A q \in Deciding \ {p} : Before(p, q)
  <2>3. first = Here
    BY <2>1, <2>2
  <2>4. outcome = "found" <=> Here \in LeadingTo("match")
    BY <1>1, <1>5, LeadsToOne DEF WalkInv
  <2>5. Expected = IF first \in LeadingTo("match") THEN "found" ELSE "failed"
    BY <2>1 DEF Expected
  <2> HIDE DEF first
  <2>6. outcome = Expected
    BY <2>3, <2>4, <2>5, <1>5
  <2> QED  BY <1>2, <2>1, <2>6 DEF WalkIsFirst
<1> QED  BY <1>1, <1>3, <1>4, <1>5 DEF WalkInv, WalkTypeOK

(* The search of an image returns the first match in the order of the      *)
(* entries unless an unreadable entry comes before it, for every tree, any *)
(* number of directories and entries and every MAX_DIR_DEPTH               *)
(* (find_file_recursive_bounded and find_file_recursive_fat_bounded).      *)
THEOREM WalkFindsFirst == WalkSpec => []WalkIsFirst
<1>1. WalkSpec => []WalkInv
  BY WalkStart, WalkStep, PTL DEF WalkSpec
<1> QED  BY <1>1, DecidesFirst, PTL

(* A call under way stands at an entry of its directory, or behind the     *)
(* last one.                                                               *)
InRange == \A k \in 1..Len(stack) : stack[k].next <= Len(contents[stack[k].dir]) + 1

(* The places a search can stand at; there are finitely many. *)
Places == UNION {[1..n -> 1..(MaxEntries + 1)] : n \in 1..MaxDepth}

(* The variant of the recursion: a search that does not return goes on to  *)
(* a later place, in lexicographic order.                                  *)
WalkForward == [][outcome' = "walking" => Before(Here, Here') /\ Here' \in Places]_walk_vars

(* The place of the search is one of the places. *)
LEMMA HerePlace ==
    ASSUME WalkInv, InRange, stack # <<>>
    PROVE  Here \in Places
<1> DEFINE n == Len(stack)
<1>1. WalkTypeOK /\ n \in Nat \ {0} /\ n <= MaxDepth /\ Here \in Seq(Nat \ {0}) /\ Len(Here) = n
  BY HereType, LenProperties DEF WalkInv
<1>2. ASSUME NEW k \in 1..n
      PROVE  Here[k] \in 1..(MaxEntries + 1)
  <2>1. stack[k].dir \in Dirs /\ stack[k].next \in Nat \ {0} /\ Here[k] \in Nat \ {0}
    <3>1. stack[k] \in Frames
      BY <1>1, ElementOfSeq DEF WalkTypeOK
    <3> QED  BY <3>1, <1>1 DEF Frames
  <2>2. Here[k] <= stack[k].next
    BY <2>1 DEF Here
  <2>3. Len(contents[stack[k].dir]) \in Nat /\ Len(contents[stack[k].dir]) <= MaxEntries
    BY <1>1, <2>1, ContentsType
  <2>4. stack[k].next <= Len(contents[stack[k].dir]) + 1
    BY DEF InRange
  <2> QED  BY <2>1, <2>2, <2>3, <2>4, WalkAssumption
<1>3. Here = [k \in 1..n |-> Here[k]]
  BY <1>1, LenProperties
<1>4. Here \in [1..n -> 1..(MaxEntries + 1)] /\ n \in 1..MaxDepth
  BY <1>1, <1>2, <1>3, WalkAssumption
<1> QED  BY <1>4 DEF Places

(* The place of the search is as long as the stack. *)
LEMMA PlaceLength ==
    ASSUME NEW st \in Seq(Frames), NEW h,
           h = [k \in 1..Len(st) |-> IF k < Len(st) THEN st[k].next - 1 ELSE st[k].next]
    PROVE  Len(h) = Len(st)
<1>1. \A k \in 1..Len(st) : st[k].next \in Int
  <2>1. \A k \in 1..Len(st) : st[k] \in Frames
    OBVIOUS
  <2> QED  BY <2>1 DEF Frames
<1>2. h \in [1..Len(st) -> Int]
  BY <1>1
<1>3. Len(st) \in Nat
  OBVIOUS
<1> QED  BY <1>2, <1>3, FunctionIsSeq

(* Every step keeps the calls in range, and goes forward. *)
LEMMA ForwardStep ==
    ASSUME WalkInv, WalkInv', InRange, WalkNext
    PROVE  InRange' /\ (outcome' = "walking" => Before(Here, Here'))
<1> DEFINE n == Len(stack)
<1>1. WalkTypeOK /\ stack # <<>> /\ outcome = "walking" /\ n \in Nat \ {0} /\ contents' = contents
  BY HereType DEF WalkInv, WalkNext, Walking, Found, Unreadable, SkipEntry, RefuseDir,
                  Descend, Exhausted
<1>2. \A k \in 1..n : /\ stack[k].dir \in Dirs /\ stack[k].next \in Nat \ {0}
                       /\ Len(contents[stack[k].dir]) \in Nat
  <2>1. \A k \in 1..n : stack[k] \in Frames
    BY <1>1, ElementOfSeq DEF WalkTypeOK
  <2>2. \A k \in 1..n : stack[k].dir \in Dirs /\ stack[k].next \in Nat \ {0}
    BY <2>1 DEF Frames
  <2> QED  BY <2>2, <1>1, ContentsType
<1>3. Here \in Seq(Nat \ {0}) /\ Len(Here) = n
  BY <1>1, HereType, LenProperties DEF WalkInv
<1>4. \A k \in 1..n : k = n \/ k \in 1..(n - 1)
  BY <1>1
<1>5. n \in 1..n /\ Top = stack[n] /\ Here[n] = stack[n].next /\ \A k \in 1..(n - 1) : k \in 1..n
  BY <1>1, HereType DEF Top, Last
<1>6. CASE Found \/ Unreadable
  BY <1>6, <1>1 DEF Found, Unreadable, InRange
<1>7. CASE stack' = Advanced /\ ~AtEnd
  <2>1. /\ Len(stack') = n /\ \A k \in 1..(n - 1) : stack'[k] = stack[k]
        /\ stack'[n].dir = stack[n].dir /\ stack'[n].next = stack[n].next + 1
    BY <1>1, <1>5, <1>7, AdvancedType
  <2>2. stack[n].next <= Len(contents[stack[n].dir])
    BY <1>2, <1>5, <1>7 DEF AtEnd
  <2>3. InRange'
    <3>1. \A k \in 1..(n - 1) : stack'[k].next <= Len(contents'[stack'[k].dir]) + 1
      BY <2>1, <1>1, <1>5 DEF InRange
    <3>2. stack'[n].next <= Len(contents'[stack'[n].dir]) + 1
      BY <2>1, <2>2, <1>1, <1>2, <1>5
    <3> QED  BY <3>1, <3>2, <2>1, <1>4 DEF InRange
  <2>4. Here' = [k \in 1..n |-> IF k < n THEN stack'[k].next - 1 ELSE stack'[k].next]
    BY <2>1 DEF Here
  <2>5. /\ Len(Here') = n /\ Here'[n] = Here[n] + 1 /\ Here[n] \in Nat
        /\ \A k \in 1..(n - 1) : Here'[k] = Here[k]
    <3>1. Len(Here') = n
      BY <2>1, PlaceLength DEF WalkInv, WalkTypeOK, Here
    <3>2. \A k \in 1..(n - 1) : k \in 1..n /\ k < n /\ Here[k] = stack[k].next - 1
      BY <1>1, HereType
    <3> QED  BY <3>1, <3>2, <2>1, <2>4, <1>2, <1>5
  <2>6. Before(Here, Here')
    <3>1. n \in 1..Len(Here) /\ n <= Len(Here')
      BY <2>5, <1>3, <1>5
    <3>2. Here[n] < Here'[n]
      BY <2>5
    <3>3. \A j \in 1..(n - 1) : Here[j] = Here'[j]
      BY <2>5
    <3> HIDE DEF n
    <3> QED  BY <3>1, <3>2, <3>3 DEF Before
  <2> QED  BY <2>3, <2>6
<1>8. CASE Descend
  <2>1. ~AtEnd /\ Entry \in Dirs /\ stack' = Append(Advanced, Frame(Entry))
    BY <1>8 DEF Descend
  <2>2. Frame(Entry) \in Frames /\ Frame(Entry).dir = Entry /\ Frame(Entry).next = 1
    BY <2>1 DEF Frame, Frames
  <2>3. /\ Len(stack') = n + 1 /\ stack'[n + 1] = Frame(Entry)
        /\ \A k \in 1..n : stack'[k] = Advanced[k]
    BY <1>1, <2>1, <2>2, AdvancedType, AppendProperties
  <2>4. /\ \A k \in 1..(n - 1) : stack'[k] = stack[k]
        /\ stack'[n].dir = stack[n].dir /\ stack'[n].next = stack[n].next + 1
    BY <1>1, <1>5, <2>3, AdvancedType
  <2>5. stack[n].next <= Len(contents[stack[n].dir])
    BY <1>2, <1>5, <2>1 DEF AtEnd
  <2>6. InRange'
    <3>1. \A k \in 1..(n - 1) : stack'[k].next <= Len(contents'[stack'[k].dir]) + 1
      BY <2>4, <1>1, <1>5 DEF InRange
    <3>2. stack'[n].next <= Len(contents'[stack'[n].dir]) + 1
      BY <2>4, <2>5, <1>1, <1>2, <1>5
    <3>3. stack'[n + 1].next <= Len(contents'[stack'[n + 1].dir]) + 1
      BY <2>1, <2>2, <2>3, <1>1, ContentsType
    <3>4. \A k \in 1..(n + 1) : k = n + 1 \/ k \in 1..n
      BY <1>1
    <3> QED  BY <3>1, <3>2, <3>3, <3>4, <2>3, <1>4 DEF InRange
  <2>7. Here' = [k \in 1..(n + 1) |-> IF k < n + 1 THEN stack'[k].next - 1 ELSE stack'[k].next]
    BY <2>3 DEF Here
  <2>8. /\ \A k \in 1..(n - 1) : Here'[k] = Here[k]
        /\ Here'[n] = Here[n]
    <3>1. \A k \in 1..n : k \in 1..(n + 1) /\ k < n + 1
      BY <1>1
    <3>2. \A k \in 1..(n - 1) : Here[k] = stack[k].next - 1
      BY <1>1, HereType
    <3>3. \A k \in 1..n : Here'[k] = stack'[k].next - 1
      BY <3>1, <2>7
    <3>4. \A k \in 1..(n - 1) : Here'[k] = Here[k]
      BY <3>2, <3>3, <2>4, <1>5
    <3>5. Here'[n] = stack'[n].next - 1 /\ stack[n].next \in Nat
      BY <3>3, <1>2, <1>5
    <3>6. Here'[n] = Here[n]
      BY <3>5, <2>4, <1>5
    <3> QED  BY <3>4, <3>6
  <2>9. Len(Here') = n + 1
    BY <2>3, PlaceLength DEF WalkInv, WalkTypeOK, Here
  <2>10. Before(Here, Here')
    <3>1. \A j \in 1..Len(Here) : Here[j] = Here'[j]
      BY <2>8, <1>3, <1>4
    <3> QED  BY <3>1, <2>9, <1>1, <1>3 DEF Before
  <2> QED  BY <2>6, <2>10
<1>9. CASE Exhausted
  <2> DEFINE m == n - 1
  <2>1. outcome' = "walking" => n # 1
    BY <1>9 DEF Exhausted
  <2>2. Len(stack') = m /\ \A k \in 1..m : stack'[k] = stack[k]
    BY <1>1, <1>9, FrontType DEF Exhausted, WalkTypeOK
  <2>3. InRange'
    BY <2>2, <1>1, <1>5 DEF InRange
  <2>4. ASSUME outcome' = "walking" PROVE Before(Here, Here')
    <3>1. m \in 1..n /\ m \in Nat \ {0} /\ m \in 1..m /\ m \in 1..(n - 1)
      <4>1. \A i \in Nat \ {0} : i # 1 =>
                i - 1 \in 1..i /\ i - 1 \in Nat \ {0} /\ i - 1 \in 1..(i - 1)
        OBVIOUS
      <4>2. n \in Nat \ {0} /\ n # 1
        BY <2>1, <2>4, <1>1
      <4> HIDE DEF n
      <4> QED  BY <4>1, <4>2
    <3>2. Here' = [k \in 1..m |-> IF k < m THEN stack'[k].next - 1 ELSE stack'[k].next]
      BY <2>2 DEF Here
    <3>3. Len(Here') = m
      BY <2>2, PlaceLength DEF WalkInv, WalkTypeOK, Here
    <3>4. \A k \in 1..(n - 1) : Here[k] = stack[k].next - 1
      BY <1>1, HereType
    <3>5. \A j \in 1..(m - 1) : Here[j] = Here'[j]
      <4>1. \A j \in 1..(m - 1) : j \in 1..m /\ j < m /\ j \in 1..(n - 1)
        BY <3>1
      <4> QED  BY <4>1, <3>2, <3>4, <2>2
    <3>6. Here[m] < Here'[m]
      <4>1. Here'[m] = stack[m].next /\ Here[m] = stack[m].next - 1 /\ stack[m].next \in Nat
        BY <3>1, <3>2, <3>4, <2>2, <1>2
      <4> QED  BY <4>1
    <3>7. m \in 1..Len(Here) /\ m <= Len(Here')
      BY <3>1, <3>3, <1>3
    <3> QED  BY <3>5, <3>6, <3>7 DEF Before
  <2> QED  BY <2>3, <2>4
<1>10. Found \/ Unreadable \/ (stack' = Advanced /\ ~AtEnd) \/ Descend \/ Exhausted
  BY DEF WalkNext, SkipEntry, RefuseDir
<1> QED  BY <1>6, <1>7, <1>8, <1>9, <1>10

(* Before is transitive; with BeforeAsymmetric, an order. *)
LEMMA BeforeTransitive ==
    ASSUME NEW p \in Seq(Nat), NEW q \in Seq(Nat), NEW r \in Seq(Nat),
           Before(p, q), Before(q, r)
    PROVE  Before(p, r)
<1> DEFINE Diff(a, b, k) == k <= Len(b) /\ a[k] < b[k] /\ \A j \in 1..(k - 1) : a[j] = b[j]
           Prefix(a, b) == Len(a) < Len(b) /\ \A j \in 1..Len(a) : a[j] = b[j]
<1>1. /\ Len(p) \in Nat /\ Len(q) \in Nat /\ Len(r) \in Nat
      /\ \A i \in 1..Len(p) : p[i] \in Nat
      /\ \A i \in 1..Len(q) : q[i] \in Nat
      /\ \A i \in 1..Len(r) : r[i] \in Nat
  OBVIOUS
<1>2. SUFFICES (\E k \in 1..Len(p) : Diff(p, r, k)) \/ Prefix(p, r)
  BY DEF Before
<1>3. CASE (\E k \in 1..Len(p) : Diff(p, q, k)) /\ (\E i \in 1..Len(q) : Diff(q, r, i))
  <2>1. PICK k \in 1..Len(p) : Diff(p, q, k)
    BY <1>3
  <2>2. PICK i \in 1..Len(q) : Diff(q, r, i)
    BY <1>3
  <2>0. /\ k \in Nat \ {0} /\ k <= Len(p) /\ k <= Len(q)
        /\ i \in Nat \ {0} /\ i <= Len(q) /\ i <= Len(r)
    BY <1>1, <2>1, <2>2
  <2> HIDE DEF Diff
  <2>3. CASE k <= i
    <3>1. k \in 1..Len(r) /\ k \in 1..Len(q) /\ \A j \in 1..(k - 1) : j \in 1..(i - 1)
      BY <1>1, <2>0, <2>3
    <3>2. k = i \/ k \in 1..(i - 1)
      BY <2>3
    <3>3. /\ p[k] \in Nat /\ q[k] \in Nat /\ r[k] \in Nat
          /\ p[k] < q[k] /\ (q[k] = r[k] \/ q[k] < r[k])
      <4>1. p[k] \in Nat /\ q[k] \in Nat /\ r[k] \in Nat
        BY <1>1, <3>1
      <4>2. q[k] = r[k] \/ q[k] < r[k]
        BY <2>2, <3>2 DEF Diff
      <4> QED  BY <2>1, <4>1, <4>2 DEF Diff
    <3>4. p[k] < r[k]
      BY <3>3
    <3>5. \A j \in 1..(k - 1) : p[j] = r[j]
      BY <2>1, <2>2, <3>1 DEF Diff
    <3>6. Diff(p, r, k)
      BY <3>1, <3>4, <3>5 DEF Diff
    <3> QED  BY <3>6
  <2>4. CASE i < k
    <3>1. i \in 1..(k - 1) /\ i \in 1..Len(p) /\ \A j \in 1..(i - 1) : j \in 1..(k - 1)
      BY <1>1, <2>0, <2>4
    <3>2. Diff(p, r, i)
      BY <2>1, <2>2, <3>1 DEF Diff
    <3> QED  BY <3>1, <3>2
  <2> QED  BY <2>0, <2>3, <2>4
<1>4. CASE (\E k \in 1..Len(p) : Diff(p, q, k)) /\ Prefix(q, r)
  <2>1. PICK k \in 1..Len(p) : Diff(p, q, k)
    BY <1>4
  <2>2. k \in 1..Len(q) /\ \A j \in 1..(k - 1) : j \in 1..Len(q)
    BY <1>1, <2>1
  <2>3. k <= Len(r) /\ p[k] < r[k]
    BY <1>1, <1>4, <2>1, <2>2
  <2>4. \A j \in 1..(k - 1) : p[j] = r[j]
    BY <1>4, <2>1, <2>2
  <2> QED  BY <2>3, <2>4
<1>5. CASE Prefix(p, q) /\ (\E i \in 1..Len(q) : Diff(q, r, i))
  <2>1. PICK i \in 1..Len(q) : Diff(q, r, i)
    BY <1>5
  <2>2. CASE i <= Len(p)
    <3>1. i \in 1..Len(p) /\ \A j \in 1..(i - 1) : j \in 1..Len(p)
      BY <1>1, <2>1, <2>2
    <3>2. Diff(p, r, i)
      BY <1>5, <2>1, <3>1
    <3> QED  BY <3>1, <3>2
  <2>3. CASE Len(p) < i
    <3>1. Len(p) < Len(r) /\ \A j \in 1..Len(p) : j \in 1..(i - 1)
      BY <1>1, <2>1, <2>3
    <3>2. Prefix(p, r)
      BY <1>5, <2>1, <3>1
    <3> QED  BY <3>2
  <2> QED  BY <1>1, <2>2, <2>3
<1>6. CASE Prefix(p, q) /\ Prefix(q, r)
  <2>1. Len(p) < Len(r) /\ \A j \in 1..Len(p) : j \in 1..Len(q)
    BY <1>1, <1>6
  <2>2. Prefix(p, r)
    BY <1>6, <2>1
  <2> QED  BY <2>2
<1> QED  BY <1>3, <1>4, <1>5, <1>6 DEF Before

(* A search that does not return goes on to a later place, and there are   *)
(* finitely many places: the safety half of Returns, for every image,      *)
(* cycles included (find_file_recursive_bounded with MAX_DIR_DEPTH).       *)
THEOREM WalkGoesForward == WalkSpec => WalkForward
<1>1. WalkInit => InRange
  <2>1. SUFFICES ASSUME WalkInit PROVE InRange
    OBVIOUS
  <2>2. WalkTypeOK
    BY <2>1, WalkStart DEF WalkInv
  <2>3. Len(stack) = 1 /\ stack[1].next = 1 /\ stack[1].dir = Root
    BY <2>1 DEF WalkInit, Frame
  <2>4. Len(contents[Root]) \in Nat
    BY <2>2, ContentsType, WalkAssumption
  <2> QED  BY <2>3, <2>4 DEF InRange
<1>2. WalkInv /\ InRange /\ [WalkNext]_walk_vars =>
        /\ InRange'
        /\ [outcome' = "walking" => Before(Here, Here') /\ Here' \in Places]_walk_vars
  <2>1. SUFFICES ASSUME WalkInv, InRange, [WalkNext]_walk_vars
                 PROVE  /\ InRange'
                        /\ [outcome' = "walking" => Before(Here, Here') /\ Here' \in Places]_walk_vars
    OBVIOUS
  <2>2. WalkInv'
    BY <2>1, WalkStep
  <2>3. CASE WalkNext
    <3>1. InRange' /\ (outcome' = "walking" => Before(Here, Here'))
      BY <2>1, <2>2, <2>3, ForwardStep
    <3>2. (WalkInv /\ InRange /\ stack # <<>> => Here \in Places)'
      BY HerePlace, PTL
    <3>3. outcome' = "walking" => stack' # <<>>
      BY <2>2 DEF WalkInv
    <3> QED  BY <2>2, <3>1, <3>2, <3>3
  <2>4. CASE UNCHANGED walk_vars
    BY <2>1, <2>4 DEF walk_vars, InRange
  <2> QED  BY <2>1, <2>3, <2>4
<1> QED  BY <1>1, <1>2, WalkStart, WalkStep, PTL DEF WalkSpec, WalkForward
=============================================================================
