--------------------------- MODULE ArtifactService --------------------------
(***************************************************************************)
(* The health probe of the HTTP server over the artifact cache, while      *)
(* sync_host_cache of ExtractorCache rewrites the same files in place.     *)
(* The probe looks at the two files of a host one after the other, with no *)
(* lock.  HTTP is served once the first sync of the process is over.  The  *)
(* fleet is one host.                                                      *)
(***************************************************************************)
EXTENDS ExtractorCache

VARIABLE
    probe               \* the request for /api/health under way: how far it is
                        \* ("none", "half", "answered"), what it found so far,
                        \* and a ghost, no extraction ran since it began

service_vars == <<vars, probe>>

Probe(stage, ready, quiet) == [stage |-> stage, ready |-> ready, quiet |-> quiet]
NoProbe == Probe("none", FALSE, FALSE)

ServiceInit == Init /\ probe = NoProbe

(* A step of the cache.  When the process goes, so do its connections. *)
CacheStep ==
    /\ Next
    /\ probe' = IF pc' = "down" THEN NoProbe
                ELSE [probe EXCEPT !.quiet = @ /\ pc' = "idle"]

(* A file that is being written, or was left half written, may be empty. *)
nonempty(file) ==
    IF file = Absent THEN {FALSE}
    ELSE IF file.whole THEN {TRUE} ELSE BOOLEAN

(* host_cache_ready looks at the kernel first. *)
HealthKernel ==
    /\ pc # "down" /\ result # "none" /\ probe.stage # "half"
    /\ \E ready \in nonempty(kernel) :
            probe' = Probe("half", ready, pc = "idle")
    /\ UNCHANGED vars

(* The initrd next (for nothing when the kernel is not there); the answer. *)
HealthInitrd ==
    /\ pc # "down" /\ probe.stage = "half"
    /\ \E ready \in nonempty(initrd) :
            probe' = Probe("answered", probe.ready /\ ready, probe.quiet)
    /\ UNCHANGED vars

ServiceNext == CacheStep \/ HealthKernel \/ HealthInitrd

ServiceSpec == ServiceInit /\ [][ServiceNext]_service_vars
-----------------------------------------------------------------------------
(* host_cache_ready answers "can the box serve this host's boot artifacts  *)
(* right now": a probe that no extraction overlaps answers healthy if and  *)
(* only if a kernel and an initrd are there, whole and from one version of *)
(* one image, whatever failed before and whatever was replaced meanwhile.  *)
HealthIsTrue ==
    probe.stage = "answered" /\ probe.quiet =>
        (probe.ready <=>
            /\ kernel # Absent /\ initrd # Absent
            /\ kernel.whole /\ initrd.whole
            /\ kernel.image_path = initrd.image_path
            /\ kernel.version = initrd.version)
=============================================================================
