----------------------------- MODULE StateStore -----------------------------
(***************************************************************************)
(* The shared in-memory store of bootycall-core/src/state.rs: the map of   *)
(* hosts seen on the network, the ring of log events, and the operations   *)
(* on them.  Each operation holds its map's lock throughout and is one     *)
(* step.  The servers' modules extend this one and use its operations.     *)
(*                                                                         *)
(* Of a host's optional fields the model keeps assigned_target and         *)
(* client_ip; name and architecture are treated in the same way.  A MAC is *)
(* its normalised form.  Log events are abstracted to the MAC they name.   *)
(***************************************************************************)
EXTENDS Naturals, Sequences, FiniteSets, Functions

CONSTANTS
    Macs, Ips, Targets,
    None,               \* an Option that is None
    MaxTracked,         \* MAX_TRACKED_HOSTS
    MaxLogs,            \* MAX_LOGS
    Ttl                 \* STALE_HOST_TTL_SECS, in the model's time units

ASSUME StoreAssumption ==
    /\ MaxTracked \in Nat \ {0} /\ MaxLogs \in Nat /\ Ttl \in Nat \ {0}
    /\ None \notin Macs \cup Ips \cup Targets
    /\ IsFiniteSet(Macs)

VARIABLES
    hosts,              \* MAC -> HostState, for the MACs tracked
    logs,               \* the log ring, oldest first
    now                 \* the clock

store == <<hosts, logs>>

HostStatus == {"Polling", "Booting", "Completed", "Failed"}

HostState == [status: HostStatus, assigned_target: Targets \cup {None},
              client_ip: Ips \cup {None}, last_seen: Nat]

StoreInit == hosts = <<>> /\ logs = <<>> /\ now = 0

Tracked == DOMAIN hosts

Or(new, old) == IF new # None THEN new ELSE old

(* The entry for mac, or what or_insert_with puts there. *)
Entry(mac) ==
    IF mac \in Tracked THEN hosts[mac]
    ELSE [status |-> "Polling", assigned_target |-> None, client_ip |-> None,
          last_seen |-> now]

(* Mutant: a missing field of the update clears the field of the entry. *)
update_host_status_clears(mac, status, target, ip) ==
    hosts' =
        IF mac \notin Tracked /\ Cardinality(Tracked) >= MaxTracked THEN hosts
        ELSE [m \in Tracked \cup {mac} |->
                IF m # mac THEN hosts[m]
                ELSE [status |-> status, assigned_target |-> target,
                      client_ip |-> Or(ip, Entry(mac).client_ip),
                      last_seen |-> now]]

(* A MAC that is new while the store is full is dropped without a word. *)
update_host_status(mac, status, target, ip) ==
    hosts' =
        IF mac \notin Tracked /\ Cardinality(Tracked) >= MaxTracked THEN hosts
        ELSE [m \in Tracked \cup {mac} |->
                IF m # mac THEN hosts[m]
                ELSE [status |-> status,
                      assigned_target |-> Or(target, Entry(mac).assigned_target),
                      client_ip |-> Or(ip, Entry(mac).client_ip),
                      last_seen |-> now]]

log_event(mac) ==
    LET grown == Append(logs, mac)
    IN  logs' = IF Len(grown) > MaxLogs
                THEN SubSeq(grown, Len(grown) - MaxLogs + 1, Len(grown))
                ELSE grown

(* An entry from the future (the clock was set back) is kept. *)
Stale(h) == now >= h.last_seen /\ now - h.last_seen >= Ttl

clean_stale_hosts ==
    hosts' = Restrict(hosts, {m \in Tracked : ~Stale(hosts[m])})

(* The store stays within its ceilings. *)
StoreBounded ==
    /\ Cardinality(Tracked) <= MaxTracked
    /\ Len(logs) <= MaxLogs
=============================================================================
