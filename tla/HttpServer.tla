----------------------------- MODULE HttpServer -----------------------------
(***************************************************************************)
(* The handlers of bootycall-http/src/server.rs that decide what a host    *)
(* boots: /poll/{mac} and POST /api/override, running concurrently with    *)
(* each other, with the proxy DHCP server, with configuration reloads and  *)
(* with the sweep of stale hosts.  Each handler first decides, under the   *)
(* configuration's lock, and then records what it decided: two steps.      *)
(*                                                                         *)
(* A configuration maps each configured MAC to its host name (a target).   *)
(***************************************************************************)
EXTENDS StateStore

CONSTANTS
    Calls,              \* identities for handler invocations in progress
    Broken,             \* host names whose boot script does not render
    MaxTime             \* bound: where the clock stops

ASSUME HttpAssumption ==
    /\ Broken \subseteq Targets
    /\ MaxTime \in Nat

VARIABLES
    config,             \* the live configuration
    call,               \* per identity: the handler's local state
    served              \* ghost: per host that has an override, the MAC whose
                        \* script it was last served since that was assigned

vars == <<hosts, logs, now, config, call, served>>

Unconfigured(c, mac) == c[mac] = None

(* Config::validate: no two hosts have the same name (nor the same MAC). *)
Configs ==
    {c \in [Macs -> Targets \cup {None}] :
        \A m, n \in Macs : m # n /\ c[m] = c[n] => Unconfigured(c, m)}

(* The configured MAC with this name: none or one. *)
Named(target) == {m \in Macs : config[m] = target}

Idle == [kind |-> "idle"]
Poll(mac, ip, outcome, cache_mac) ==
    [kind |-> "poll", mac |-> mac, ip |-> ip, outcome |-> outcome,
     cache_mac |-> cache_mac]
Override(mac, target) == [kind |-> "override", mac |-> mac, target |-> target]

Init ==
    /\ StoreInit
    /\ config \in Configs
    /\ call = [r \in Calls |-> Idle]
    /\ served = [m \in Macs |-> None]
-----------------------------------------------------------------------------
(* Render the boot script that points at cache_mac's kernel and initrd. *)
Rendered(cache_mac) ==
    IF config[cache_mac] \in Broken
    THEN [outcome |-> "RenderFailed", cache_mac |-> None]
    ELSE [outcome |-> "Boot", cache_mac |-> cache_mac]

KeepPolling == [outcome |-> "Poll", cache_mac |-> None]

(* Mutant: only hosts that the configuration names are booted. *)
decide_poll_outcome_direct(mac) ==
    IF ~Unconfigured(config, mac) THEN Rendered(mac) ELSE KeepPolling

(* The host's own configuration first; then the override it was assigned,  *)
(* if the configuration still has that target; else it goes on polling.    *)
decide_poll_outcome(mac) ==
    IF ~Unconfigured(config, mac) THEN Rendered(mac)
    ELSE LET target == IF mac \in Tracked THEN hosts[mac].assigned_target ELSE None
         IN  IF target # None /\ Named(target) # {}
             THEN Rendered(CHOOSE m \in Macs : m \in Named(target))
             ELSE KeepPolling

PollDecide(r, mac, ip) ==
    /\ call[r] = Idle
    /\ LET d == decide_poll_outcome(mac)
       IN  call' = [call EXCEPT ![r] = Poll(mac, ip, d.outcome, d.cache_mac)]
    /\ UNCHANGED <<store, now, config, served>>

StatusOf(outcome) ==
    CASE outcome = "Boot" -> "Booting"
      [] outcome = "RenderFailed" -> "Failed"
      [] outcome = "Poll" -> "Polling"

(* The status and the client's address are stored, a boot or a failure is  *)
(* logged, and the response goes out.                                      *)
PollRecord(r) ==
    /\ call[r].kind = "poll"
    /\ update_host_status(call[r].mac, StatusOf(call[r].outcome), None, call[r].ip)
    /\ IF call[r].outcome = "Poll" THEN UNCHANGED logs ELSE log_event(call[r].mac)
    /\ served' = IF call[r].outcome = "Boot" /\ Entry(call[r].mac).assigned_target # None
                 THEN [served EXCEPT ![call[r].mac] = call[r].cache_mac] ELSE served
    /\ call' = [call EXCEPT ![r] = Idle]
    /\ UNCHANGED <<now, config>>

(* Only a target that is configured now is accepted. *)
OverrideCheck(r, mac, target) ==
    /\ call[r] = Idle
    /\ Named(target) # {}
    /\ call' = [call EXCEPT ![r] = Override(mac, target)]
    /\ UNCHANGED <<store, now, config, served>>

OverrideRecord(r) ==
    /\ call[r].kind = "override"
    /\ update_host_status(call[r].mac, "Polling", call[r].target, None)
    /\ log_event(call[r].mac)
    /\ served' = [served EXCEPT ![call[r].mac] = None]
    /\ call' = [call EXCEPT ![r] = Idle]
    /\ UNCHANGED <<now, config>>
-----------------------------------------------------------------------------
(* A DHCP exchange of a PXE client. *)
DhcpOffer(mac, ip) ==
    /\ update_host_status(mac, "Polling", None, ip)
    /\ log_event(mac)
    /\ UNCHANGED <<now, config, call, served>>

(* The watcher swaps in a configuration that Config::load accepted. *)
ReloadConfig(c) ==
    /\ config' = c
    /\ UNCHANGED <<store, now, call, served>>

SweepStale ==
    /\ clean_stale_hosts
    /\ served' = [m \in Macs |-> IF m \in DOMAIN hosts' THEN served[m] ELSE None]
    /\ UNCHANGED <<logs, now, config, call>>

Tick ==
    /\ now < MaxTime
    /\ now' = now + 1
    /\ UNCHANGED <<store, config, call, served>>
-----------------------------------------------------------------------------
PollBy(mac) == \E r \in Calls, ip \in Ips : PollDecide(r, mac, ip)

Handler(r) == PollRecord(r) \/ OverrideRecord(r)

Next ==
    \/ \E mac \in Macs : PollBy(mac)
    \/ \E r \in Calls, mac \in Macs, target \in Targets : OverrideCheck(r, mac, target)
    \/ \E r \in Calls : Handler(r)
    \/ \E mac \in Macs, ip \in Ips : DhcpOffer(mac, ip)
    \/ \E c \in Configs : ReloadConfig(c)
    \/ SweepStale
    \/ Tick

Safety == Init /\ [][Next]_vars

(* A handler has no await between its two steps: it finishes.  The script  *)
(* that a polling host is given makes it poll again, for ever, and its     *)
(* request gets through.                                                   *)
Spec ==
    /\ Safety
    /\ \A r \in Calls : WF_vars(Handler(r))
    /\ \A mac \in Macs : SF_vars(PollBy(mac))
-----------------------------------------------------------------------------
(* A recorded override is only replaced by another override, or forgotten  *)
(* with its host after Ttl without contact: neither a DHCP exchange, nor a *)
(* poll that was decided before the override and is recorded after it, nor *)
(* a reload of the configuration takes it away.                            *)
OverrideKept ==
    [][\A m \in Tracked :
        hosts[m].assigned_target # None =>
            \/ m \notin Tracked' /\ Stale(hosts[m])
            \/ m \in Tracked' /\ hosts'[m].assigned_target = hosts[m].assigned_target
            \/ \E r \in Calls : call[r].kind = "override" /\ call[r].mac = m
                                /\ m \in Tracked'
                                /\ hosts'[m].assigned_target = call[r].target]_vars

(* The host has the override, and the configuration gives it nothing else. *)
Assigned(m, t) ==
    /\ m \in Tracked /\ hosts[m].assigned_target = t
    /\ Unconfigured(config, m) /\ Named(t) # {}

(* A recorded override takes effect: as long as host, override and target  *)
(* stay, the host is served the target's boot script, whatever polls were  *)
(* under way when the override came.                                       *)
OverrideServed ==
    \A m \in Macs, t \in Targets \ Broken :
        Assigned(m, t) ~> served[m] \in Named(t) \/ ~Assigned(m, t)
=============================================================================
