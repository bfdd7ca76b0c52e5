-------------------------- MODULE HttpServer_proofs --------------------------
(***************************************************************************)
(* Proofs about HttpServer, for every number of hosts and of handlers at   *)
(* work: a recorded override is not lost, and a poll that is decided while *)
(* the override is there, and its target configured, boots the target.     *)
(***************************************************************************)
EXTENDS HttpServer, TLAPS

PollCalls ==
    [kind: {"poll"}, mac: Macs, ip: Ips,
     outcome: {"Boot", "RenderFailed", "Poll"}, cache_mac: Macs \cup {None}]

OverrideCalls == [kind: {"override"}, mac: Macs, target: Targets]

(* A handler is idle, or about to record a poll or an override.  (What it  *)
(* decided may be outdated by then.)                                       *)
CallsOK == call \in [Calls -> {Idle} \cup PollCalls \cup OverrideCalls]

(* The ghost follows the store: a host that was served an override is      *)
(* tracked and still has an override.                                      *)
ServedIsAssigned ==
    \A m \in Macs : served[m] # None =>
        m \in Tracked /\ hosts[m].assigned_target # None

(* The inductive invariant. *)
HttpInv ==
    /\ Tracked \subseteq Macs
    /\ config \in Configs
    /\ CallsOK
    /\ served \in [Macs -> Macs \cup {None}]
    /\ ServedIsAssigned
-----------------------------------------------------------------------------
(* update_host_status keeps every host that is tracked; it keeps its       *)
(* override too, unless it is about this host and brings another one.      *)
LEMMA UpdateKeepsOverrides ==
    ASSUME NEW mac, NEW status, NEW target, NEW addr,
           update_host_status(mac, status, target, addr)
    PROVE  /\ Tracked' \subseteq Tracked \cup {mac}
           /\ \A m \in Tracked :
                /\ m \in Tracked'
                /\ \/ hosts'[m].assigned_target = hosts[m].assigned_target
                   \/ /\ m = mac /\ target # None
                      /\ hosts'[m].assigned_target = target
<1>1. CASE hosts' = hosts
  BY <1>1 DEF Tracked
<1>2. CASE hosts' = [m \in Tracked \cup {mac} |->
                IF m # mac THEN hosts[m]
                ELSE [status |-> status,
                      assigned_target |-> Or(target, Entry(mac).assigned_target),
                      client_ip |-> Or(addr, Entry(mac).client_ip),
                      last_seen |-> now]]
  <2>1. Tracked' = Tracked \cup {mac}
    BY <1>2 DEF Tracked
  <2>2. \A m \in Tracked \ {mac} : hosts'[m] = hosts[m]
    BY <1>2
  <2>3. hosts'[mac].assigned_target = Or(target, Entry(mac).assigned_target)
    BY <1>2
  <2>4. mac \in Tracked => Entry(mac) = hosts[mac]
    BY DEF Entry
  <2> QED
    BY <2>1, <2>2, <2>3, <2>4 DEF Or
<1> QED
  BY <1>1, <1>2 DEF update_host_status

(* clean_stale_hosts leaves every host alone that is not stale. *)
LEMMA SweepKeepsOverrides ==
    ASSUME clean_stale_hosts
    PROVE  /\ Tracked' \subseteq Tracked
           /\ \A m \in Tracked : Stale(hosts[m]) \/ m \in Tracked'
           /\ \A m \in Tracked' : hosts'[m] = hosts[m]
BY DEF clean_stale_hosts, Restrict, Tracked

(* A name is that of at most one host: find over the configured hosts is   *)
(* the same whatever their order (Config::validate).                       *)
LEMMA NameIsUnique ==
    ASSUME config \in Configs, NEW t \in Targets,
           NEW m \in Named(t), NEW n \in Named(t)
    PROVE  m = n
BY StoreAssumption DEF Configs, Named, Unconfigured

(* What a poll is told is a script of a host of the configuration. *)
LEMMA DecisionType ==
    ASSUME config \in Configs, NEW mac \in Macs
    PROVE  LET d == decide_poll_outcome(mac)
           IN  /\ d.outcome \in {"Boot", "RenderFailed", "Poll"}
               /\ d.cache_mac \in Macs \cup {None}
<1>1. ASSUME NEW m \in Macs
      PROVE  /\ Rendered(m).outcome \in {"Boot", "RenderFailed", "Poll"}
             /\ Rendered(m).cache_mac \in Macs \cup {None}
  BY DEF Rendered
<1>2. /\ KeepPolling.outcome = "Poll"
      /\ KeepPolling.cache_mac = None
  BY DEF KeepPolling
<1>3. \/ decide_poll_outcome(mac) = KeepPolling
      \/ \E m \in Macs : decide_poll_outcome(mac) = Rendered(m)
  BY DEF decide_poll_outcome, Named
<1> QED
  BY <1>1, <1>2, <1>3

(* A poll of a host with an override whose target is configured, and whose *)
(* script renders, boots the target: decide_poll_outcome uses the name     *)
(* that is recorded and the host that has the name now.                    *)
THEOREM OverrideDecides ==
    ASSUME HttpInv, NEW m \in Macs, NEW t \in Targets \ Broken, Assigned(m, t)
    PROVE  /\ decide_poll_outcome(m).outcome = "Boot"
           /\ Named(t) = {decide_poll_outcome(m).cache_mac}
<1>1. /\ m \in Tracked /\ hosts[m].assigned_target = t
      /\ Unconfigured(config, m) /\ Named(t) # {}
  BY DEF Assigned
<1>2. PICK n \in Macs : n = CHOOSE k \in Macs : k \in Named(t)
  BY <1>1 DEF Named
<1>3. n \in Named(t)
  BY <1>1, <1>2 DEF Named
<1>4. t # None
  BY StoreAssumption
<1>5. decide_poll_outcome(m) = Rendered(n)
  BY <1>1, <1>2, <1>4 DEF decide_poll_outcome
<1>6. config[n] = t
  BY <1>3 DEF Named
<1>7. Rendered(n) = [outcome |-> "Boot", cache_mac |-> n]
  BY <1>6 DEF Rendered
<1>8. \A k \in Named(t) : k = n
  BY <1>3, NameIsUnique DEF HttpInv
<1> QED
  BY <1>3, <1>5, <1>7, <1>8
-----------------------------------------------------------------------------
(* Nobody is tracked and no handler is at work at the start. *)
LEMMA HttpStarts == Init => HttpInv
BY DEF Init, StoreInit, HttpInv, Tracked, CallsOK, ServedIsAssigned

(* A call that is not idle is a poll or an override, as its kind says. *)
LEMMA CallByKind ==
    ASSUME CallsOK, NEW r \in Calls
    PROVE  /\ call[r].kind = "poll" => call[r] \in PollCalls
           /\ call[r].kind = "override" => call[r] \in OverrideCalls
<1>1. call[r] \in {Idle} \cup PollCalls \cup OverrideCalls
  BY DEF CallsOK
<1> QED
  BY <1>1 DEF Idle, PollCalls, OverrideCalls

(* Every step of a handler keeps the invariant. *)
LEMMA HandlerStep ==
    ASSUME HttpInv, NEW r \in Calls, Handler(r)
    PROVE  HttpInv'
<1> USE DEF HttpInv
<1>1. CASE PollRecord(r)
  <2> DEFINE c == call[r]
  <2>1. c \in PollCalls
    BY <1>1, CallByKind DEF PollRecord
  <2>2. c.mac \in Macs /\ c.cache_mac \in Macs \cup {None}
    BY <2>1 DEF PollCalls
  <2>3. /\ update_host_status(c.mac, StatusOf(c.outcome), None, c.ip)
        /\ served' = IF c.outcome = "Boot" /\ Entry(c.mac).assigned_target # None
                     THEN [served EXCEPT ![c.mac] = c.cache_mac] ELSE served
        /\ call' = [call EXCEPT ![r] = Idle] /\ config' = config
    BY <1>1 DEF PollRecord
  <2> HIDE DEF c
  <2>4. /\ Tracked' \subseteq Macs
        /\ \A m \in Tracked :
              m \in Tracked' /\ hosts'[m].assigned_target = hosts[m].assigned_target
    BY <2>2, <2>3, UpdateKeepsOverrides
  <2>5. CallsOK'
    BY <2>3 DEF CallsOK
  <2>6. served' \in [Macs -> Macs \cup {None}]
    BY <2>2, <2>3
  <2>7. ServedIsAssigned'
    <3>1. Entry(c.mac).assigned_target # None =>
              c.mac \in Tracked /\ hosts[c.mac].assigned_target # None
      BY DEF Entry
    <3> QED
      BY <2>2, <2>3, <2>4, <3>1 DEF ServedIsAssigned
  <2> QED
    BY <2>3, <2>4, <2>5, <2>6, <2>7
<1>2. CASE OverrideRecord(r)
  <2> DEFINE c == call[r]
  <2>1. c \in OverrideCalls
    BY <1>2, CallByKind DEF OverrideRecord
  <2>2. c.mac \in Macs /\ c.target \in Targets
    BY <2>1 DEF OverrideCalls
  <2>3. /\ update_host_status(c.mac, "Polling", c.target, None)
        /\ served' = [served EXCEPT ![c.mac] = None]
        /\ call' = [call EXCEPT ![r] = Idle] /\ config' = config
    BY <1>2 DEF OverrideRecord
  <2> HIDE DEF c
  <2>4. /\ Tracked' \subseteq Macs
        /\ \A m \in Tracked \ {c.mac} :
              m \in Tracked' /\ hosts'[m].assigned_target = hosts[m].assigned_target
    BY <2>2, <2>3, UpdateKeepsOverrides
  <2>5. CallsOK'
    BY <2>3 DEF CallsOK
  <2>6. served' \in [Macs -> Macs \cup {None}]
    BY <2>2, <2>3
  <2>7. ServedIsAssigned'
    BY <2>2, <2>3, <2>4 DEF ServedIsAssigned
  <2> QED
    BY <2>3, <2>4, <2>5, <2>6, <2>7
<1> QED
  BY <1>1, <1>2 DEF Handler

(* Every other step does, too. *)
LEMMA HttpInductive == HttpInv /\ [Next]_vars => HttpInv'
<1> SUFFICES ASSUME HttpInv, [Next]_vars PROVE HttpInv'
  OBVIOUS
<1> USE DEF HttpInv
<1>1. ASSUME NEW mac \in Macs, PollBy(mac)
      PROVE  HttpInv'
  <2>1. PICK r \in Calls, ip \in Ips : PollDecide(r, mac, ip)
    BY <1>1 DEF PollBy
  <2> DEFINE d == decide_poll_outcome(mac)
  <2>2. /\ call' = [call EXCEPT ![r] = Poll(mac, ip, d.outcome, d.cache_mac)]
        /\ UNCHANGED <<store, now, config, served>>
    BY <2>1 DEF PollDecide
  <2>3. d.outcome \in {"Boot", "RenderFailed", "Poll"} /\ d.cache_mac \in Macs \cup {None}
    BY DecisionType
  <2> HIDE DEF d
  <2>4. Poll(mac, ip, d.outcome, d.cache_mac) \in PollCalls
    BY <2>3 DEF Poll, PollCalls
  <2>5. CallsOK'
    BY <2>2, <2>4 DEF CallsOK
  <2> QED
    BY <2>2, <2>5 DEF ServedIsAssigned, Tracked, store
<1>2. ASSUME NEW r \in Calls, NEW mac \in Macs, NEW target \in Targets,
             OverrideCheck(r, mac, target)
      PROVE  HttpInv'
  <2>1. /\ call' = [call EXCEPT ![r] = Override(mac, target)]
        /\ UNCHANGED <<store, now, config, served>>
    BY <1>2 DEF OverrideCheck
  <2>2. Override(mac, target) \in OverrideCalls
    BY DEF Override, OverrideCalls
  <2>3. CallsOK'
    BY <2>1, <2>2 DEF CallsOK
  <2> QED
    BY <2>1, <2>3 DEF ServedIsAssigned, Tracked, store
<1>3. ASSUME NEW mac \in Macs, NEW ip \in Ips, DhcpOffer(mac, ip)
      PROVE  HttpInv'
  <2>1. /\ update_host_status(mac, "Polling", None, ip)
        /\ UNCHANGED <<now, config, call, served>>
    BY <1>3 DEF DhcpOffer
  <2>2. /\ Tracked' \subseteq Macs
        /\ \A m \in Tracked :
              m \in Tracked' /\ hosts'[m].assigned_target = hosts[m].assigned_target
    BY <2>1, UpdateKeepsOverrides
  <2> QED
    BY <2>1, <2>2 DEF CallsOK, ServedIsAssigned
<1>4. ASSUME NEW c \in Configs, ReloadConfig(c)
      PROVE  HttpInv'
  BY <1>4 DEF ReloadConfig, store, CallsOK, ServedIsAssigned, Tracked
<1>5. CASE SweepStale
  <2>1. /\ clean_stale_hosts
        /\ served' = [m \in Macs |-> IF m \in Tracked' THEN served[m] ELSE None]
        /\ UNCHANGED <<logs, now, config, call>>
    BY <1>5 DEF SweepStale, Tracked
  <2>2. Tracked' \subseteq Tracked /\ \A m \in Tracked' : hosts'[m] = hosts[m]
    BY <2>1, SweepKeepsOverrides
  <2>3. served' \in [Macs -> Macs \cup {None}] /\ ServedIsAssigned'
    BY <2>1, <2>2 DEF ServedIsAssigned
  <2> QED
    BY <2>1, <2>2, <2>3 DEF CallsOK
<1>6. CASE Tick \/ UNCHANGED vars
  BY <1>6 DEF Tick, vars, store, CallsOK, ServedIsAssigned, Tracked
<1> QED
  BY <1>1, <1>2, <1>3, <1>4, <1>5, <1>6, HandlerStep DEF Next
-----------------------------------------------------------------------------
(* The handlers, the other servers, reloads and the sweep keep the         *)
(* inductive invariant, in whatever order they come.                       *)
THEOREM HttpInvariant == Safety => []HttpInv
  BY HttpStarts, HttpInductive, PTL DEF Safety

(* For every number of hosts and handlers: no poll, decided before or      *)
(* after an override, no DHCP exchange and no reload takes away an         *)
(* override that api_override recorded.                                    *)
THEOREM OverridesAreKept == Safety => OverrideKept
<1> DEFINE Kept(m) ==
        hosts[m].assigned_target # None =>
            \/ m \notin Tracked' /\ Stale(hosts[m])
            \/ m \in Tracked' /\ hosts'[m].assigned_target = hosts[m].assigned_target
            \/ \E r \in Calls : call[r].kind = "override" /\ call[r].mac = m
                                /\ m \in Tracked'
                                /\ hosts'[m].assigned_target = call[r].target
<1>1. ASSUME [Next]_vars
      PROVE  \A m \in Tracked : Kept(m)
  <2>1. ASSUME UNCHANGED hosts
        PROVE  \A m \in Tracked : Kept(m)
    BY <2>1 DEF Tracked
  <2>2. ASSUME NEW mac, NEW status, NEW addr,
               update_host_status(mac, status, None, addr)
        PROVE  \A m \in Tracked : Kept(m)
    BY <2>2, UpdateKeepsOverrides
  <2>3. ASSUME NEW r \in Calls, OverrideRecord(r)
        PROVE  \A m \in Tracked : Kept(m)
    <3>1. /\ call[r].kind = "override"
          /\ update_host_status(call[r].mac, "Polling", call[r].target, None)
      BY <2>3 DEF OverrideRecord
    <3> QED
      BY <3>1, UpdateKeepsOverrides
  <2>4. CASE SweepStale
    BY <2>4, SweepKeepsOverrides DEF SweepStale
  <2>5. \/ UNCHANGED hosts \/ SweepStale
        \/ \E r \in Calls : OverrideRecord(r)
        \/ \E mac, status, addr : update_host_status(mac, status, None, addr)
    BY <1>1
    DEF Next, vars, store, PollBy, PollDecide, OverrideCheck, Handler, PollRecord,
        DhcpOffer, ReloadConfig, Tick
  <2> QED
    BY <2>1, <2>2, <2>3, <2>4, <2>5
<1> QED
  BY <1>1, PTL DEF Safety, OverrideKept
=============================================================================
