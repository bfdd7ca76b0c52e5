-------------------------- MODULE TftpServer_proofs --------------------------
(***************************************************************************)
(* Proofs about TftpServer and the store it shares, for every number of    *)
(* hosts, permits and tasks and every deadline shorter than the time after *)
(* which a host is stale: the limits are kept, and a transfer's host stays *)
(* tracked until the transfer has reported.                                *)
(***************************************************************************)
EXTENDS TftpServer, FiniteSetTheorems, SequenceTheorems, TLAPS

(* A running transfer began in the past and is within its deadline. *)
WithinDeadline ==
    \A t \in Running : /\ task[t].started <= now
                       /\ now <= task[t].started + Deadline

(* The host of a transfer was seen when it was started, or later: it is    *)
(* not stale before the deadline, which is the shorter time.               *)
ReporterFresh ==
    \A t \in Running :
        task[t].by.marked => /\ task[t].by.mac \in Tracked
                             /\ hosts[task[t].by.mac].last_seen >= task[t].started

(* Between the mark and the spawn the clock stands still. *)
RequesterFresh ==
    /\ listener # "open" => ~requester.marked
    /\ requester.marked => /\ requester.mac \in Tracked
                           /\ hosts[requester.mac].last_seen >= now

(* The inductive invariant. *)
ServerInv == LimitsKept /\ WithinDeadline /\ ReporterFresh /\ RequesterFresh
-----------------------------------------------------------------------------
(* The hosts of the store have their type and are within the ceiling. *)
HostsOK ==
    /\ Tracked \subseteq Macs
    /\ \A m \in Tracked : hosts[m] \in HostState
    /\ Cardinality(Tracked) <= MaxTracked

(* A tracked host stays tracked and was not seen earlier than before. *)
SeenLater ==
    \A m \in Tracked : /\ m \in Tracked'
                       /\ hosts'[m] = hosts[m] \/ hosts'[m].last_seen = now

(* update_host_status keeps the ceiling, forgets nobody and, unless the    *)
(* host is new and the store full, has seen the host now.                  *)
LEMMA UpdateKeeps ==
    ASSUME HostsOK, now \in Nat,
           NEW mac \in Macs, NEW status \in HostStatus,
           NEW target \in Targets \cup {None}, NEW ip \in Ips \cup {None},
           update_host_status(mac, status, target, ip)
    PROVE  HostsOK' /\ SeenLater
           /\ (mac \in Tracked' => hosts'[mac].last_seen = now)
<1>1. CASE mac \notin Tracked /\ Cardinality(Tracked) >= MaxTracked
  <2>1. hosts' = hosts
    BY <1>1 DEF update_host_status
  <2> QED
    BY <1>1, <2>1 DEF HostsOK, SeenLater, Tracked
<1>2. CASE ~(mac \notin Tracked /\ Cardinality(Tracked) >= MaxTracked)
  <2> DEFINE h == [status |-> status,
                   assigned_target |-> Or(target, Entry(mac).assigned_target),
                   client_ip |-> Or(ip, Entry(mac).client_ip),
                   last_seen |-> now]
  <2>1. hosts' = [m \in Tracked \cup {mac} |-> IF m # mac THEN hosts[m] ELSE h]
    BY <1>2 DEF update_host_status
  <2>2. Entry(mac) \in HostState
    BY DEF Entry, HostState, HostStatus, HostsOK
  <2>3. h \in HostState
    BY <2>2 DEF HostState, Or
  <2> HIDE DEF h
  <2>4. /\ Tracked' = Tracked \cup {mac}
        /\ hosts'[mac] = h
        /\ \A m \in Tracked \ {mac} : hosts'[m] = hosts[m]
    BY <2>1 DEF Tracked
  <2>5. h.last_seen = now
    BY DEF h
  <2>6. IsFiniteSet(Tracked) /\ Cardinality(Tracked) \in Nat
    BY StoreAssumption, FS_Subset, FS_CardinalityType DEF HostsOK
  <2>7. Cardinality(Tracked') <= MaxTracked
    <3> DEFINE n == Cardinality(Tracked)
    <3>1. Cardinality(Tracked') = IF mac \in Tracked THEN n ELSE n + 1
      BY <2>4, <2>6, FS_AddElement
    <3>2. n \in Nat /\ n <= MaxTracked /\ (mac \notin Tracked => n < MaxTracked)
      BY <1>2, <2>6, StoreAssumption DEF HostsOK
    <3> HIDE DEF n
    <3> QED
      BY <3>1, <3>2, StoreAssumption
  <2> QED
    BY <2>3, <2>4, <2>5, <2>7 DEF HostsOK, SeenLater
<1> QED
  BY <1>1, <1>2

(* log_event keeps the ring within its limit. *)
LEMMA LogKeeps ==
    ASSUME logs \in Seq(Macs), NEW mac \in Macs, log_event(mac)
    PROVE  logs' \in Seq(Macs) /\ Len(logs') <= MaxLogs
<1> DEFINE grown == Append(logs, mac)
<1>1. grown \in Seq(Macs) /\ Len(grown) \in Nat
  BY AppendProperties, LenProperties
<1>2. logs' = IF Len(grown) > MaxLogs
              THEN SubSeq(grown, Len(grown) - MaxLogs + 1, Len(grown))
              ELSE grown
  BY DEF log_event
<1> HIDE DEF grown
<1>3. CASE Len(grown) > MaxLogs
  <2> DEFINE a == Len(grown) - MaxLogs + 1
  <2>1. a \in 1..(Len(grown) + 1)
    BY <1>1, <1>3, StoreAssumption
  <2>2. logs' = SubSeq(grown, a, Len(grown))
    BY <1>2, <1>3
  <2>3. /\ SubSeq(grown, a, Len(grown)) \in Seq(Macs)
        /\ Len(SubSeq(grown, a, Len(grown)))
             = IF a <= Len(grown) THEN Len(grown) - a + 1 ELSE 0
    BY <1>1, <2>1, SubSeqProperties
  <2> QED
    BY <1>1, <1>3, <2>1, <2>2, <2>3, StoreAssumption
<1>4. CASE ~(Len(grown) > MaxLogs)
  BY <1>1, <1>2, <1>4, StoreAssumption
<1> QED
  BY <1>3, <1>4

(* An entry that is dropped by clean_stale_hosts is stale. *)
LEMMA SweepKeeps ==
    ASSUME HostsOK, clean_stale_hosts
    PROVE  /\ HostsOK'
           /\ \A m \in Tracked : ~Stale(hosts[m]) =>
                m \in Tracked' /\ hosts'[m] = hosts[m]
<1> DEFINE kept == {m \in Tracked : ~Stale(hosts[m])}
<1>1. hosts' = [m \in kept |-> hosts[m]]
  BY DEF clean_stale_hosts, Restrict
<1>2. kept \subseteq Tracked /\ \A m \in Tracked : ~Stale(hosts[m]) => m \in kept
  OBVIOUS
<1> HIDE DEF kept
<1>3. Tracked' = kept /\ \A m \in kept : hosts'[m] = hosts[m]
  BY <1>1 DEF Tracked
<1>4. IsFiniteSet(Tracked) /\ Cardinality(Tracked) \in Nat
  BY StoreAssumption, FS_Subset, FS_CardinalityType DEF HostsOK
<1>5. Cardinality(kept) <= Cardinality(Tracked) /\ Cardinality(kept) \in Nat
  BY <1>2, <1>4, FS_Subset, FS_CardinalityType
<1>6. Cardinality(kept) <= MaxTracked
  BY <1>4, <1>5, StoreAssumption DEF HostsOK
<1> QED
  BY <1>2, <1>3, <1>6 DEF HostsOK
-----------------------------------------------------------------------------
(* The permits of the tasks that hold one are accounted for when a task    *)
(* takes one, gives it back, or keeps it.                                  *)
LEMMA HoldingIsFinite == IsFiniteSet(Holding) /\ Cardinality(Holding) \in Nat
<1>1. Holding \subseteq Tasks
  BY DEF Holding
<1> QED
  BY <1>1, ServerAssumption, FS_Subset, FS_CardinalityType

(* The server has no host, no task and all its permits when it starts. *)
LEMMA ServerStarts == Init => ServerInv
<1> SUFFICES ASSUME Init PROVE ServerInv
  OBVIOUS
<1> USE DEF Init, StoreInit
<1>1. Tracked = {}
  BY DEF Tracked
<1>2. Holding = {} /\ Running = {}
  BY DEF Holding, Running, NoTask
<1>3. logs \in Seq(Macs) /\ Len(logs) = 0
  OBVIOUS
<1>4. TypeOK
  BY <1>1, <1>3, ServerAssumption
  DEF TypeOK, Requesters, Nobody, NoTask
<1>5. PermitsAccounted /\ StoreBounded
  BY <1>1, <1>2, <1>3, FS_EmptySet, StoreAssumption, ServerAssumption
  DEF PermitsAccounted, StoreBounded
<1> QED
  BY <1>2, <1>4, <1>5
  DEF ServerInv, LimitsKept, WithinDeadline, ReporterFresh, RequesterFresh, Nobody

(* What a step does to the store, told without its operations: it keeps    *)
(* the ceilings, and forgets no host that a transfer is to report about.   *)
StoreStep ==
    /\ HostsOK'
    /\ logs' \in Seq(Macs) /\ Len(logs') <= MaxLogs
    /\ SeenLater

(* Every report and every mark is such a step. *)
LEMMA ReportIsStoreStep ==
    ASSUME TypeOK, StoreBounded,
           NEW mac \in Macs, NEW status \in HostStatus, NEW ip \in Ips \cup {None},
           update_host_status(mac, status, None, ip), log_event(mac)
    PROVE  StoreStep /\ (mac \in Tracked' => hosts'[mac].last_seen = now)
<1>1. HostsOK
  BY DEF TypeOK, StoreBounded, HostsOK
<1>2. logs' \in Seq(Macs) /\ Len(logs') <= MaxLogs
  BY LogKeeps DEF TypeOK
<1>3. HostsOK' /\ SeenLater /\ (mac \in Tracked' => hosts'[mac].last_seen = now)
  BY <1>1, UpdateKeeps DEF TypeOK
<1> QED
  BY <1>2, <1>3 DEF StoreStep

(* And so is a step that leaves the store alone. *)
LEMMA QuietIsStoreStep ==
    ASSUME TypeOK, StoreBounded, UNCHANGED store
    PROVE  StoreStep
BY DEF TypeOK, StoreBounded, store, StoreStep, HostsOK, SeenLater, Tracked

(* The hosts of running transfers and of the request at hand stay fresh.   *)
LEMMA StaysFresh ==
    ASSUME ServerInv, StoreStep, now' = now
    PROVE  /\ \A t \in Running : task[t].by.marked =>
                /\ task[t].by.mac \in Tracked'
                /\ hosts'[task[t].by.mac].last_seen >= task[t].started
           /\ requester.marked =>
                /\ requester.mac \in Tracked'
                /\ hosts'[requester.mac].last_seen >= now
<1> USE DEF ServerInv, LimitsKept
<1>1. \A m \in Tracked : /\ m \in Tracked'
                         /\ hosts'[m] = hosts[m] \/ hosts'[m].last_seen = now
  BY DEF StoreStep, SeenLater
<1>2. ASSUME NEW t \in Running, task[t].by.marked
      PROVE  /\ task[t].by.mac \in Tracked'
             /\ hosts'[task[t].by.mac].last_seen >= task[t].started
  <2>1. /\ task[t].by.mac \in Tracked
        /\ hosts[task[t].by.mac].last_seen >= task[t].started
        /\ task[t].started <= now
    BY <1>2 DEF ReporterFresh, WithinDeadline
  <2>2. task[t].started \in Nat /\ now \in Nat
    BY DEF TypeOK, Running
  <2> QED
    BY <1>1, <2>1, <2>2
<1>3. ASSUME requester.marked
      PROVE  /\ requester.mac \in Tracked'
             /\ hosts'[requester.mac].last_seen >= now
  <2>1. requester.mac \in Tracked /\ hosts[requester.mac].last_seen >= now
    BY <1>3 DEF RequesterFresh
  <2>2. now \in Nat
    BY DEF TypeOK
  <2> QED
    BY <1>1, <2>1, <2>2
<1> QED
  BY <1>2, <1>3
-----------------------------------------------------------------------------
(* A step that starts and ends no task keeps the permits and what is known *)
(* of the running transfers.                                               *)
LEMMA SameTasks ==
    ASSUME ServerInv, StoreStep, UNCHANGED <<now, permits, task>>,
           listener' \in {"recv", "mark", "open"}, requester' \in Requesters
    PROVE  LimitsKept' /\ WithinDeadline' /\ ReporterFresh'
<1> USE DEF ServerInv, LimitsKept
<1>1. Running' = Running /\ Holding' = Holding
  BY DEF Running, Holding
<1>2. TypeOK'
  BY DEF TypeOK, StoreStep, HostsOK
<1>3. PermitsAccounted' /\ StoreBounded'
  BY <1>1 DEF PermitsAccounted, StoreBounded, StoreStep, HostsOK
<1>4. WithinDeadline'
  BY <1>1 DEF WithinDeadline
<1>5. ReporterFresh'
  BY <1>1, StaysFresh DEF ReporterFresh
<1> QED
  BY <1>2, <1>3, <1>4, <1>5

(* Nobody asks for a transfer while the listener waits for a packet. *)
LEMMA NobodyAsks ==
    /\ Nobody \in Requesters
    /\ requester' = Nobody => RequesterFresh'
BY DEF Requesters, RequesterFresh, Nobody

(* A requester is marked or not, with the host that it has. *)
LEMMA Remark ==
    ASSUME NEW r \in Requesters, NEW b \in BOOLEAN
    PROVE  /\ [r EXCEPT !.marked = b] \in Requesters
           /\ [r EXCEPT !.marked = b].mac = r.mac
           /\ [r EXCEPT !.marked = b].marked = b
BY DEF Requesters

(* The listener: the request at hand is marked in the store, if the store  *)
(* has room, and is refused or becomes a task that takes a free permit.    *)
LEMMA ListenerStep ==
    ASSUME ServerInv, Listener
    PROVE  ServerInv'
<1> USE DEF ServerInv, LimitsKept
<1>1. ASSUME NEW ip \in Ips, RecvRrq(ip)
      PROVE  ServerInv'
  <2>1. /\ UNCHANGED <<store, now, permits, task>> /\ listener' = "mark"
        /\ requester' \in Requesters /\ ~requester'.marked
    <3>1. ASSUME NEW mac \in Macs, requester' = [Nobody EXCEPT !.mac = mac]
          PROVE  requester' \in Requesters /\ ~requester'.marked
      BY <3>1 DEF Nobody, Requesters
    <3>2. requester' = Nobody => requester' \in Requesters /\ ~requester'.marked
      BY DEF Nobody, Requesters
    <3>3. \/ \E mac \in Macs : requester' = [Nobody EXCEPT !.mac = mac]
          \/ requester' = Nobody
      BY <1>1 DEF RecvRrq, HostsAt, TypeOK
    <3> QED
      BY <1>1, <3>1, <3>2, <3>3 DEF RecvRrq
  <2>2. RequesterFresh'
    BY <2>1 DEF RequesterFresh
  <2> QED
    BY <2>1, <2>2, QuietIsStoreStep, SameTasks
<1>2. CASE MarkBooting
  <2>1. /\ UNCHANGED <<now, permits, task>> /\ listener' = "open"
        /\ requester' = [requester EXCEPT !.marked = requester.mac \in Tracked']
    BY <1>2 DEF MarkBooting, Tracked
  <2>2. /\ requester' \in Requesters /\ requester'.mac = requester.mac
        /\ requester'.marked = (requester.mac \in Tracked')
    <3> DEFINE b == requester.mac \in Tracked'
    <3>1. b \in BOOLEAN /\ requester' = [requester EXCEPT !.marked = b]
      <4>1. b \in BOOLEAN
        OBVIOUS
      <4> QED
        BY <2>1, <4>1
    <3>2. requester \in Requesters
      BY DEF TypeOK
    <3> HIDE DEF b
    <3>3. /\ requester' \in Requesters /\ requester'.mac = requester.mac
          /\ requester'.marked = b
      BY <3>1, <3>2, Remark
    <3> QED
      BY <3>3 DEF b
  <2>3. /\ StoreStep
        /\ requester.mac \in Tracked' => hosts'[requester.mac].last_seen = now
    <3>1. CASE requester.mac = None
      <4>1. StoreStep
        BY <1>2, <3>1, QuietIsStoreStep DEF MarkBooting
      <4> QED
        BY <3>1, <4>1, StoreAssumption DEF StoreStep, HostsOK
    <3>2. CASE requester.mac # None
      <4>1. requester.mac \in Macs
        BY <3>2 DEF TypeOK, Requesters
      <4>2. /\ update_host_status(requester.mac, "Booting", None, None)
            /\ log_event(requester.mac)
        BY <1>2, <3>2 DEF MarkBooting
      <4>3. "Booting" \in HostStatus /\ None \in Ips \cup {None}
        BY DEF HostStatus
      <4> QED
        BY <4>1, <4>2, <4>3, ReportIsStoreStep
    <3> QED
      BY <3>1, <3>2
  <2>4. RequesterFresh'
    <3>1. requester'.marked => /\ requester'.mac \in Tracked'
                               /\ hosts'[requester'.mac].last_seen = now'
      BY <2>1, <2>2, <2>3
    <3>2. now' \in Nat
      BY <2>1 DEF TypeOK
    <3> QED
      BY <2>1, <3>1, <3>2 DEF RequesterFresh
  <2> QED
    BY <2>1, <2>2, <2>3, <2>4, SameTasks
<1>3. CASE SocketFails \/ RefuseBusy
  <2>1. /\ UNCHANGED <<store, now, permits, task>>
        /\ listener' = "recv" /\ requester' = Nobody
    BY <1>3 DEF SocketFails, RefuseBusy, NextPacket
  <2> QED
    BY <2>1, QuietIsStoreStep, SameTasks, NobodyAsks
<1>4. CASE SpawnTransfer
  <2>1. PICK t \in Tasks \ Holding :
          task' = [task EXCEPT ![t] = [state |-> "running", by |-> requester,
                                       started |-> now]]
    BY <1>4 DEF SpawnTransfer
  <2>2. /\ permits > 0 /\ permits' = permits - 1
        /\ UNCHANGED <<store, now>> /\ listener' = "recv" /\ requester' = Nobody
    BY <1>4 DEF SpawnTransfer, NextPacket
  <2>3. /\ task' \in [Tasks -> [state: {"none", "running", "ended"},
                                by: Requesters, started: Nat]]
        /\ Holding' = Holding \cup {t}
        /\ Running' = Running \cup {t}
        /\ task'[t].by = requester /\ task'[t].started = now
        /\ \A u \in Running : task'[u] = task[u]
    BY <2>1 DEF TypeOK, Holding, Running
  <2>4. PermitsAccounted' /\ permits' \in 0..MaxTransfers
    <3>1. Cardinality(Holding') = Cardinality(Holding) + 1
      BY <2>1, <2>3, FS_AddElement, HoldingIsFinite
    <3> QED
      BY <2>2, <3>1, HoldingIsFinite, ServerAssumption DEF PermitsAccounted, TypeOK
  <2>5. TypeOK' /\ StoreBounded'
    BY <2>2, <2>3, <2>4, NobodyAsks DEF TypeOK, StoreBounded, Tracked, store
  <2>6. WithinDeadline'
    BY <2>2, <2>3, ServerAssumption DEF WithinDeadline, TypeOK
  <2>7. ReporterFresh'
    BY <2>2, <2>3 DEF ReporterFresh, RequesterFresh, Tracked, store
  <2> QED
    BY <2>2, <2>4, <2>5, <2>6, <2>7, NobodyAsks
<1> QED
  BY <1>1, <1>2, <1>3, <1>4 DEF Listener

(* A task: it reports about its host, and its permit is given back once. *)
LEMMA TaskStepKeeps ==
    ASSUME ServerInv, NEW t \in Tasks, TaskStep(t)
    PROVE  ServerInv'
<1> USE DEF ServerInv, LimitsKept
<1>1. CASE TransferEnds(t)
  <2>1. /\ task[t].state = "running"
        /\ task' = [task EXCEPT ![t] = [NoTask EXCEPT !.state = "ended"]]
        /\ UNCHANGED <<now, listener, requester, permits>>
    BY <1>1 DEF TransferEnds
  <2>2. StoreStep
    <3>1. CASE UNCHANGED store
      BY <3>1, QuietIsStoreStep
    <3>2. CASE /\ task[t].by.mac # None
               /\ \E status \in {"Completed", "Failed"} :
                     update_host_status(task[t].by.mac, status, None, None)
               /\ log_event(task[t].by.mac)
      <4>1. task[t].by.mac \in Macs /\ None \in Ips \cup {None}
        BY <3>2 DEF TypeOK, Requesters
      <4>2. PICK status \in {"Completed", "Failed"} :
                update_host_status(task[t].by.mac, status, None, None)
        BY <3>2
      <4>3. status \in HostStatus
        BY DEF HostStatus
      <4> QED
        BY <3>2, <4>1, <4>2, <4>3, ReportIsStoreStep
    <3> QED
      BY <1>1, <3>1, <3>2 DEF TransferEnds
  <2>3. /\ task' \in [Tasks -> [state: {"none", "running", "ended"},
                                by: Requesters, started: Nat]]
        /\ Holding' = Holding /\ Running' = Running \ {t}
        /\ \A u \in Running' : task'[u] = task[u]
    BY <2>1, NobodyAsks DEF TypeOK, Holding, Running, NoTask
  <2>4. TypeOK'
    BY <2>1, <2>2, <2>3 DEF TypeOK, StoreStep, HostsOK
  <2>5. PermitsAccounted' /\ StoreBounded'
    BY <2>1, <2>2, <2>3 DEF PermitsAccounted, StoreBounded, StoreStep, HostsOK
  <2>6. WithinDeadline'
    BY <2>1, <2>3 DEF WithinDeadline
  <2>7. ReporterFresh' /\ RequesterFresh'
    BY <2>1, <2>2, <2>3, StaysFresh DEF ReporterFresh, RequesterFresh
  <2> QED
    BY <2>4, <2>5, <2>6, <2>7
<1>2. CASE DropPermit(t)
  <2>1. /\ task[t].state = "ended" /\ task' = [task EXCEPT ![t] = NoTask]
        /\ permits' = permits + 1
        /\ UNCHANGED <<store, now, listener, requester>>
    BY <1>2 DEF DropPermit
  <2>2. /\ task' \in [Tasks -> [state: {"none", "running", "ended"},
                                by: Requesters, started: Nat]]
        /\ t \in Holding /\ Holding' = Holding \ {t} /\ Running' = Running
        /\ \A u \in Running : task'[u] = task[u]
    BY <2>1, NobodyAsks DEF TypeOK, Holding, Running, NoTask
  <2>3. PermitsAccounted' /\ permits' \in 0..MaxTransfers
    <3>1. /\ Cardinality(Holding') = Cardinality(Holding) - 1
          /\ Cardinality(Holding') \in Nat
      BY <2>2, FS_RemoveElement, FS_CardinalityType, HoldingIsFinite
    <3> QED
      BY <2>1, <3>1, HoldingIsFinite, ServerAssumption DEF PermitsAccounted, TypeOK
  <2>4. TypeOK' /\ StoreBounded'
    BY <2>1, <2>2, <2>3 DEF TypeOK, StoreBounded, Tracked, store
  <2>5. WithinDeadline'
    BY <2>1, <2>2 DEF WithinDeadline
  <2>6. ReporterFresh' /\ RequesterFresh'
    BY <2>1, <2>2 DEF ReporterFresh, RequesterFresh, Tracked, store
  <2> QED
    BY <2>3, <2>4, <2>5, <2>6
<1> QED
  BY <1>1, <1>2 DEF TaskStep

(* The sweep drops no host of a running transfer: the deadline is shorter  *)
(* than the time after which a host is stale.                              *)
LEMMA SweepStep ==
    ASSUME ServerInv, SweepStale
    PROVE  ServerInv'
<1> USE DEF ServerInv, LimitsKept
<1>1. clean_stale_hosts /\ UNCHANGED <<logs, now, listener, requester, permits, task>>
  BY DEF SweepStale
<1>2. /\ HostsOK'
      /\ \A m \in Tracked : ~Stale(hosts[m]) =>
            m \in Tracked' /\ hosts'[m] = hosts[m]
  BY <1>1, SweepKeeps DEF HostsOK, TypeOK, StoreBounded
<1>3. Running' = Running /\ Holding' = Holding
  BY <1>1 DEF Running, Holding
<1>4. TypeOK' /\ PermitsAccounted' /\ StoreBounded' /\ WithinDeadline'
  BY <1>1, <1>2, <1>3
  DEF TypeOK, HostsOK, PermitsAccounted, StoreBounded, WithinDeadline
<1>5. ASSUME NEW t \in Running, task[t].by.marked
      PROVE  ~Stale(hosts[task[t].by.mac])
  <2> DEFINE seen == hosts[task[t].by.mac].last_seen
  <2> DEFINE start == task[t].started
  <2>1. task[t].by.mac \in Tracked /\ seen >= start /\ now <= start + Deadline
    BY <1>5 DEF ReporterFresh, WithinDeadline
  <2>2. seen \in Nat /\ start \in Nat /\ now \in Nat
    BY <2>1 DEF TypeOK, HostState, Running
  <2>3. ~(now - seen >= Ttl)
    <3> HIDE DEF seen, start
    <3> QED
      BY <2>1, <2>2, ServerAssumption, StoreAssumption
  <2> QED
    BY <2>3 DEF Stale
<1>6. ASSUME requester.marked
      PROVE  ~Stale(hosts[requester.mac])
  <2> DEFINE seen == hosts[requester.mac].last_seen
  <2>1. requester.mac \in Tracked /\ seen >= now
    BY <1>6 DEF RequesterFresh
  <2>2. seen \in Nat /\ now \in Nat
    BY <2>1 DEF TypeOK, HostState
  <2>3. ~(now - seen >= Ttl)
    <3> HIDE DEF seen
    <3> QED
      BY <2>1, <2>2, StoreAssumption
  <2> QED
    BY <2>3 DEF Stale
<1>7. ReporterFresh'
  BY <1>1, <1>2, <1>3, <1>5 DEF ReporterFresh
<1>8. RequesterFresh'
  BY <1>1, <1>2, <1>6 DEF RequesterFresh
<1> QED
  BY <1>4, <1>7, <1>8

(* What the other servers record, and the clock, which waits for transfers *)
(* whose deadline has come and for a request that is being served.         *)
LEMMA AroundStep ==
    ASSUME ServerInv,
           \/ \E mac \in Macs, status \in {"Polling", "Booting"}, ip \in Ips :
                    OtherServer(mac, status, ip)
           \/ Tick
    PROVE  ServerInv'
<1> USE DEF ServerInv, LimitsKept
<1>1. ASSUME NEW mac \in Macs, NEW status \in {"Polling", "Booting"},
             NEW ip \in Ips, OtherServer(mac, status, ip)
      PROVE  ServerInv'
  <2>1. /\ update_host_status(mac, status, None, ip) /\ log_event(mac)
        /\ UNCHANGED <<now, listener, requester, permits, task>>
    BY <1>1 DEF OtherServer
  <2>2. status \in HostStatus /\ ip \in Ips \cup {None}
    BY DEF HostStatus
  <2>3. StoreStep
    BY <2>1, <2>2, ReportIsStoreStep
  <2>4. RequesterFresh'
    BY <2>1, <2>3, StaysFresh DEF RequesterFresh
  <2> QED
    BY <2>1, <2>3, <2>4, SameTasks DEF TypeOK
<1>2. CASE Tick
  <2>1. /\ now' = now + 1 /\ listener = "recv"
        /\ \A t \in Running : now < task[t].started + Deadline
        /\ UNCHANGED <<store, listener, requester, permits, task>>
    BY <1>2 DEF Tick
  <2>2. Running' = Running /\ Holding' = Holding
    BY <2>1 DEF Running, Holding
  <2>3. TypeOK' /\ PermitsAccounted' /\ StoreBounded'
    BY <2>1, <2>2 DEF TypeOK, PermitsAccounted, StoreBounded, store, Tracked
  <2>4. WithinDeadline'
    <3>1. ASSUME NEW t \in Running
          PROVE  task[t].started <= now + 1 /\ now + 1 <= task[t].started + Deadline
      <4>1. /\ task[t].started \in Nat /\ now \in Nat
            /\ task[t].started <= now /\ now < task[t].started + Deadline
        BY <2>1, <3>1 DEF TypeOK, Running, WithinDeadline
      <4> QED
        BY <4>1, ServerAssumption
    <3> QED
      BY <2>1, <2>2, <3>1 DEF WithinDeadline
  <2>5. ReporterFresh' /\ RequesterFresh'
    BY <2>1, <2>2 DEF ReporterFresh, RequesterFresh, store, Tracked
  <2> QED
    BY <2>3, <2>4, <2>5
<1> QED
  BY <1>1, <1>2
-----------------------------------------------------------------------------
(* Every step keeps the inductive invariant. *)
LEMMA ServerInductive == ServerInv /\ [Next]_vars => ServerInv'
<1> SUFFICES ASSUME ServerInv, [Next]_vars PROVE ServerInv'
  OBVIOUS
<1>1. CASE UNCHANGED vars
  BY <1>1
  DEF vars, ServerInv, LimitsKept, TypeOK, PermitsAccounted, StoreBounded,
      WithinDeadline, ReporterFresh, RequesterFresh, Tracked, Running, Holding
<1> QED
  BY <1>1, ListenerStep, TaskStepKeeps, SweepStep, AroundStep DEF Next

(* The listener, the tasks it spawns, the other servers and the sweep keep *)
(* the inductive invariant, in whatever order they come.                   *)
THEOREM ServerInvariant == Safety => []ServerInv
  BY ServerStarts, ServerInductive, PTL DEF Safety

(* For every number of permits, tasks and hosts: no permit of the          *)
(* semaphore is lost or doubled, and the host store and the log ring keep  *)
(* their ceilings (run_tftp_server_with_limit, update_host_status,         *)
(* log_event).                                                             *)
THEOREM LimitsAreKept == Safety => []LimitsKept
<1>1. ServerInv => LimitsKept
  BY DEF ServerInv
<1> QED
  BY <1>1, ServerInvariant, PTL

(* For every deadline shorter than the time after which a host is stale:   *)
(* clean_stale_hosts drops no host whose transfer has yet to report.       *)
THEOREM ReportersAreTracked == Safety => []ReporterTracked
<1>1. ServerInv => ReporterTracked
  BY DEF ServerInv, ReporterFresh, ReporterTracked
<1> QED
  BY <1>1, ServerInvariant, PTL

(* A server without a free slot has a transfer at work before its deadline *)
(* or one that is about to give its slot back; a server with a free slot   *)
(* has an identity free, so that the model's identities limit nothing.     *)
FullIsBusy ==
    /\ permits = 0 => \E t \in Tasks :
        \/ task[t].state = "running" /\ now <= task[t].started + Deadline
        \/ task[t].state = "ended"
    /\ permits > 0 => Tasks \ Holding # {}

(* The safety half of SlotsComeBack, for every number of permits: a slot   *)
(* that is taken is held by a transfer that will give it back, never by    *)
(* nobody (the permit that moves into the spawned task).                   *)
THEOREM FullServersAreBusy == Safety => []FullIsBusy
<1>1. ServerInv => FullIsBusy
  <2> SUFFICES ASSUME ServerInv PROVE FullIsBusy
    OBVIOUS
  <2>1. /\ permits + Cardinality(Holding) = MaxTransfers /\ permits \in Nat
        /\ task \in [Tasks -> [state: {"none", "running", "ended"},
                               by: Requesters, started: Nat]]
        /\ WithinDeadline
    BY ServerAssumption DEF ServerInv, LimitsKept, TypeOK, PermitsAccounted
  <2>2. Cardinality(Holding) \in Nat /\ MaxTransfers \in Nat \ {0}
    BY HoldingIsFinite, ServerAssumption
  <2>3. ASSUME permits = 0
        PROVE  \E t \in Tasks :
                \/ task[t].state = "running" /\ now <= task[t].started + Deadline
                \/ task[t].state = "ended"
    <3>1. Holding # {}
      <4>1. Cardinality(Holding) # 0
        BY <2>1, <2>2, <2>3
      <4> QED
        BY <4>1, FS_EmptySet
    <3>2. PICK t \in Tasks : task[t].state # "none"
      BY <3>1 DEF Holding
    <3>3. task[t].state \in {"running", "ended"}
      BY <2>1, <3>2
    <3> QED
      BY <2>1, <3>3 DEF WithinDeadline, Running
  <2>4. ASSUME permits > 0
        PROVE  Tasks \ Holding # {}
    <3>1. Cardinality(Holding) < Cardinality(Tasks)
      <4>1. Cardinality(Tasks) \in Nat /\ MaxTransfers < Cardinality(Tasks)
        BY ServerAssumption, FS_CardinalityType
      <4> QED
        BY <2>1, <2>2, <2>4, <4>1
    <3>2. Holding \subseteq Tasks
      BY DEF Holding
    <3>3. Holding # Tasks
      BY <2>2, <3>1
    <3> QED
      BY <3>2, <3>3
  <2> QED
    BY <2>3, <2>4 DEF FullIsBusy
<1> QED
  BY <1>1, ServerInvariant, PTL
=============================================================================
