----------------------------- MODULE TftpServer -----------------------------
(***************************************************************************)
(* The TFTP listener, run_tftp_server_with_limit of                        *)
(* bootycall-tftp/src/server.rs, the transfer tasks it spawns under a      *)
(* semaphore, and the host store they share with the other servers and     *)
(* with the sweep of stale hosts in bootycall-rs/src/main.rs.              *)
(* A transfer is what FileTransfer says of it: it ends Completed, Failed   *)
(* or without a report, and it ends before its deadline.                   *)
(***************************************************************************)
EXTENDS StateStore

CONSTANTS
    MaxTransfers,       \* MAX_CONCURRENT_TRANSFERS
    Tasks,              \* identities for spawned tasks, more than permits
    Deadline,           \* TRANSFER_DEADLINE and the last receive, in time units
    MaxTime             \* bound: where the clock stops

ASSUME ServerAssumption ==
    /\ MaxTransfers \in Nat \ {0}
    /\ IsFiniteSet(Tasks) /\ Cardinality(Tasks) > MaxTransfers
    /\ Deadline \in Nat /\ Deadline < Ttl
    /\ MaxTime \in Nat

VARIABLES
    listener,           \* "recv", "mark" (host looked up) or "open" (a socket)
    requester,          \* host the request is attributed to; marked is a ghost:
                        \* the store had an entry for it once it was marked
    permits,            \* free slots of the semaphore
    task                \* per identity: state, host and start of the task

vars == <<hosts, logs, now, listener, requester, permits, task>>

Nobody == [mac |-> None, marked |-> FALSE]
NoTask == [state |-> "none", by |-> Nobody, started |-> 0]

Running == {t \in Tasks : task[t].state = "running"}
Holding == {t \in Tasks : task[t].state # "none"}

Init ==
    /\ StoreInit
    /\ listener = "recv" /\ requester = Nobody
    /\ permits = MaxTransfers
    /\ task = [t \in Tasks |-> NoTask]
-----------------------------------------------------------------------------
(* The tracked hosts with this address; `find` takes the first one in the  *)
(* map's arbitrary order.                                                  *)
HostsAt(ip) == {m \in Tracked : hosts[m].client_ip = ip}

(* A read request whose path is inside tftp_root, from address ip.  The    *)
(* lookup copies the hosts; the store is unlocked again before the mark.   *)
RecvRrq(ip) ==
    /\ listener = "recv"
    /\ \/ \E mac \in HostsAt(ip) : requester' = [Nobody EXCEPT !.mac = mac]
       \/ HostsAt(ip) = {} /\ requester' = Nobody
    /\ listener' = "mark"
    /\ UNCHANGED <<store, now, permits, task>>

(* Mutant: the start of a transfer is only logged. *)
LogBooting ==
    /\ listener = "mark"
    /\ IF requester.mac = None THEN UNCHANGED store
       ELSE log_event(requester.mac) /\ UNCHANGED hosts
    /\ requester' = [requester EXCEPT !.marked = @ \/ requester.mac \in DOMAIN hosts']
    /\ listener' = "open"
    /\ UNCHANGED <<now, permits, task>>

MarkBooting ==
    /\ listener = "mark"
    /\ IF requester.mac = None THEN UNCHANGED store
       ELSE /\ update_host_status(requester.mac, "Booting", None, None)
            /\ log_event(requester.mac)
    /\ requester' = [requester EXCEPT !.marked = requester.mac \in DOMAIN hosts']
    /\ listener' = "open"
    /\ UNCHANGED <<now, permits, task>>

(* The listener turns to the next packet. *)
NextPacket == listener' = "recv" /\ requester' = Nobody

(* The transfer socket cannot be bound or connected. *)
SocketFails ==
    /\ listener = "open"
    /\ NextPacket
    /\ UNCHANGED <<store, now, permits, task>>

(* No permit: "Server busy". *)
RefuseBusy ==
    /\ listener = "open" /\ permits = 0
    /\ NextPacket
    /\ UNCHANGED <<store, now, permits, task>>

SpawnTransfer ==
    /\ listener = "open" /\ permits > 0
    /\ \E t \in Tasks \ Holding :
        task' = [task EXCEPT ![t] = [state |-> "running", by |-> requester,
                                     started |-> now]]
    /\ permits' = permits - 1
    /\ NextPacket
    /\ UNCHANGED <<store, now>>

(* Mutant: the task is gone before its permit is given back. *)
TransferLeaks(t) ==
    /\ task[t].state = "running"
    /\ task' = [task EXCEPT ![t] = NoTask]
    /\ UNCHANGED <<store, now, listener, requester, permits>>

(* handle_tftp_transfer returns, having reported or not. *)
TransferEnds(t) ==
    /\ task[t].state = "running"
    /\ \/ /\ task[t].by.mac # None
          /\ \E status \in {"Completed", "Failed"} :
                update_host_status(task[t].by.mac, status, None, None)
          /\ log_event(task[t].by.mac)
       \/ UNCHANGED store
    /\ task' = [task EXCEPT ![t] = [NoTask EXCEPT !.state = "ended"]]
    /\ UNCHANGED <<now, listener, requester, permits>>

(* Mutant: the permit is forgotten, not dropped. *)
ForgetPermit(t) ==
    /\ task[t].state = "ended"
    /\ task' = [task EXCEPT ![t] = NoTask]
    /\ UNCHANGED <<store, now, listener, requester, permits>>

DropPermit(t) ==
    /\ task[t].state = "ended"
    /\ task' = [task EXCEPT ![t] = NoTask]
    /\ permits' = permits + 1
    /\ UNCHANGED <<store, now, listener, requester>>
-----------------------------------------------------------------------------
(* The DHCP and HTTP servers record what they see of a host. *)
OtherServer(mac, status, ip) ==
    /\ update_host_status(mac, status, None, ip)
    /\ log_event(mac)
    /\ UNCHANGED <<now, listener, requester, permits, task>>

(* The periodic task of main. *)
SweepStale ==
    /\ clean_stale_hosts
    /\ UNCHANGED <<logs, now, listener, requester, permits, task>>

(* Opening a socket takes no time, and a transfer is over by its deadline. *)
Tick ==
    /\ now < MaxTime
    /\ listener = "recv"
    /\ \A t \in Running : now < task[t].started + Deadline
    /\ now' = now + 1
    /\ UNCHANGED <<store, listener, requester, permits, task>>
-----------------------------------------------------------------------------
Listener ==
    \/ \E ip \in Ips : RecvRrq(ip)
    \/ MarkBooting \/ SocketFails \/ RefuseBusy \/ SpawnTransfer

TaskStep(t) == TransferEnds(t) \/ DropPermit(t)

Next ==
    \/ Listener
    \/ \E t \in Tasks : TaskStep(t)
    \/ \E mac \in Macs, status \in {"Polling", "Booting"}, ip \in Ips :
            OtherServer(mac, status, ip)
    \/ SweepStale
    \/ Tick

Safety == Init /\ [][Next]_vars

(* Every spawned task keeps being polled, and TftpTransfer!Terminates. *)
Spec == Safety /\ \A t \in Tasks : WF_vars(TaskStep(t))
-----------------------------------------------------------------------------
Requesters == [mac: Macs \cup {None}, marked: BOOLEAN]

(* Every variable has its type. *)
TypeOK ==
    /\ Tracked \subseteq Macs
    /\ \A m \in Tracked : hosts[m] \in HostState
    /\ logs \in Seq(Macs) /\ now \in Nat
    /\ listener \in {"recv", "mark", "open"} /\ requester \in Requesters
    /\ permits \in 0..MaxTransfers
    /\ task \in [Tasks -> [state: {"none", "running", "ended"},
                           by: Requesters, started: Nat]]

(* No permit is lost or doubled: a slot is free or held by one task, so    *)
(* never more than MaxTransfers transfers run.                             *)
PermitsAccounted == permits + Cardinality(Holding) = MaxTransfers

(* Both shared resources keep their limits, whatever the order of requests *)
(* and ends of transfers: the slots of the semaphore and the ceilings of   *)
(* the host store and of the log.                                          *)
LimitsKept == TypeOK /\ PermitsAccounted /\ StoreBounded

(* A host that the store knew as Booting when its transfer was started is  *)
(* still tracked when the transfer reports: the sweep does not drop it in  *)
(* the meantime, so the report updates the host's entry (its address and   *)
(* override target) and does not start an empty one, or get lost because   *)
(* the store has filled up.                                                *)
ReporterTracked ==
    \A t \in Running : task[t].by.marked => task[t].by.mac \in Tracked

(* A full server does not stay full: transfers end and give their slot     *)
(* back, so the listener can serve again.                                  *)
SlotsComeBack == permits = 0 ~> permits > 0
=============================================================================
