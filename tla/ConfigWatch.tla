----------------------------- MODULE ConfigWatch -----------------------------
(***************************************************************************)
(* Live reload of the configuration: watch_config and Config::load of      *)
(* bootycall-core/src/config.rs with the startup sequence and the reload   *)
(* callback of bootycall-rs/src/main.rs.  An operator edits the file (and  *)
(* its neighbours) at any time; the file system's events queue up in a     *)
(* channel for the watcher thread, which debounces them, loads the file,   *)
(* syncs the artifact cache and swaps the shared configuration.            *)
(***************************************************************************)
EXTENDS Naturals, Sequences

CONSTANTS
    Contents,           \* what the configuration file can hold
    Valid,              \* contents Config::load accepts
    Poison,             \* valid contents on which the reload callback panics
    Missing,            \* no file
    MaxQueue            \* bound: events waiting in the channel

ASSUME WatchAssumption ==
    /\ Valid \subseteq Contents /\ Poison \subseteq Valid
    /\ Missing \in Contents \ Valid
    /\ MaxQueue \in Nat \ {0}

NoConfig == "none"

VARIABLES
    disk,               \* content of the configuration file
    queue,              \* events in the channel, oldest first
    phase,              \* startup: "load", "sync", "share", "watch", "running", "exited"
    thread,             \* watcher thread: "recv", "debounce", "load", "sync", "swap"
    dirty,              \* an event of this batch was about the file
    loaded,             \* configuration the thread (at first: main) is working on
    synced,             \* configuration the last cache sync was tried for
    live,               \* shared configuration the servers read
    edited              \* ghost: the file was changed after the watch began

vars == <<disk, queue, phase, thread, dirty, loaded, synced, live, edited>>

Init ==
    /\ disk \in Contents
    /\ queue = <<>> /\ phase = "load" /\ thread = "recv" /\ dirty = FALSE
    /\ loaded = NoConfig /\ synced = NoConfig /\ live = NoConfig
    /\ edited = FALSE
-----------------------------------------------------------------------------
(* Startup.  The file is read once, before the initial sync, and watched   *)
(* only after it.                                                          *)
LoadAtStart ==
    /\ phase = "load"
    /\ IF disk \in Valid
       THEN phase' = "sync" /\ loaded' = disk
       ELSE phase' = "exited" /\ UNCHANGED loaded
    /\ UNCHANGED <<disk, queue, thread, dirty, synced, live, edited>>

(* On a blocking thread; an error or a panic is logged and startup goes on. *)
SyncAtStart ==
    /\ phase = "sync"
    /\ synced' = loaded
    /\ phase' = "share"
    /\ UNCHANGED <<disk, queue, thread, dirty, loaded, live, edited>>

ShareConfig ==
    /\ phase = "share"
    /\ live' = loaded
    /\ phase' = "watch"
    /\ UNCHANGED <<disk, queue, thread, dirty, loaded, synced, edited>>

StartWatch ==
    /\ phase = "watch"
    /\ phase' = "running"
    /\ UNCHANGED <<disk, queue, thread, dirty, loaded, synced, live, edited>>

(* The directory cannot be watched: the program ends. *)
WatchFails ==
    /\ phase = "watch"
    /\ phase' = "exited"
    /\ UNCHANGED <<disk, queue, thread, dirty, loaded, synced, live, edited>>

Startup == LoadAtStart \/ SyncAtStart \/ ShareConfig \/ StartWatch \/ WatchFails
-----------------------------------------------------------------------------
(* The operator.  Once the directory is watched each change is an event; a *)
(* removal, and a change of another file there, is one of another kind.    *)
Notify(kind) ==
    IF phase = "running"
    THEN Len(queue) < MaxQueue /\ queue' = Append(queue, kind)
    ELSE UNCHANGED queue

Edit(c) ==
    /\ disk # c
    /\ disk' = c
    /\ Notify(IF c = Missing THEN "other" ELSE "config")
    /\ edited' = (phase = "running")
    /\ UNCHANGED <<phase, thread, dirty, loaded, synced, live>>

TouchSibling ==
    /\ phase = "running"
    /\ Notify("other")
    /\ UNCHANGED <<disk, phase, thread, dirty, loaded, synced, live, edited>>
-----------------------------------------------------------------------------
event_targets_config(event) == event = "config"

RecvFirst ==
    /\ thread = "recv" /\ queue # <<>>
    /\ dirty' = event_targets_config(Head(queue))
    /\ queue' = Tail(queue)
    /\ thread' = "debounce"
    /\ UNCHANGED <<disk, phase, loaded, synced, live, edited>>

(* Mutant: a later event of the batch overrides what earlier ones said. *)
DrainLastEvent ==
    /\ thread = "debounce" /\ queue # <<>>
    /\ dirty' = event_targets_config(Head(queue))
    /\ queue' = Tail(queue)
    /\ UNCHANGED <<disk, phase, thread, loaded, synced, live, edited>>

DrainEvent ==
    /\ thread = "debounce" /\ queue # <<>>
    /\ dirty' = (dirty \/ event_targets_config(Head(queue)))
    /\ queue' = Tail(queue)
    /\ UNCHANGED <<disk, phase, thread, loaded, synced, live, edited>>

(* 200 ms without an event. *)
DebounceTimeout ==
    /\ thread = "debounce" /\ queue = <<>>
    /\ thread' = IF dirty THEN "load" ELSE "recv"
    /\ UNCHANGED <<disk, queue, phase, dirty, loaded, synced, live, edited>>

(* Config::load under catch_unwind: an error or a panic ends the batch. *)
Reload ==
    /\ thread = "load"
    /\ IF disk \in Valid
       THEN thread' = "sync" /\ loaded' = disk
       ELSE thread' = "recv" /\ UNCHANGED loaded
    /\ UNCHANGED <<disk, queue, phase, dirty, synced, live, edited>>

(* Mutant: the new configuration is swapped in without a sync. *)
SkipSync ==
    /\ thread = "sync" /\ loaded \notin Poison
    /\ thread' = "swap"
    /\ UNCHANGED <<disk, queue, phase, dirty, loaded, synced, live, edited>>

(* The callback, under catch_unwind: sync_all_hosts_cache, then the swap.  *)
(* A sync that fails is logged and its configuration swapped in as well,   *)
(* so that the two outcomes are one step.  A panic leaves live as it was.  *)
SyncCache ==
    /\ thread = "sync" /\ loaded \notin Poison
    /\ synced' = loaded
    /\ thread' = "swap"
    /\ UNCHANGED <<disk, queue, phase, dirty, loaded, live, edited>>

(* Mutant: the panic ends the thread. *)
PanicKillsThread == thread = "sync" /\ loaded \in Poison /\ UNCHANGED vars

CallbackPanics ==
    /\ thread = "sync" /\ loaded \in Poison
    /\ thread' = "recv"
    /\ UNCHANGED <<disk, queue, phase, dirty, loaded, synced, live, edited>>

SwapConfig ==
    /\ thread = "swap"
    /\ live' = loaded
    /\ thread' = "recv"
    /\ UNCHANGED <<disk, queue, phase, dirty, loaded, synced, edited>>

Watcher ==
    \/ RecvFirst \/ DrainEvent \/ DebounceTimeout \/ Reload
    \/ SyncCache \/ CallbackPanics \/ SwapConfig
-----------------------------------------------------------------------------
Next ==
    \/ Startup
    \/ \E c \in Contents : Edit(c)
    \/ TouchSibling
    \/ Watcher

Safety == Init /\ [][Next]_vars

(* The directory is quiet now and then: a thread that drains the channel   *)
(* finds it empty sooner or later, and not always just for less than the   *)
(* 200 ms of the debounce.                                                 *)
Quiet == []<>(thread = "debounce" => queue = <<>>) /\ SF_vars(DebounceTimeout)

(* main and the thread keep running; nothing else is assumed of the        *)
(* operator, who may stop editing or go on for ever.                       *)
Spec == Safety /\ WF_vars(Startup) /\ WF_vars(Watcher) /\ Quiet
-----------------------------------------------------------------------------
(* The servers never see a configuration before a cache sync for it was    *)
(* tried: live is the one of the last sync, except while a reload is       *)
(* between its sync and its swap.  (A sync that failed counts: the code    *)
(* serves the hosts whose artifacts are there.)                            *)
LiveIsSynced ==
    \/ live = NoConfig
    \/ live = synced
    \/ thread = "swap" /\ synced = loaded

(* Nothing is forgotten: while the live configuration is not what the file *)
(* holds after an edit that can be loaded, an event about the file waits   *)
(* in the channel, or the thread is on its way to load the file again.     *)
EditIsPending ==
    edited /\ disk \in Valid \ Poison /\ live # disk =>
        \/ \E i \in 1..Len(queue) : queue[i] = "config"
        \/ thread = "debounce" /\ dirty
        \/ thread = "load"
        \/ thread \in {"sync", "swap"} /\ loaded = disk

(* An edit of the watched file takes effect: the valid content the file is *)
(* left with becomes live, also after invalid edits and after contents     *)
(* that made the callback panic.                                           *)
EditTakesEffect ==
    \A c \in Valid \ Poison :
        edited /\ disk = c ~> live = c \/ disk # c
=============================================================================
