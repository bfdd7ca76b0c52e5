------------------------- MODULE ConfigWatch_proofs -------------------------
(***************************************************************************)
(* Proofs about ConfigWatch, for every set of contents, every set of those *)
(* that are valid or make the callback panic, and every bound of the event *)
(* queue: no edit is forgotten, and what is live has been synced.          *)
(***************************************************************************)
EXTENDS ConfigWatch, SequenceTheorems, TLAPS

Events == {"config", "other"}

(* Every variable has its type. *)
TypeOK ==
    /\ disk \in Contents
    /\ queue \in Seq(Events)
    /\ phase \in {"load", "sync", "share", "watch", "running", "exited"}
    /\ thread \in {"recv", "debounce", "load", "sync", "swap"}
    /\ dirty \in BOOLEAN /\ edited \in BOOLEAN
    /\ {loaded, synced, live} \subseteq Valid \cup {NoConfig}

(* The watcher has nothing to do before the watch begins, and main goes    *)
(* through its steps in order.                                             *)
StartsInOrder ==
    /\ phase # "running" => queue = <<>> /\ thread = "recv" /\ ~edited
    /\ phase \in {"load", "sync", "share"} => live = NoConfig
    /\ phase = "share" => synced = loaded

(* A configuration is swapped in only after its sync. *)
SwapsSynced == thread = "swap" => synced = loaded

HasConfig(q) == \E i \in 1..Len(q) : q[i] = "config"

(* An edit that comes while an older content is synced and swapped in has  *)
(* its event in the channel: the swap may make the file's content not live *)
(* that was live before (an edit that was taken back).                     *)
LateEditWaits ==
    (/\ edited /\ disk \in Valid \ Poison
     /\ thread \in {"sync", "swap"} /\ loaded # disk) => HasConfig(queue)

(* The inductive invariant. *)
WatchInv ==
    /\ TypeOK /\ StartsInOrder /\ SwapsSynced
    /\ LiveIsSynced /\ LateEditWaits /\ EditIsPending
-----------------------------------------------------------------------------
(* An event that waits goes on waiting when another one arrives. *)
LEMMA AppendKeeps ==
    ASSUME NEW q \in Seq(Events), NEW e \in Events
    PROVE  /\ Append(q, e) \in Seq(Events)
           /\ HasConfig(q) \/ e = "config" => HasConfig(Append(q, e))
<1>1. /\ Append(q, e) \in Seq(Events)
      /\ Len(Append(q, e)) = Len(q) + 1
      /\ \A i \in 1..Len(q) : Append(q, e)[i] = q[i]
      /\ Append(q, e)[Len(q) + 1] = e
      /\ Len(q) \in Nat
  BY AppendProperties, LenProperties
<1>2. ASSUME NEW i \in 1..Len(q), q[i] = "config"
      PROVE  HasConfig(Append(q, e))
  BY <1>1, <1>2 DEF HasConfig
<1>3. ASSUME e = "config"
      PROVE  HasConfig(Append(q, e))
  BY <1>1, <1>3 DEF HasConfig
<1> QED
  BY <1>1, <1>2, <1>3 DEF HasConfig

(* The event about the file is the first one or is still there after it. *)
LEMMA TailKeeps ==
    ASSUME NEW q \in Seq(Events), q # <<>>
    PROVE  /\ Tail(q) \in Seq(Events) /\ Head(q) \in Events
           /\ HasConfig(q) => Head(q) = "config" \/ HasConfig(Tail(q))
<1>1. /\ Tail(q) \in Seq(Events) /\ Head(q) \in Events
      /\ Len(Tail(q)) = Len(q) - 1
      /\ \A i \in 1..Len(Tail(q)) : Tail(q)[i] = q[i + 1]
      /\ Len(q) \in Nat
  BY HeadTailProperties, LenProperties
<1>2. Head(q) = q[1]
  OBVIOUS
<1>3. ASSUME NEW i \in 1..Len(q), q[i] = "config", Head(q) # "config"
      PROVE  HasConfig(Tail(q))
  <2>1. i # 1 /\ i - 1 \in 1..Len(Tail(q)) /\ Tail(q)[i - 1] = q[(i - 1) + 1]
    BY <1>1, <1>2, <1>3
  <2>2. (i - 1) + 1 = i
    BY <1>1
  <2> QED
    BY <1>3, <2>1, <2>2 DEF HasConfig
<1> QED
  BY <1>1, <1>3 DEF HasConfig
-----------------------------------------------------------------------------
(* Nothing is loaded, live or waiting when main begins. *)
LEMMA WatchStarts == Init => WatchInv
<1> SUFFICES ASSUME Init PROVE WatchInv
  OBVIOUS
<1>1. queue \in Seq(Events)
  BY DEF Init
<1> QED
  BY <1>1, WatchAssumption
  DEF Init, WatchInv, TypeOK, StartsInOrder, SwapsSynced, LiveIsSynced, LateEditWaits,
        EditIsPending

(* main's steps: the watch has not begun, so that nothing is pending. *)
LEMMA StartupStep ==
    ASSUME WatchInv, Startup
    PROVE  WatchInv'
<1> USE WatchAssumption
    DEF WatchInv, TypeOK, StartsInOrder, SwapsSynced, LiveIsSynced, LateEditWaits,
        EditIsPending
<1>1. CASE LoadAtStart
  BY <1>1 DEF LoadAtStart
<1>2. CASE SyncAtStart
  BY <1>2 DEF SyncAtStart
<1>3. CASE ShareConfig
  BY <1>3 DEF ShareConfig
<1>4. CASE StartWatch
  BY <1>4 DEF StartWatch
<1>5. CASE WatchFails
  BY <1>5 DEF WatchFails
<1> QED
  BY <1>1, <1>2, <1>3, <1>4, <1>5 DEF Startup

(* The operator's steps put an event into the channel, if anybody listens. *)
LEMMA OperatorStep ==
    ASSUME WatchInv, TouchSibling \/ \E c \in Contents : Edit(c)
    PROVE  WatchInv'
<1> USE DEF WatchInv
<1>1. ASSUME NEW c \in Contents, Edit(c)
      PROVE  WatchInv'
  <2> DEFINE e == IF c = Missing THEN "other" ELSE "config"
  <2>1. /\ e \in Events
        /\ disk' = c /\ edited' = (phase = "running")
        /\ UNCHANGED <<phase, thread, dirty, loaded, synced, live>>
        /\ phase = "running" => queue' = Append(queue, e)
        /\ phase # "running" => queue' = queue
    BY <1>1 DEF Edit, Notify, Events
  <2>2. queue' \in Seq(Events)
    BY <2>1, AppendKeeps DEF TypeOK
  <2>3. TypeOK' /\ StartsInOrder' /\ SwapsSynced' /\ LiveIsSynced'
    BY <2>1, <2>2 DEF TypeOK, StartsInOrder, SwapsSynced, LiveIsSynced
  <2>4. phase = "running" /\ c # Missing => HasConfig(queue')
    BY <2>1, AppendKeeps DEF TypeOK
  <2>5. LateEditWaits' /\ EditIsPending'
    BY <2>1, <2>4, WatchAssumption DEF LateEditWaits, EditIsPending, HasConfig
  <2> QED
    BY <2>3, <2>5
<1>2. ASSUME TouchSibling
      PROVE  WatchInv'
  <2>1. /\ queue' = Append(queue, "other") /\ phase = "running"
        /\ UNCHANGED <<disk, phase, thread, dirty, loaded, synced, live, edited>>
    BY <1>2 DEF TouchSibling, Notify
  <2>2. queue' \in Seq(Events) /\ (HasConfig(queue) => HasConfig(queue'))
    BY <2>1, AppendKeeps DEF TypeOK, Events
  <2>3. TypeOK' /\ StartsInOrder' /\ SwapsSynced' /\ LiveIsSynced'
    BY <2>1, <2>2 DEF TypeOK, StartsInOrder, SwapsSynced, LiveIsSynced
  <2>4. LateEditWaits' /\ EditIsPending'
    BY <2>1, <2>2 DEF LateEditWaits, EditIsPending, HasConfig
  <2> QED
    BY <2>3, <2>4
<1> QED
  BY <1>1, <1>2

(* The watcher thread takes events, and a reload of the file it has to     *)
(* make goes from the channel to dirty, to the load and to the swap.       *)
LEMMA WatcherStep ==
    ASSUME WatchInv, Watcher
    PROVE  WatchInv'
<1> USE DEF WatchInv
<1>1. CASE RecvFirst \/ DrainEvent
  <2>1. /\ queue # <<>> /\ queue' = Tail(queue)
        /\ thread \in {"recv", "debounce"} /\ thread' = "debounce"
        /\ dirty' \in BOOLEAN
        /\ Head(queue) = "config" => dirty'
        /\ thread = "debounce" /\ dirty => dirty'
        /\ UNCHANGED <<disk, phase, loaded, synced, live, edited>>
    BY <1>1 DEF RecvFirst, DrainEvent, event_targets_config, TypeOK
  <2>2. /\ queue' \in Seq(Events)
        /\ HasConfig(queue) => Head(queue) = "config" \/ HasConfig(queue')
    BY <2>1, TailKeeps DEF TypeOK
  <2>3. phase = "running"
    BY <2>1 DEF StartsInOrder
  <2>4. TypeOK' /\ StartsInOrder' /\ SwapsSynced' /\ LiveIsSynced'
    BY <2>1, <2>2, <2>3 DEF TypeOK, StartsInOrder, SwapsSynced, LiveIsSynced
  <2>5. LateEditWaits' /\ EditIsPending'
    BY <2>1, <2>2 DEF LateEditWaits, EditIsPending, HasConfig
  <2> QED
    BY <2>4, <2>5
<1>2. ASSUME thread # "recv", UNCHANGED <<queue, phase, edited, disk, dirty>>,
             TypeOK', SwapsSynced', LiveIsSynced', LateEditWaits',
             EditIsPending'
      PROVE  WatchInv'
  BY <1>2 DEF StartsInOrder
<1>3. CASE DebounceTimeout
  <2>1. TypeOK' /\ SwapsSynced' /\ LiveIsSynced'
    BY <1>3 DEF DebounceTimeout, TypeOK, SwapsSynced, LiveIsSynced
  <2>2. LateEditWaits' /\ EditIsPending'
    BY <1>3 DEF DebounceTimeout, TypeOK, LateEditWaits, EditIsPending, HasConfig
  <2> QED
    BY <1>2, <1>3, <2>1, <2>2 DEF DebounceTimeout
<1>4. CASE Reload
  <2>1. TypeOK' /\ SwapsSynced' /\ LiveIsSynced'
    BY <1>4 DEF Reload, TypeOK, SwapsSynced, LiveIsSynced
  <2>2. LateEditWaits' /\ EditIsPending'
    BY <1>4 DEF Reload, LateEditWaits, EditIsPending, HasConfig
  <2> QED
    BY <1>2, <1>4, <2>1, <2>2 DEF Reload
<1>5. CASE SyncCache
  <2>1. TypeOK' /\ SwapsSynced' /\ LiveIsSynced'
    BY <1>5 DEF SyncCache, TypeOK, SwapsSynced, LiveIsSynced
  <2>2. LateEditWaits' /\ EditIsPending'
    BY <1>5 DEF SyncCache, LateEditWaits, EditIsPending, HasConfig
  <2> QED
    BY <1>2, <1>5, <2>1, <2>2 DEF SyncCache
<1>6. CASE CallbackPanics
  <2>1. TypeOK' /\ SwapsSynced' /\ LiveIsSynced'
    BY <1>6 DEF CallbackPanics, TypeOK, SwapsSynced, LiveIsSynced
  <2>2. LateEditWaits' /\ EditIsPending'
    BY <1>6 DEF CallbackPanics, LateEditWaits, EditIsPending, HasConfig
  <2> QED
    BY <1>2, <1>6, <2>1, <2>2 DEF CallbackPanics
<1>7. CASE SwapConfig
  <2>1. TypeOK' /\ SwapsSynced' /\ LiveIsSynced'
    BY <1>7 DEF SwapConfig, TypeOK, SwapsSynced, LiveIsSynced
  <2>2. LateEditWaits' /\ EditIsPending'
    BY <1>7 DEF SwapConfig, LateEditWaits, EditIsPending, HasConfig
  <2> QED
    BY <1>2, <1>7, <2>1, <2>2 DEF SwapConfig
<1> QED
  BY <1>1, <1>3, <1>4, <1>5, <1>6, <1>7 DEF Watcher
-----------------------------------------------------------------------------
(* Every step of main, of the operator and of the watcher thread keeps it. *)
LEMMA WatchInductive == WatchInv /\ [Next]_vars => WatchInv'
<1> SUFFICES ASSUME WatchInv, [Next]_vars PROVE WatchInv'
  OBVIOUS
<1>1. CASE UNCHANGED vars
  BY <1>1 DEF vars, WatchInv, TypeOK, StartsInOrder, SwapsSynced, LiveIsSynced, LateEditWaits,
        EditIsPending
<1> QED
  BY <1>1, StartupStep, OperatorStep, WatcherStep DEF Next

(* The startup of main and the loop of watch_config keep the inductive     *)
(* invariant: each reload has its event, its load, its sync and its swap.  *)
THEOREM WatchInvariant == Safety => []WatchInv
  BY WatchStarts, WatchInductive, PTL DEF Safety

(* For every set of contents, what the servers see has been synced, except *)
(* between the sync and the swap of one reload (the callback of main.rs).  *)
THEOREM LiveConfigIsSynced == Safety => []LiveIsSynced
<1>1. WatchInv => LiveIsSynced
  BY DEF WatchInv
<1> QED
  BY <1>1, WatchInvariant, PTL

(* However many events wait and whatever the thread is doing, an edit that *)
(* is not live yet is on its way (watch_config forgets none).              *)
THEOREM EditsAreNotForgotten == Safety => []EditIsPending
<1>1. WatchInv => EditIsPending
  BY DEF WatchInv
<1> QED
  BY <1>1, WatchInvariant, PTL
=============================================================================
