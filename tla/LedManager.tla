----------------------------- MODULE LedManager -----------------------------
(***************************************************************************)
(* The status light of bootycall-led/src/lib.rs: two LEDs, driven by the   *)
(* boot blink, by the LED manager, which remembers what it wrote and skips *)
(* a write it believes needless, and by the panic hook of main.rs, which   *)
(* writes behind the manager's back.  A write to one LED is one step and   *)
(* may fail; everything a task writes in one go is a queue of such writes. *)
(***************************************************************************)
EXTENDS Integers, Sequences

CONSTANTS
    MaxFaults           \* bound: writes that fail and panics that run the hook

ASSUME LedAssumption == MaxFaults \in Nat

VARIABLES
    led,                \* what each LED shows: 0 or 255
    writes,             \* per task: the writes it still has to make
    blink,              \* the boot blink: "blinking" or "stopped"
    blink_on,           \* the blink's local state
    stop,               \* the blink's stop message has been sent
    manager,            \* "none", "check", "wait" or "final"
    last,               \* the manager's last_blue and last_white
    state,              \* the manager's local state
    active,             \* what the manager saw when it last looked
    recent,             \* has_recent_activity(30 s) of the host store
    shutdown,           \* the manager's shutdown message has been sent
    final_failed,       \* ghost: a write of the manager's farewell failed
    fails, panics

led_vars == <<led, writes, blink, blink_on, stop, manager, last, state, active,
              recent, shutdown, final_failed, fails, panics>>

Leds == {"blue", "white"}
Tasks == {"blink", "manager", "hook"}
Unknown == -1           \* a cached value that is still None

Light(blue, white) == [blue |-> blue, white |-> white]
SolidBlue == Light(255, 0)
SolidWhite == Light(0, 255)
Dark == Light(0, 0)

To(l, v) == [led |-> l, value |-> v]
BlueThenWhite(light) == <<To("blue", light.blue), To("white", light.white)>>
WhiteThenBlue(light) == <<To("white", light.white), To("blue", light.blue)>>

activate_blue_led == BlueThenWhite(SolidBlue)
activate_white_led == WhiteThenBlue(SolidWhite)

LedInit ==
    /\ led \in [Leds -> {0, 255}]
    /\ writes = [t \in Tasks |-> <<>>]
    /\ blink = "blinking" /\ blink_on = FALSE /\ stop = FALSE
    /\ manager = "none" /\ last = [l \in Leds |-> Unknown]
    /\ state = FALSE /\ active = FALSE /\ shutdown = FALSE
    /\ recent = FALSE /\ final_failed = FALSE
    /\ fails = 0 /\ panics = 0

(* A task that has nothing left to write takes its next writes. *)
Queue(t, ws) == writes[t] = <<>> /\ writes' = [writes EXCEPT ![t] = ws]

MayFail == fails + panics < MaxFaults

BlinkDone == blink = "stopped" /\ writes["blink"] = <<>>
ManagerDone == manager = "final" /\ writes["manager"] = <<>>
-----------------------------------------------------------------------------
(* Mutant: a failed write is remembered as if it had been made. *)
CachedOnFailure(l, v) == [last EXCEPT ![l] = v]

(* What the manager remembers when a write of v to l fails. *)
OnFailure(l, v) == last

(* The next write of a task.  The manager's goes through set_led_cached:   *)
(* nothing happens if the value is the remembered one, and only a write    *)
(* that succeeded is remembered.                                           *)
set_led(t) ==
    /\ writes[t] # <<>>
    /\ writes' = [writes EXCEPT ![t] = Tail(@)]
    /\ LET l == Head(writes[t]).led
           v == Head(writes[t]).value
       IN  \/ /\ t = "manager" /\ last[l] = v
              /\ UNCHANGED <<led, last, fails, final_failed>>
           \/ /\ t = "manager" => last[l] # v
              /\ led' = [led EXCEPT ![l] = v]
              /\ last' = IF t = "manager" THEN [last EXCEPT ![l] = v] ELSE last
              /\ UNCHANGED <<fails, final_failed>>
           \/ /\ t = "manager" => last[l] # v
              /\ MayFail /\ fails' = fails + 1
              /\ last' = IF t = "manager" THEN OnFailure(l, v) ELSE last
              /\ final_failed' = (final_failed \/ (t = "manager" /\ manager = "final"))
              /\ UNCHANGED led
    /\ UNCHANGED <<blink, blink_on, stop, manager, state, active, recent, shutdown,
                   panics>>
-----------------------------------------------------------------------------
BlinkTick ==
    /\ blink = "blinking"
    /\ Queue("blink", WhiteThenBlue(IF blink_on THEN SolidWhite ELSE Dark))
    /\ blink_on' = ~blink_on
    /\ UNCHANGED <<led, blink, stop, manager, last, state, active, recent, shutdown,
                   final_failed, fails, panics>>

BlinkStop ==
    /\ blink = "blinking" /\ stop
    /\ Queue("blink", activate_blue_led)
    /\ blink' = "stopped" /\ blink_on' = FALSE
    /\ UNCHANGED <<led, stop, manager, last, state, active, recent, shutdown,
                   final_failed, fails, panics>>

ManagerCheck ==
    /\ manager = "check" /\ writes["manager"] = <<>>
    /\ active' = recent
    /\ manager' = "wait"
    /\ UNCHANGED <<led, writes, blink, blink_on, stop, last, state, recent, shutdown,
                   final_failed, fails, panics>>

NextState == IF active THEN ~state ELSE TRUE

(* 500 ms after it looked, the manager acts on what it saw.  The blink was *)
(* told to stop before the manager was spawned, and is through with its    *)
(* two writes well before these 500 ms are over.                           *)
ManagerTick ==
    /\ manager = "wait"
    /\ BlinkDone
    /\ Queue("manager", BlueThenWhite(IF active /\ ~state THEN Dark ELSE SolidBlue))
    /\ state' = NextState
    /\ manager' = "check"
    /\ UNCHANGED <<led, blink, blink_on, stop, last, active, recent, shutdown,
                   final_failed, fails, panics>>

ManagerStop ==
    /\ manager = "wait" /\ shutdown
    /\ Queue("manager", activate_white_led)
    /\ manager' = "final" /\ state' = FALSE /\ active' = FALSE
    /\ UNCHANGED <<led, blink, blink_on, stop, last, recent, shutdown,
                   final_failed, fails, panics>>

(* A panic anywhere in the process, most of which the runtime contains. *)
PanicHook ==
    /\ MayFail /\ panics' = panics + 1
    /\ Queue("hook", activate_white_led)
    /\ UNCHANGED <<led, blink, blink_on, stop, manager, last, state, active, recent,
                   shutdown, final_failed, fails>>

(* A host makes contact, or none has for 30 s; only ManagerCheck looks. *)
ActivityChanges ==
    /\ manager = "check"
    /\ recent' = ~recent
    /\ UNCHANGED <<led, writes, blink, blink_on, stop, manager, last, state, active,
                   shutdown, final_failed, fails, panics>>
-----------------------------------------------------------------------------
(* What main asks of the two tasks, in this order. *)
StopBlink ==
    /\ ~stop /\ stop' = TRUE
    /\ UNCHANGED <<led, writes, blink, blink_on, manager, last, state, active, recent,
                   shutdown, final_failed, fails, panics>>

SpawnLedManager ==
    /\ stop /\ manager = "none" /\ manager' = "check"
    /\ UNCHANGED <<led, writes, blink, blink_on, stop, last, state, active, recent,
                   shutdown, final_failed, fails, panics>>

ShutdownLed ==
    /\ manager # "none" /\ ~shutdown /\ shutdown' = TRUE
    /\ UNCHANGED <<led, writes, blink, blink_on, stop, manager, last, state, active,
                   recent, final_failed, fails, panics>>

LedStep ==
    \/ \E t \in Tasks : set_led(t)
    \/ BlinkTick \/ BlinkStop
    \/ ManagerCheck \/ ManagerTick \/ ManagerStop
    \/ PanicHook
    \/ ActivityChanges
=============================================================================
