----------------------------- MODULE Supervisor -----------------------------
(***************************************************************************)
(* main and graceful_shutdown of bootycall-rs/src/main.rs: the startup     *)
(* order, the select over the signals and the servers' handles, and the    *)
(* shutdown of the LED manager and of the OLED manager, composed with the  *)
(* LED tasks and with the display thread's contract.                       *)
(***************************************************************************)
EXTENDS LedManager, DisplayTask

VARIABLES
    main,               \* where main is
    trigger,            \* a branch of the select is ready: a signal reached its
                        \* handler, or one of the four tasks has ended
    oled,               \* the OLED task: "none", "disabled", "spawned", "recv", "join", "done"
    oled_rx,            \* a shutdown message is in the OLED channel
    settled             \* ghost: the boot blink had ended when shutdown began

main_vars == <<main, trigger, oled, oled_rx, settled>>

vars == <<led_vars, display_vars, main_vars>>

Init ==
    /\ LedInit /\ DisplayInit
    /\ main = "startup" /\ trigger = FALSE
    /\ oled = "none" /\ oled_rx = FALSE /\ settled = FALSE

Alive == main \notin {"exited", "aborted"}

(* main goes on, its other variables stay. *)
Goto(here, there) == main = here /\ main' = there
-----------------------------------------------------------------------------
(* The file is missing or invalid, or the watcher does not start: main     *)
(* returns an error, with the blink still running.                         *)
StartupFails ==
    /\ Goto("startup", "aborted")
    /\ UNCHANGED <<led_vars, display_vars, trigger, oled, oled_rx, settled>>

(* Servers, cleaner and, if it is enabled, the OLED task are spawned. *)
SpawnServers ==
    /\ Goto("startup", "blinking")
    /\ oled' \in {"disabled", "spawned"}
    /\ UNCHANGED <<led_vars, display_vars, trigger, oled_rx, settled>>

(* BOOT_BLINK_MIN_SECS later. *)
SendStopBlink ==
    /\ Goto("blinking", "stopping_blink")
    /\ StopBlink
    /\ UNCHANGED <<display_vars, trigger, oled, oled_rx, settled>>

SpawnLed ==
    /\ Goto("stopping_blink", "registering")
    /\ SpawnLedManager
    /\ UNCHANGED <<display_vars, trigger, oled, oled_rx, settled>>

RegisterSignals ==
    /\ \/ Goto("registering", "select")
       \/ Goto("registering", "aborted")
    /\ UNCHANGED <<led_vars, display_vars, trigger, oled, oled_rx, settled>>

Starting == {"startup", "blinking", "stopping_blink", "registering"}

(* Before the handlers are there a signal kills the process; once a        *)
(* shutdown is under way another one changes nothing.                      *)
Signal ==
    /\ \/ main \in Starting /\ main' = "aborted" /\ UNCHANGED trigger
       \/ main = "select" /\ trigger' = TRUE /\ UNCHANGED main
    /\ UNCHANGED <<led_vars, display_vars, oled, oled_rx, settled>>

(* A server or the cleaner cannot bind, meets a fatal error, returns or    *)
(* panics; after the select nobody looks at them any more.                 *)
ServerEnds ==
    /\ main \in Starting \cup {"select"} /\ main # "startup"
    /\ trigger' = TRUE
    /\ UNCHANGED <<led_vars, display_vars, main, oled, oled_rx, settled>>

(* One of the branches that are ready is taken, and calls graceful_shutdown. *)
Select ==
    /\ Goto("select", "send_led")
    /\ trigger
    /\ settled' = BlinkDone
    /\ UNCHANGED <<led_vars, display_vars, trigger, oled, oled_rx>>

SendLed ==
    /\ Goto("send_led", "send_oled")
    /\ ShutdownLed
    /\ UNCHANGED <<display_vars, trigger, oled, oled_rx, settled>>

(* The channel has room for one message; with the display disabled its     *)
(* receiver is alive and unread, with its task gone the send fails at once.*)
SendOled ==
    /\ Goto("send_oled", "await_led")
    /\ oled_rx' = TRUE
    /\ UNCHANGED <<led_vars, display_vars, trigger, oled, settled>>

(* Mutant: the LED manager is told to stop and not awaited. *)
AwaitLedNot ==
    /\ Goto("await_led", "await_oled")
    /\ UNCHANGED <<led_vars, display_vars, trigger, oled, oled_rx, settled>>

AwaitLed ==
    /\ Goto("await_led", "await_oled")
    /\ ManagerDone
    /\ UNCHANGED <<led_vars, display_vars, trigger, oled, oled_rx, settled>>

AwaitOled ==
    /\ Goto("await_oled", "returned")
    /\ oled \in {"disabled", "done"}
    /\ UNCHANGED <<led_vars, display_vars, trigger, oled, oled_rx, settled>>

(* The runtime is dropped: a task runs on to its next await. *)
Exit ==
    /\ Goto("returned", "exited")
    /\ \A t \in Tasks : writes[t] = <<>>
    /\ UNCHANGED <<led_vars, display_vars, trigger, oled, oled_rx, settled>>
-----------------------------------------------------------------------------
(* run_oled_manager: spawn the thread, wait for the message, set the flag, *)
(* join the thread.                                                        *)
OledSpawns ==
    /\ oled = "spawned"
    /\ \/ SpawnDisplay /\ oled' = "recv"
       \/ oled' = "done" /\ UNCHANGED display_vars
    /\ UNCHANGED <<led_vars, main, trigger, oled_rx, settled>>

(* Mutant: the message is taken and the thread is not told. *)
OledBridgeSilent ==
    /\ oled = "recv" /\ oled_rx
    /\ oled_rx' = FALSE /\ oled' = "join"
    /\ UNCHANGED <<led_vars, display_vars, main, trigger, settled>>

OledBridge ==
    /\ oled = "recv" /\ oled_rx
    /\ oled_rx' = FALSE /\ oled' = "join"
    /\ StopDisplay
    /\ UNCHANGED <<led_vars, main, trigger, settled>>

(* Mutant: the task ends without joining the thread. *)
OledJoinsNot ==
    /\ oled = "join" /\ oled' = "done"
    /\ UNCHANGED <<led_vars, display_vars, main, trigger, oled_rx, settled>>

OledJoins ==
    /\ oled = "join" /\ display \in Ended /\ oled' = "done"
    /\ UNCHANGED <<led_vars, display_vars, main, trigger, oled_rx, settled>>

Oled == Alive /\ (OledSpawns \/ OledBridge \/ OledJoins)

Led == Alive /\ LedStep /\ UNCHANGED <<display_vars, main_vars>>

Display == Alive /\ DisplayStep /\ UNCHANGED <<led_vars, main_vars>>

Main ==
    \/ SpawnServers \/ SendStopBlink \/ SpawnLed \/ RegisterSignals
    \/ Select \/ SendLed \/ SendOled \/ AwaitLed \/ AwaitOled \/ Exit

Next ==
    \/ Main \/ StartupFails \/ Signal \/ ServerEnds
    \/ Oled \/ Led \/ Display

Safety == Init /\ [][Next]_vars

(* main and the tasks run; the display thread looks at its flag once per   *)
(* tick; a message wins over a fresh sleep.                                *)
Spec ==
    /\ Safety
    /\ WF_vars(Main) /\ WF_vars(Oled)
    /\ WF_vars(Alive /\ DisplayEnds /\ UNCHANGED <<led_vars, main_vars>>)
    /\ \A t \in Tasks : WF_vars(Alive /\ set_led(t) /\ UNCHANGED <<display_vars, main_vars>>)
    /\ SF_vars(Alive /\ BlinkStop /\ UNCHANGED <<display_vars, main_vars>>)
    /\ WF_vars(Alive /\ ManagerCheck /\ UNCHANGED <<display_vars, main_vars>>)
    /\ WF_vars(Alive /\ ManagerTick /\ UNCHANGED <<display_vars, main_vars>>)
    /\ SF_vars(Alive /\ ManagerStop /\ UNCHANGED <<display_vars, main_vars>>)
-----------------------------------------------------------------------------
(* Once a server has ended, or a signal reached its handler, the process   *)
(* exits: no send blocks on a full channel and nobody waits for a task     *)
(* that was not told to stop, with the display enabled, disabled, headless *)
(* or panicked.                                                            *)
TriggerExits == trigger ~> ~Alive

(* After a graceful shutdown that began when the boot blink was over, the  *)
(* light is white, unless a write of the manager's farewell failed: no     *)
(* stale cached value and no panic on the way spoils it.                   *)
SettledExitIsWhite ==
    (main = "exited" /\ settled /\ ~final_failed) => led = SolidWhite

(* A graceful shutdown never leaves the display thread in the middle of a  *)
(* frame: the thread has ended before the process does, and the screen is  *)
(* dark unless the thread found no hardware, panicked or could not write.  *)
ExitIsBlank ==
    main = "exited" =>
        /\ display \notin {"starting", "running"}
        /\ screen = "frame" => display # "blanked"

Serving == main = "select" /\ panics = 0

(* An idle service comes to show solid blue and goes on showing it,        *)
(* whatever writes of the boot blink or of the manager failed on the way   *)
(* (run_led_manager: "stays solid Blue if idle"), unless a panic hook ran, *)
(* whose white the manager's cached values hide from it.                   *)
IdleIsBlue == <>[](Serving /\ ~recent) => <>[](led = SolidBlue)

(* During a deployment the light keeps blinking between blue and dark      *)
(* (run_led_manager: "blinks Blue if active").                             *)
ActiveBlinks ==
    <>[](Serving /\ recent) => []<>(led = SolidBlue) /\ []<>(led = Dark)

(* The light of a service that is up comes to show what the hosts are      *)
(* doing, though the boot blink wrote to it and writes have failed.        *)
LightFollowsActivity == IdleIsBlue /\ ActiveBlinks
=============================================================================
