----------------------------- MODULE DisplayTask ----------------------------
(***************************************************************************)
(* What the supervisor relies on of the display: a thread that shows       *)
(* frames until a flag tells it to stop, and then blanks the screen and    *)
(* ends.  OledManager is shown to implement this; Supervisor composes it   *)
(* with the rest of the process.                                           *)
(***************************************************************************)
VARIABLES
    display,            \* "none" before the thread is spawned, "starting",
                        \* "running", and how it ended: "headless" (no hardware),
                        \* "blanked", "unblanked" (the last write failed), "panicked"
    display_stop,       \* the flag
    screen              \* "blank" or "frame"

display_vars == <<display, display_stop, screen>>

Ended == {"headless", "blanked", "unblanked", "panicked"}

DisplayInit == display = "none" /\ display_stop = FALSE /\ screen \in {"blank", "frame"}

SpawnDisplay ==
    /\ display = "none" /\ display' = "starting"
    /\ UNCHANGED <<display_stop, screen>>

(* Neither a framebuffer nor a GPIO chip: the thread ends at once. *)
Headless ==
    /\ display = "starting" /\ display' = "headless"
    /\ UNCHANGED <<display_stop, screen>>

StartDisplay ==
    /\ display = "starting" /\ display' = "running"
    /\ UNCHANGED <<display_stop, screen>>

(* A frame is written; a write that fails leaves the screen alone or half  *)
(* written.                                                                *)
ShowFrame ==
    /\ display = "running" /\ screen' = "frame"
    /\ UNCHANGED <<display, display_stop>>

BlankAndEnd ==
    /\ display = "running" /\ display_stop
    /\ \/ display' = "blanked" /\ screen' = "blank"
       \/ display' = "unblanked" /\ UNCHANGED screen
    /\ UNCHANGED display_stop

DisplayPanics ==
    /\ display \in {"starting", "running"} /\ display' = "panicked"
    /\ UNCHANGED <<display_stop, screen>>

StopDisplay ==
    /\ display_stop' = TRUE /\ UNCHANGED <<display, screen>>

DisplayStep ==
    Headless \/ StartDisplay \/ ShowFrame \/ BlankAndEnd \/ DisplayPanics

DisplayNext == SpawnDisplay \/ DisplayStep \/ StopDisplay

DisplayEnds == Headless \/ StartDisplay \/ BlankAndEnd

DisplaySpec ==
    /\ DisplayInit /\ [][DisplayNext]_display_vars
    /\ WF_display_vars(DisplayEnds)
=============================================================================
