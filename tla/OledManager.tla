----------------------------- MODULE OledManager ----------------------------
(***************************************************************************)
(* The render thread of bootycall-oled/src/lib.rs with its framebuffer     *)
(* (framebuffer.rs): page rotation, screensaver, dimming, the optional     *)
(* GPIO lines and the panel, both of which may be absent, go and come      *)
(* back, and the shutdown.  One pass of the loop is three steps: update    *)
(* and draw, present, look at the shutdown flag and sleep.                 *)
(*                                                                         *)
(* A tick is the sleep of one second; instants are kept as ages in ticks,  *)
(* each counted up to the limit it is compared with.  elapsed() is read    *)
(* later than now and a pass takes time of its own, so that after n ticks  *)
(* more than n seconds have elapsed.  What is drawn is abstracted to mode, *)
(* page and brightness; the rotation and the pixels are left out.          *)
(***************************************************************************)
EXTENDS ScreensaverBounce

CONSTANTS
    Pages,              \* PAGES.len()
    PageDuration, SshInterval, Timeout, RetryInterval,      \* in ticks
    Lines,              \* the GPIO lines
    Toggles             \* which parts of the environment change: a subset of
                        \* {"ssh", "pxe", "panel", "gpio"}

ASSUME OledAssumption ==
    /\ {Pages, PageDuration, SshInterval, Timeout, RetryInterval} \subseteq Nat \ {0}
    /\ Toggles \subseteq {"ssh", "pxe", "panel", "gpio"}

VARIABLES
    env,                \* what is there: SSH sessions, recent PXE activity, panel, GPIO
    pc,                 \* where the thread is, or how it ended
    shutdown,           \* the shared flag
    mode,               \* current_mode
    page,               \* page_index, from 0
    active_ssh,
    idle, flip, ssh_age,        \* ages of last_activity, last_page_flip, last_ssh_check
    held,               \* the lines whose request is held
    attempt,            \* per line: the age of last_attempt
    fd,                 \* the framebuffer: "none", "live", "stale" (its device is gone)
    fb_available,       \* PanelSink's log-once latch
    brightness,         \* what the lookup table was built for
    shown,              \* what the panel shows
    warned              \* ghost: absence was reported since the last frame that got out

oled_vars == <<env, pc, shutdown, mode, page, active_ssh, idle, flip, ssh_age, held,
               attempt, fd, fb_available, brightness, shown, warned, pos>>

Image(m, p, b) == [mode |-> m, page |-> p, brightness |-> b]
Blank == Image("blank", 0, "off")
Torn == Image("torn", 0, "off")         \* half a frame, or what was there before

(* Up to the limit an age is compared with. *)
Older(age, limit) == IF age < limit THEN age + 1 ELSE limit

OledInit ==
    /\ env \in {e \in [{"ssh", "pxe", "panel", "gpio"} -> BOOLEAN] :
                    \A k \in {"panel", "gpio"} \ Toggles : e[k]}
    /\ pc = "none" /\ shutdown = FALSE
    /\ mode = "Metrics" /\ page = 0 /\ active_ssh = FALSE
    /\ idle = 0 /\ flip = 0 /\ ssh_age = SshInterval
    /\ held = {} /\ attempt = [l \in Lines |-> 0]
    /\ fd = "none" /\ fb_available = TRUE
    /\ brightness = "full"
    /\ shown \in {Blank, Torn} /\ warned = 0
    /\ BounceInit
-----------------------------------------------------------------------------
(* The environment.  A descriptor outlives its device and is of no use.    *)
EnvChanges(k) ==
    /\ k \in Toggles
    /\ env' = [env EXCEPT ![k] = ~@]
    /\ fd' = IF k = "panel" /\ fd = "live" THEN "stale" ELSE fd
    /\ UNCHANGED <<pc, shutdown, mode, page, active_ssh, idle, flip, ssh_age, held, attempt,
                   fb_available, brightness, shown, warned, pos>>

SetShutdown ==
    /\ pc # "none" /\ shutdown' = TRUE
    /\ UNCHANGED <<env, pc, mode, page, active_ssh, idle, flip, ssh_age, held, attempt, fd,
                   fb_available, brightness, shown, warned, pos>>

SpawnThread ==
    /\ pc = "none" /\ pc' = "starting"
    /\ UNCHANGED <<env, shutdown, mode, page, active_ssh, idle, flip, ssh_age, held, attempt,
                   fd, fb_available, brightness, shown, warned, pos>>

(* should_run: without framebuffer and GPIO chip the thread returns.  Else *)
(* the lines are requested, which may fail though the chip is there (its   *)
(* permissions come late), and the framebuffer is opened.                  *)
StartLoop ==
    /\ pc = "starting"
    /\ IF ~env["panel"] /\ ~env["gpio"]
       THEN pc' = "headless" /\ UNCHANGED <<held, fd>>
       ELSE /\ pc' = "update"
            /\ held' \in IF env["gpio"] THEN SUBSET Lines ELSE {{}}
            /\ fd' = IF env["panel"] THEN "live" ELSE "none"
    /\ UNCHANGED <<env, shutdown, mode, page, active_ssh, idle, flip, ssh_age, attempt,
                   fb_available, brightness, shown, warned, pos>>
-----------------------------------------------------------------------------
(* OptionalGpioLine::poll: a line that is not held is asked for again once *)
(* the retry interval is over.                                             *)
poll ==
    LET due == {l \in Lines \ held : attempt[l] >= RetryInterval}
    IN  /\ held' = IF env["gpio"] THEN held \cup due ELSE held
        /\ attempt' = [l \in Lines |-> IF l \in due THEN 0 ELSE attempt[l]]

(* Mutant: sessions are not looked for while the screensaver runs. *)
SshPollAwake ==
    IF ssh_age >= SshInterval /\ mode = "Metrics"
    THEN active_ssh' = env["ssh"] /\ ssh_age' = 0
    ELSE UNCHANGED <<active_ssh, ssh_age>>

(* Sessions are counted every SshInterval only. *)
SshPoll ==
    IF ssh_age >= SshInterval
    THEN active_ssh' = env["ssh"] /\ ssh_age' = 0
    ELSE UNCHANGED <<active_ssh, ssh_age>>

ChooseMode ==
    IF active_ssh' \/ env["pxe"] THEN mode' = "Metrics" /\ idle' = 0
    ELSE /\ mode' = IF idle >= Timeout THEN "Screensaver" ELSE mode
         /\ UNCHANGED idle

mode_brightness(m) == IF m = "Metrics" THEN "full" ELSE "dimmed"

Dim == brightness' = mode_brightness(mode')

FlipPage ==
    IF mode' = "Metrics" /\ flip >= PageDuration
    THEN page' = (page + 1) % Pages /\ flip' = 0
    ELSE UNCHANGED <<page, flip>>

(* The first half of a pass, up to the finished drawing. *)
Update ==
    /\ pc = "update"
    /\ poll /\ SshPoll /\ ChooseMode /\ Dim /\ FlipPage
    /\ IF mode' = "Screensaver" THEN Bounce ELSE UNCHANGED pos
    /\ pc' = "present"
    /\ UNCHANGED <<env, shutdown, fd, fb_available, shown, warned>>

(* ensure_open: the descriptor after it. *)
ensure_open == IF fd = "none" /\ env["panel"] THEN "live" ELSE fd

(* Mutant: a descriptor that failed is kept. *)
AfterErrorKept == fd

(* A failed write drops the descriptor. *)
AfterError == "none"

(* The latch: only the first pass without a device is reported. *)
ReportAbsence ==
    /\ fb_available' = FALSE
    /\ warned' = IF fb_available THEN warned + 1 ELSE warned

Present ==
    /\ pc = "present" /\ pc' = "check"
    /\ LET f == ensure_open
       IN  CASE f = "live" ->
                /\ shown' = Image(mode, page, brightness)
                /\ fb_available' = TRUE /\ warned' = 0 /\ fd' = f
             [] f = "none" ->
                /\ ReportAbsence /\ fd' = f
                /\ UNCHANGED shown
             [] f = "stale" ->
                /\ shown' \in {shown, Torn}
                /\ fb_available' = FALSE /\ fd' = AfterError
                /\ UNCHANGED warned
    /\ UNCHANGED <<env, shutdown, mode, page, active_ssh, idle, flip, ssh_age, held, attempt,
                   brightness, pos>>

(* No shutdown: sleep for a tick. *)
Sleep ==
    /\ pc = "check" /\ ~shutdown
    /\ pc' = "update"
    /\ idle' = Older(idle, Timeout)
    /\ flip' = Older(flip, PageDuration)
    /\ ssh_age' = Older(ssh_age, SshInterval)
    /\ attempt' = [l \in Lines |-> Older(attempt[l], RetryInterval)]
    /\ UNCHANGED <<env, shutdown, mode, page, active_ssh, held, fd, fb_available, brightness,
                   shown, warned, pos>>

(* Mutant: the cleared buffer is not flushed. *)
FlushNot == pc' = "blanked" /\ UNCHANGED <<shown, fd>>

(* Clear and flush; a flush that fails is ignored. *)
Flush ==
    LET f == ensure_open
    IN  IF f = "live" THEN pc' = "blanked" /\ shown' = Blank /\ fd' = f
        ELSE pc' = "unblanked" /\ fd' = "none" /\ UNCHANGED shown

ShutDown ==
    /\ pc = "check" /\ shutdown
    /\ Flush
    /\ UNCHANGED <<env, shutdown, mode, page, active_ssh, idle, flip, ssh_age, held, attempt,
                   fb_available, brightness, warned, pos>>
-----------------------------------------------------------------------------
Thread == StartLoop \/ Update \/ Present \/ Sleep \/ ShutDown

OledNext ==
    \/ Thread \/ SpawnThread \/ SetShutdown
    \/ \E k \in Toggles : EnvChanges(k)

OledSafety == OledInit /\ [][OledNext]_oled_vars

(* The thread runs, its sleeps and writes end. *)
OledSpec == OledSafety /\ WF_oled_vars(SpawnThread) /\ WF_oled_vars(Thread)
-----------------------------------------------------------------------------
Looping == pc \in {"update", "present", "check"}

(* Every whole frame on the panel has the brightness of its own mode, at   *)
(* every change of mode.                                                   *)
DimMatchesMode ==
    shown \notin {Blank, Torn} => shown.brightness = mode_brightness(shown.mode)

(* While the panel stays away its absence is reported once (BUG-C), though *)
(* it comes and goes between two writes and writes to it fail.             *)
ReportedOnce == warned <= 1

(* What render_loop hands to the panel is right at every change of mode    *)
(* and of hardware: the text is in its box, a frame has the brightness of  *)
(* its mode, and a missing panel is reported once.                         *)
PanelIsRight == InBox /\ DimMatchesMode /\ ReportedOnce

(* The panel is used again after it was away: as long as it is there the   *)
(* thread ends up showing frames, whatever happened to the descriptor.     *)
PanelComesBack ==
    <>[](env["panel"] /\ Looping) => <>[](pc = "check" => fd = "live" /\ fb_available)

(* A line that was not there at startup is picked up once it is there. *)
LineComesBack == <>[](env["gpio"] /\ Looping) => <>[](held = Lines)

(* Hardware that appears late, or again, is used: panel and GPIO lines. *)
HardwareComesBack == PanelComesBack /\ LineComesBack

(* Whatever goes on, PXE activity or an SSH session gets the metrics back  *)
(* on the screen and keeps them there.                                     *)
WakesUp ==
    <>[](Looping /\ (env["pxe"] \/ env["ssh"])) => <>[](mode = "Metrics")

(* Without either the screensaver comes and stays. *)
FallsAsleep ==
    <>[](Looping /\ ~env["pxe"] /\ ~env["ssh"]) => <>[](mode = "Screensaver")

(* The mode follows the activity though sessions are counted only now and  *)
(* then, and though the screensaver was on or was just about to come.      *)
ModeFollowsActivity == WakesUp /\ FallsAsleep

(* As long as metrics are shown again and again, every page has its turn,  *)
(* however short the times between two screensavers are.                   *)
PagesRotate ==
    ([]<>(pc = "present" /\ mode = "Metrics"))
        => \A p \in 0..(Pages - 1) : []<>(pc = "present" /\ mode = "Metrics" /\ page = p)

(* Every pass that draws a frame of the screensaver has moved its text in  *)
(* both directions, at the walls too.                                      *)
TextMoves ==
    [][pc = "update" /\ pc' = "present" /\ mode' = "Screensaver"
            => pos'.x # pos.x /\ pos'.y # pos.y]_oled_vars

(* No picture stays on the panel for good: pages have their turns, and the *)
(* screensaver's text moves with every frame of it.                        *)
PictureMoves == PagesRotate /\ TextMoves

(* The thread implements the display contract the supervisor relies on. *)
D == INSTANCE DisplayTask WITH
        display <- IF Looping THEN "running" ELSE pc,
        display_stop <- shutdown,
        screen <- IF shown = Blank THEN "blank" ELSE "frame"

ImplementsDisplayTask == D!DisplaySpec
=============================================================================
