----------------------------- MODULE Oled_proofs ----------------------------
(***************************************************************************)
(* Proofs about bootycall-oled: render_loop with its panel and its         *)
(* screensaver (OledManager, ScreensaverBounce), which implements the      *)
(* display task the supervisor relies on; draw_line (OledLine); and the    *)
(* lookup table and the placement of text (OledLayout).                    *)
(***************************************************************************)
EXTENDS OledManager, OledLine, OledLayout, FiniteSetTheorems, TLAPS

(***************************************************************************)
(* step_bounce and render_loop.                                            *)
(***************************************************************************)
(* At a wall the text is already on its way back. *)
FacesInside ==
    /\ pos.x = MaxX => pos.dx = -1
    /\ pos.x = MinX => pos.dx = 1
    /\ pos.y = MaxY => pos.dy = -1
    /\ pos.y = MinY => pos.dy = 1

(* One direction of step_bounce: inside the walls, turned around at a      *)
(* wall, and somewhere else than before.                                   *)
LEMMA ReflectMoves ==
    ASSUME NEW min \in Nat, NEW max \in Nat, min < max,
           NEW v \in min..max, NEW d \in {-1, 1},
           v = max => d = -1, v = min => d = 1
    PROVE  LET r == Reflect(v, d, min, max)
           IN  /\ r[1] \in min..max /\ r[2] \in {-1, 1}
               /\ r[1] = max => r[2] = -1
               /\ r[1] = min => r[2] = 1
               /\ r[1] # v
BY DEF Reflect, Magnitude

(* A frame of the screensaver keeps the text in the box and moves it. *)
LEMMA BounceStep ==
    ASSUME InBox, FacesInside, Bounce
    PROVE  InBox' /\ FacesInside' /\ pos'.x # pos.x /\ pos'.y # pos.y
<1> DEFINE h == Reflect(pos.x, pos.dx, MinX, MaxX)
           v == Reflect(pos.y, pos.dy, MinY, MaxY)
<1>1. /\ pos.x \in MinX..MaxX /\ pos.y \in MinY..MaxY
      /\ pos.dx \in {-1, 1} /\ pos.dy \in {-1, 1}
  BY DEF InBox
<1>2. MinX \in Nat /\ MaxX \in Nat /\ MinX < MaxX /\ MinY \in Nat /\ MaxY \in Nat /\ MinY < MaxY
  BY BoxAssumption
<1>3. /\ h[1] \in MinX..MaxX /\ h[2] \in {-1, 1}
      /\ h[1] = MaxX => h[2] = -1
      /\ h[1] = MinX => h[2] = 1
      /\ h[1] # pos.x
  BY <1>1, <1>2, ReflectMoves DEF FacesInside
<1>4. /\ v[1] \in MinY..MaxY /\ v[2] \in {-1, 1}
      /\ v[1] = MaxY => v[2] = -1
      /\ v[1] = MinY => v[2] = 1
      /\ v[1] # pos.y
  BY <1>1, <1>2, ReflectMoves DEF FacesInside
<1>5. pos' = [x |-> h[1], y |-> v[1], dx |-> h[2], dy |-> v[2]]
  BY DEF Bounce, step_bounce
<1> HIDE DEF h, v
<1> QED
  BY <1>3, <1>4, <1>5 DEF InBox, FacesInside

PageIndexes == 0..(Pages - 1)

(* What a frame may be: a page there is, in the brightness of its mode. *)
Frames ==
    {Image(m, p, mode_brightness(m)) : m \in {"Metrics", "Screensaver"}, p \in PageIndexes}

(* The latch and the count of reports agree. *)
LatchHolds ==
    /\ warned \in {0, 1} /\ fb_available \in BOOLEAN
    /\ fb_available => warned = 0

(* The lookup table is the one of the mode at every point where a frame is *)
(* handed over, and not only right after it was built.                     *)
OledInv ==
    /\ pc \in {"none", "starting", "headless", "update", "present", "check",
               "blanked", "unblanked"}
    /\ mode \in {"Metrics", "Screensaver"} /\ page \in PageIndexes
    /\ brightness = mode_brightness(mode)
    /\ shown \in Frames \cup {Blank, Torn}
    /\ fd \in {"none", "live", "stale"}
    /\ LatchHolds
    /\ InBox /\ FacesInside

(* A frame is neither the blank panel nor half a frame. *)
LEMMA FrameParts ==
    /\ \A f \in Frames : f # Blank /\ f.brightness = mode_brightness(f.mode)
    /\ \A m \in {"Metrics", "Screensaver"}, p \in PageIndexes :
            Image(m, p, mode_brightness(m)) \in Frames
    /\ Torn # Blank
BY DEF Frames, Image, Blank, Torn

(* The thread has not begun, and the text is in its corner. *)
LEMMA OledInitHolds ==
    ASSUME OledInit PROVE OledInv
<1>1. InBox /\ FacesInside
  <2>1. MinX \in Nat /\ MaxX \in Nat /\ MinX < MaxX /\ MinY \in Nat /\ MaxY \in Nat /\ MinY < MaxY
    BY BoxAssumption
  <2>2. pos = [x |-> MinX, y |-> MinY, dx |-> 1, dy |-> 1]
    BY DEF OledInit, BounceInit
  <2> QED
    BY <2>1, <2>2 DEF InBox, FacesInside
<1>2. fb_available = TRUE /\ warned = 0
  BY DEF OledInit
<1>3. page \in PageIndexes
  BY OledAssumption DEF OledInit, PageIndexes
<1> QED
  BY <1>1, <1>2, <1>3 DEF OledInit, OledInv, LatchHolds, mode_brightness

(* Update: the three variables of the picture, and the text. *)
LEMMA UpdateStep ==
    ASSUME OledInv, Update PROVE OledInv'
<1>1. pc' = "present" /\ UNCHANGED <<fd, fb_available, shown, warned>>
  BY DEF Update
<1>2. mode' \in {"Metrics", "Screensaver"}
  BY DEF Update, ChooseMode, OledInv
<1>3. brightness' = mode_brightness(mode')
  BY DEF Update, Dim
<1>4. page' \in PageIndexes
  <2>1. Pages \in Nat \ {0} /\ page \in PageIndexes
    BY OledAssumption DEF OledInv
  <2>2. page' = page \/ page' = (page + 1) % Pages
    BY DEF Update, FlipPage
  <2> QED
    BY <2>1, <2>2 DEF PageIndexes
<1>5. InBox' /\ FacesInside'
  <2>1. CASE Bounce
    BY <2>1, BounceStep DEF OledInv
  <2>2. CASE UNCHANGED pos
    BY <2>2 DEF OledInv, InBox, FacesInside
  <2> QED
    BY <2>1, <2>2 DEF Update
<1>6. LatchHolds'
  BY <1>1 DEF OledInv, LatchHolds
<1> QED
  BY <1>1, <1>2, <1>3, <1>4, <1>5, <1>6 DEF OledInv, mode_brightness

(* Present: a frame with the brightness of its mode, or nothing new. *)
LEMMA PresentStep ==
    ASSUME OledInv, Present PROVE OledInv'
<1>1. /\ pc' = "check"
      /\ UNCHANGED <<mode, page, brightness, pos>>
  BY DEF Present
<1>2. ensure_open \in {"live", "none", "stale"}
  BY DEF ensure_open, OledInv
<1>3. CASE ensure_open = "live"
  <2>1. shown' = Image(mode, page, brightness) /\ fb_available' = TRUE /\ warned' = 0
        /\ fd' = "live"
    BY <1>3 DEF Present
  <2>2. shown' \in Frames
    BY <2>1, FrameParts DEF OledInv
  <2> QED
    BY <1>1, <2>1, <2>2 DEF OledInv, LatchHolds, InBox, FacesInside
<1>4. CASE ensure_open = "none"
  <2>1. shown' = shown /\ ReportAbsence /\ fd' = "none"
    BY <1>4 DEF Present
  <2>2. LatchHolds'
    <3>1. fb_available' = FALSE /\ warned \in {0, 1} /\ (fb_available => warned = 0)
      BY <2>1 DEF ReportAbsence, LatchHolds, OledInv
    <3>2. fb_available => warned' = 1
      BY <2>1, <3>1 DEF ReportAbsence
    <3>3. ~fb_available => warned' = warned
      BY <2>1 DEF ReportAbsence
    <3> QED
      BY <3>1, <3>2, <3>3 DEF LatchHolds
  <2> QED
    BY <1>1, <2>1, <2>2 DEF OledInv, InBox, FacesInside
<1>5. CASE ensure_open = "stale"
  <2>1. shown' \in {shown, Torn} /\ fb_available' = FALSE /\ warned' = warned /\ fd' = "none"
    BY <1>5 DEF Present, AfterError
  <2>2. LatchHolds'
    BY <2>1 DEF LatchHolds, OledInv
  <2> QED
    BY <1>1, <2>1, <2>2 DEF OledInv, InBox, FacesInside
<1> QED
  BY <1>2, <1>3, <1>4, <1>5

(* The other steps leave the picture and the latch alone, or blank the panel. *)
LEMMA OtherSteps ==
    ASSUME OledInv,
           \/ StartLoop \/ Sleep \/ ShutDown \/ SpawnThread \/ SetShutdown
           \/ (\E k \in Toggles : EnvChanges(k)) \/ UNCHANGED oled_vars
    PROVE  OledInv'
<1>1. UNCHANGED <<mode, page, brightness, pos, fb_available, warned>>
  BY DEF StartLoop, Sleep, ShutDown, SpawnThread, SetShutdown, EnvChanges, oled_vars
<1>2. pc' \in {"none", "starting", "headless", "update", "present", "check",
               "blanked", "unblanked"}
  BY DEF StartLoop, Sleep, ShutDown, SpawnThread, SetShutdown, EnvChanges, oled_vars, Flush, OledInv
<1>3. shown' \in {shown, Blank}
  BY DEF StartLoop, Sleep, ShutDown, SpawnThread, SetShutdown, EnvChanges, oled_vars, Flush
<1>4. fd' \in {"none", "live", "stale"}
  BY DEF StartLoop, Sleep, ShutDown, SpawnThread, SetShutdown, EnvChanges, oled_vars, Flush,
         ensure_open, OledInv
<1>5. LatchHolds'
  BY <1>1 DEF OledInv, LatchHolds
<1>6. InBox' /\ FacesInside'
  BY <1>1 DEF OledInv, InBox, FacesInside
<1> QED
  BY <1>1, <1>2, <1>3, <1>4, <1>5, <1>6 DEF OledInv

(* The invariant of render_loop. *)
THEOREM OledInvariant == OledSafety => []OledInv
<1>1. OledInit => OledInv
  BY OledInitHolds
<1>2. OledInv /\ [OledNext]_oled_vars => OledInv'
  BY UpdateStep, PresentStep, OtherSteps DEF OledNext, Thread
<1> QED
  BY <1>1, <1>2, PTL DEF OledSafety

(* What render_loop hands to the panel is right for every number of pages, *)
(* every box and every choice of the intervals.                            *)
THEOREM PanelsAreRight == OledSafety => []PanelIsRight
<1>1. OledInv => PanelIsRight
  BY FrameParts DEF OledInv, LatchHolds, PanelIsRight, DimMatchesMode, ReportedOnce
<1> QED
  BY <1>1, OledInvariant, PTL

(* Every pass of render_loop that draws a frame of the screensaver has     *)
(* moved its text both ways (step_bounce, for every box).                  *)
THEOREM TextAlwaysMoves == OledSafety => TextMoves
<1>1. ASSUME OledInv, [OledNext]_oled_vars,
             pc = "update", pc' = "present", mode' = "Screensaver"
      PROVE  pos'.x # pos.x /\ pos'.y # pos.y
  <2>1. Update
    BY <1>1 DEF OledNext, Thread, StartLoop, Present, Sleep, ShutDown, SpawnThread,
                SetShutdown, EnvChanges, oled_vars
  <2>2. Bounce
    BY <1>1, <2>1 DEF Update
  <2> QED
    BY <1>1, <2>2, BounceStep DEF OledInv
<1> QED
  BY <1>1, OledInvariant, PTL DEF OledSafety, TextMoves

(* Every step of the render thread is a step of the display task that the  *)
(* supervisor is composed with, or none.                                   *)
THEOREM ThreadIsDisplayTask == OledSafety => D!DisplayInit /\ [][D!DisplayNext]_(D!display_vars)
<1>1. OledInit => D!DisplayInit
  BY DEF OledInit, D!DisplayInit, Looping
<1>2. ASSUME OledInv, [OledNext]_oled_vars
      PROVE  [D!DisplayNext]_(D!display_vars)
  <2>1. CASE SpawnThread
    <3>1. D!SpawnDisplay
      BY <2>1 DEF SpawnThread, D!SpawnDisplay, Looping
    <3> QED
      BY <3>1 DEF D!DisplayNext
  <2>2. CASE StartLoop
    <3>1. D!Headless \/ D!StartDisplay
      BY <2>2 DEF StartLoop, D!Headless, D!StartDisplay, Looping
    <3> QED
      BY <3>1 DEF D!DisplayNext, D!DisplayStep
  <2>3. CASE Present
    <3>1. Looping /\ Looping' /\ shutdown' = shutdown
      BY <2>3 DEF Present, Looping
    <3>2. shown' = shown \/ shown' # Blank
      <4>1. ensure_open \in {"live", "none", "stale"}
        BY <1>2 DEF ensure_open, OledInv
      <4>2. Image(mode, page, brightness) # Blank
        BY <1>2, FrameParts DEF OledInv
      <4> QED
        BY <2>3, <4>1, <4>2, FrameParts DEF Present
    <3>3. CASE shown' = shown
      BY <3>1, <3>3 DEF D!display_vars
    <3>4. CASE shown' # Blank
      <4>1. D!ShowFrame
        BY <3>1, <3>4 DEF D!ShowFrame
      <4> QED
        BY <4>1 DEF D!DisplayNext, D!DisplayStep
    <3> QED
      BY <3>2, <3>3, <3>4
  <2>4. CASE ShutDown
    <3>1. D!BlankAndEnd
      BY <2>4 DEF ShutDown, Flush, D!BlankAndEnd, Looping
    <3> QED
      BY <3>1 DEF D!DisplayNext, D!DisplayStep
  <2>5. CASE SetShutdown
    <3>1. D!StopDisplay
      BY <2>5 DEF SetShutdown, D!StopDisplay, Looping
    <3> QED
      BY <3>1 DEF D!DisplayNext
  <2>6. CASE Update \/ Sleep \/ (\E k \in Toggles : EnvChanges(k)) \/ UNCHANGED oled_vars
    <3>1. shutdown' = shutdown /\ shown' = shown /\ ((Looping /\ Looping') \/ pc' = pc)
      BY <2>6 DEF Update, Sleep, EnvChanges, oled_vars, Looping
    <3> QED
      BY <3>1 DEF D!display_vars, Looping
  <2> QED
    BY <1>2, <2>1, <2>2, <2>3, <2>4, <2>5, <2>6 DEF OledNext, Thread
<1> QED
  BY <1>1, <1>2, OledInvariant, PTL DEF OledSafety
-----------------------------------------------------------------------------
(* A descriptor that counts as live is that of a panel that is there. *)
LiveIsThere == fd = "live" => env["panel"]

(* When the thread goes to sleep, the latch says whether a frame got out,  *)
(* and a panel that has not gone since shows the picture of this pass.     *)
SleepsOnPicture ==
    pc = "check" => /\ fb_available <=> fd # "none"
                    /\ fd = "live" => shown = Image(mode, page, brightness)

(* The screensaver runs only while the last count found no session and the *)
(* whole timeout went by without activity.                                 *)
SaverIsIdle == mode = "Screensaver" => active_ssh = FALSE /\ idle = Timeout

PictureIsCurrent == LiveIsThere /\ SleepsOnPicture /\ SaverIsIdle

Environments == [{"ssh", "pxe", "panel", "gpio"} -> BOOLEAN]

(* With the types it is inductive. *)
PictureInv ==
    /\ env \in Environments /\ active_ssh \in BOOLEAN /\ idle \in 0..Timeout
    /\ PictureIsCurrent

(* One pass of render_loop, and what happens around it. *)
LEMMA PictureStep ==
    ASSUME PictureInv, OledInv, OledInv', [OledNext]_oled_vars PROVE PictureInv'
<1>1. Timeout \in Nat \ {0}
  BY OledAssumption
<1>2. CASE Update
  <2>1. /\ pc' = "present" /\ UNCHANGED <<env, fd>>
        /\ SshPoll /\ ChooseMode
    BY <1>2 DEF Update
  <2>2. env["ssh"] \in BOOLEAN /\ env["pxe"] \in BOOLEAN
    BY DEF PictureInv, Environments
  <2>3. active_ssh' \in BOOLEAN
    BY <2>1, <2>2 DEF SshPoll, PictureInv
  <2>4. idle' \in 0..Timeout /\ SaverIsIdle'
    <3>1. CASE active_ssh' \/ env["pxe"]
      BY <1>1, <2>1, <3>1 DEF ChooseMode, SaverIsIdle
    <3>2. CASE ~(active_ssh' \/ env["pxe"])
      <4>1. active_ssh' = FALSE
        BY <2>3, <3>2
      <4>2. idle' = idle /\ mode' = IF idle >= Timeout THEN "Screensaver" ELSE mode
        BY <2>1, <3>2 DEF ChooseMode
      <4> QED
        BY <1>1, <4>1, <4>2 DEF SaverIsIdle, PictureInv, PictureIsCurrent
    <3> QED
      BY <3>1, <3>2
  <2>5. LiveIsThere' /\ SleepsOnPicture'
    BY <2>1 DEF LiveIsThere, SleepsOnPicture, PictureInv, PictureIsCurrent
  <2> QED
    BY <2>1, <2>3, <2>4, <2>5 DEF PictureInv, PictureIsCurrent
<1>3. CASE Present
  <2>1. UNCHANGED <<env, mode, page, brightness, active_ssh, idle>>
    BY <1>3 DEF Present
  <2>2. ensure_open \in {"live", "none", "stale"} /\ (ensure_open = "live" => env["panel"])
    BY DEF ensure_open, OledInv, PictureInv, PictureIsCurrent, LiveIsThere
  <2>3. LiveIsThere' /\ SleepsOnPicture'
    <3>1. CASE ensure_open = "live"
      <4>1. /\ shown' = Image(mode, page, brightness) /\ fb_available' = TRUE
            /\ fd' = "live"
        BY <1>3, <3>1 DEF Present
      <4>2. shown' = Image(mode', page', brightness')
        BY <2>1, <4>1
      <4> QED
        BY <2>1, <2>2, <3>1, <4>1, <4>2 DEF LiveIsThere, SleepsOnPicture
    <3>2. CASE ensure_open \in {"none", "stale"}
      <4>1. fd' = "none" /\ fb_available' = FALSE
        BY <1>3, <3>2 DEF Present, ReportAbsence, AfterError
      <4> QED
        BY <4>1 DEF LiveIsThere, SleepsOnPicture
    <3> QED
      BY <2>2, <3>1, <3>2
  <2> QED
    BY <2>1, <2>3 DEF PictureInv, PictureIsCurrent, SaverIsIdle
<1>4. CASE Sleep
  <2>1. /\ pc' = "update" /\ UNCHANGED <<env, mode, active_ssh, fd>>
        /\ idle' = Older(idle, Timeout)
    BY <1>4 DEF Sleep
  <2>2. idle' \in 0..Timeout /\ (idle = Timeout => idle' = Timeout)
    BY <1>1, <2>1 DEF Older, PictureInv
  <2> QED
    BY <2>1, <2>2 DEF PictureInv, PictureIsCurrent, LiveIsThere, SleepsOnPicture, SaverIsIdle
<1>5. CASE ShutDown
  <2>1. pc' # "check" /\ UNCHANGED <<env, mode, active_ssh, idle>>
    BY <1>5 DEF ShutDown, Flush
  <2>2. fd' = "live" => env["panel"]
    BY <1>5 DEF ShutDown, Flush, ensure_open, PictureInv, PictureIsCurrent, LiveIsThere
  <2> QED
    BY <2>1, <2>2 DEF PictureInv, PictureIsCurrent, LiveIsThere, SleepsOnPicture, SaverIsIdle
<1>6. CASE StartLoop
  <2>1. pc' # "check" /\ UNCHANGED <<env, mode, active_ssh, idle>>
    BY <1>6 DEF StartLoop
  <2>2. fd' = "live" => env["panel"]
    BY <1>6 DEF StartLoop, PictureInv, PictureIsCurrent, LiveIsThere
  <2> QED
    BY <2>1, <2>2 DEF PictureInv, PictureIsCurrent, LiveIsThere, SleepsOnPicture, SaverIsIdle
<1>7. CASE \E k \in Toggles : EnvChanges(k)
  <2>1. PICK k \in Toggles : EnvChanges(k)
    BY <1>7
  <2>2. /\ UNCHANGED <<pc, mode, page, brightness, active_ssh, idle, shown, fb_available>>
        /\ env' = [env EXCEPT ![k] = ~@]
        /\ fd' = IF k = "panel" /\ fd = "live" THEN "stale" ELSE fd
    BY <2>1 DEF EnvChanges
  <2>3. k \in {"ssh", "pxe", "panel", "gpio"}
    BY <2>1, OledAssumption
  <2>4. env' \in Environments /\ (k # "panel" => env'["panel"] = env["panel"])
    BY <2>2, <2>3 DEF PictureInv, Environments
  <2>5. LiveIsThere'
    BY <2>2, <2>4 DEF PictureInv, PictureIsCurrent, LiveIsThere
  <2>6. SleepsOnPicture'
    <3>1. (fd' = "live" => fd = "live") /\ (fd' # "none" <=> fd # "none")
      BY <2>2
    <3>2. Image(mode', page', brightness') = Image(mode, page, brightness)
      BY <2>2
    <3> QED
      BY <2>2, <3>1, <3>2 DEF PictureInv, PictureIsCurrent, SleepsOnPicture
  <2> QED
    BY <2>2, <2>4, <2>5, <2>6 DEF PictureInv, PictureIsCurrent, SaverIsIdle
<1>8. CASE SpawnThread \/ SetShutdown \/ UNCHANGED oled_vars
  <2>1. /\ UNCHANGED <<env, mode, page, brightness, active_ssh, idle, shown, fb_available, fd>>
        /\ pc' = "check" => pc = "check"
    BY <1>8 DEF SpawnThread, SetShutdown, oled_vars
  <2>2. Image(mode', page', brightness') = Image(mode, page, brightness)
    BY <2>1
  <2>3. SleepsOnPicture'
    BY <2>1, <2>2 DEF PictureInv, PictureIsCurrent, SleepsOnPicture
  <2> QED
    BY <2>1, <2>3 DEF PictureInv, PictureIsCurrent, LiveIsThere, SaverIsIdle
<1> QED
  BY <1>2, <1>3, <1>4, <1>5, <1>6, <1>7, <1>8 DEF OledNext, Thread

(* However the panel comes, goes and fails between two writes: a live      *)
(* descriptor has its device, the latch of PanelSink tells whether the     *)
(* last frame got out, and the panel shows that frame; the screensaver     *)
(* never runs over activity that was seen.  These are the safety halves of *)
(* PanelComesBack and of WakesUp.                                          *)
THEOREM PicturesAreCurrent == OledSafety => []PictureIsCurrent
<1>1. OledInit => PictureInv
  <2> SUFFICES ASSUME OledInit PROVE PictureInv
    OBVIOUS
  <2>1. env \in Environments /\ active_ssh = FALSE /\ idle = 0
    BY DEF OledInit, Environments
  <2>2. pc = "none" /\ fd = "none" /\ mode = "Metrics"
    BY DEF OledInit
  <2>3. idle \in 0..Timeout
    BY <2>1, OledAssumption
  <2> QED
    BY <2>1, <2>2, <2>3
    DEF PictureInv, PictureIsCurrent, LiveIsThere, SleepsOnPicture, SaverIsIdle
<1>2. PictureInv /\ OledInv /\ OledInv' /\ [OledNext]_oled_vars => PictureInv'
  BY PictureStep
<1>3. PictureInv => PictureIsCurrent
  BY DEF PictureInv
<1> QED
  BY <1>1, <1>2, <1>3, OledInvariant, PTL DEF OledSafety

(***************************************************************************)
(* draw_line.                                                              *)
(***************************************************************************)
(* How far a coordinate n is on its way from a to b. *)
Far(n, a, b) == IF a < b THEN n - a ELSE a - n

AlongX == Far(x, from.x, to.x)
AlongY == Far(y, from.y, to.y)

Longer == IF dx >= -dy THEN dx ELSE -dy

(* Steps taken along the longer side, by the loop and by a pixel. *)
Progress == IF dx >= -dy THEN AlongX ELSE AlongY
Along(p) == IF dx >= -dy THEN Far(p[1], from.x, to.x) ELSE Far(p[2], from.y, to.y)

(* The distance from the true line, in units of 1 / Longer. *)
Off == dx * AlongY + dy * AlongX

LineType ==
    /\ from \in Points /\ to \in Points
    /\ x \in Int /\ y \in Int /\ err \in Int /\ done \in BOOLEAN
    /\ drawn \subseteq Int \X Int

(* The accumulated error is the distance from the true line, and that is   *)
(* at most half a pixel.                                                   *)
OnTrack ==
    /\ AlongX \in 0..dx /\ AlongY \in 0..(-dy)
    /\ err = Off + dx + dy
    /\ 2 * Off <= Longer /\ -Longer <= 2 * Off
    /\ Progress = 0 => AlongX = 0 /\ AlongY = 0
    /\ done => x = to.x /\ y = to.y

(* An integer line in general position: p and q are its longer and shorter *)
(* side, u and w the steps taken along them and c the distance from the    *)
(* true line.  The longer side always goes on; the shorter one when that   *)
(* keeps the distance within half a pixel, and never past its end.         *)
LEMMA HalfPixel ==
    ASSUME NEW p \in Nat, NEW q \in Nat, q <= p, NEW u \in 0..p, NEW w \in 0..q,
           NEW c \in Int, c = p * w - q * u, 2 * c <= p, -p <= 2 * c,
           ~(u = p /\ w = q)
    PROVE  /\ u < p /\ 2 * c >= q - 2 * p
           /\ 2 * c <= 2 * q - p =>
                /\ w < q /\ c + p - q = p * (w + 1) - q * (u + 1)
                /\ 2 * (c + p - q) <= p /\ -p <= 2 * (c + p - q)
           /\ 2 * c > 2 * q - p =>
                /\ c - q = p * w - q * (u + 1)
                /\ 2 * (c - q) <= p /\ -p <= 2 * (c - q)
<1>1. u < p
  <2> SUFFICES ASSUME u = p PROVE FALSE
    OBVIOUS
  <2>1. w < q /\ p > 0
    OBVIOUS
  <2>2. c = p * (w - q)
    OBVIOUS
  <2>3. p * (w - q) <= -p
    <3>1. p * (q - w - 1) >= 0
      BY <2>1
    <3> QED
      BY <3>1
  <2> QED
    BY <2>1, <2>2, <2>3
<1>2. 2 * c >= q - 2 * p
  OBVIOUS
<1>3. ASSUME 2 * c <= 2 * q - p PROVE w < q
  <2> SUFFICES ASSUME w = q PROVE FALSE
    OBVIOUS
  <2>1. c = q * (p - u)
    OBVIOUS
  <2>2. q * (p - u) >= q
    <3>1. q * (p - u - 1) >= 0
      BY <1>1
    <3> QED
      BY <3>1
  <2> QED
    BY <1>1, <1>3, <2>1, <2>2
<1>4. c + p - q = p * (w + 1) - q * (u + 1)
  OBVIOUS
<1>5. c - q = p * w - q * (u + 1)
  OBVIOUS
<1> QED
  BY <1>1, <1>2, <1>3, <1>4, <1>5

(* The integers of a line. *)
LEMMA LineInts ==
    ASSUME LineType
    PROVE  /\ from.x \in Nat /\ from.y \in Nat /\ to.x \in Nat /\ to.y \in Nat
           /\ dx \in Nat /\ dy \in Int /\ -dy \in Nat
           /\ AlongX \in Int /\ AlongY \in Int
           /\ x = to.x <=> AlongX = dx
           /\ y = to.y <=> AlongY = -dy
<1>1. from.x \in Nat /\ from.y \in Nat /\ to.x \in Nat /\ to.y \in Nat
  BY LineAssumption DEF LineType, Points
<1> QED
  BY <1>1 DEF LineType, dx, dy, Abs, AlongX, AlongY, Far

(* Advance, where x is the longer side and where y is. *)
LEMMA AdvanceOnTrack ==
    ASSUME LineType, OnTrack, ~done, ~(x = to.x /\ y = to.y),
           Advance(2 * err), UNCHANGED <<from, to, done>>, drawn' \subseteq Int \X Int
    PROVE  LineType' /\ OnTrack' /\ Progress' = Progress + 1 /\ UNCHANGED <<dx, dy, Longer>>
<1> DEFINE a == dx
           b == -dy
           i == AlongX
           j == AlongY
           mx == 2 * err >= dy
           my == 2 * err <= dx
<1>1. /\ a \in Nat /\ b \in Nat /\ i \in 0..a /\ j \in 0..b /\ Off \in Int
      /\ from.x \in Nat /\ from.y \in Nat /\ to.x \in Nat /\ to.y \in Nat
  BY LineInts DEF OnTrack, Off
<1>2. Off = a * j - b * i
  BY <1>1, LineInts DEF Off
<1>3. ~(i = a /\ j = b)
  BY LineInts
<1>4. UNCHANGED <<dx, dy, Longer, sx, sy>>
  BY DEF dx, dy, Longer, sx, sy
<1>5. /\ x' \in Int /\ y' \in Int /\ err' \in Int
      /\ AlongX' = IF mx THEN i + 1 ELSE i
      /\ AlongY' = IF my THEN j + 1 ELSE j
  BY <1>1, LineInts DEF Advance, LineType, AlongX, AlongY, Far, sx, sy
<1>6. err' = err + (IF mx THEN -b ELSE 0) + (IF my THEN a ELSE 0)
  BY LineInts DEF Advance
<1>7. err = Off + a - b /\ 2 * Off <= Longer /\ -Longer <= 2 * Off
  BY <1>1, LineInts DEF OnTrack
<1>8. mx <=> 2 * Off >= b - 2 * a
  BY <1>1, <1>7, LineInts
<1>9. my <=> 2 * Off <= 2 * b - a
  BY <1>1, <1>7, LineInts
<1>10. LineType'
  BY <1>5 DEF LineType
<1>11. Off' = a * AlongY' - b * AlongX'
  BY <1>1, <1>4, <1>5, LineInts DEF Off
<1>12. CASE a >= b
  <2>1. Longer = a /\ Progress = i /\ Progress' = AlongX'
    BY <1>4, <1>12, LineInts DEF Longer, Progress
  <2>2. /\ i < a /\ 2 * Off >= b - 2 * a
        /\ 2 * Off <= 2 * b - a =>
              /\ j < b /\ Off + a - b = a * (j + 1) - b * (i + 1)
              /\ 2 * (Off + a - b) <= a /\ -a <= 2 * (Off + a - b)
        /\ 2 * Off > 2 * b - a =>
              /\ Off - b = a * j - b * (i + 1)
              /\ 2 * (Off - b) <= a /\ -a <= 2 * (Off - b)
    <3> HIDE DEF a, b, i, j
    <3> QED
      BY <1>1, <1>2, <1>3, <1>7, <1>12, <2>1, HalfPixel
  <2>3. mx /\ AlongX' = i + 1
    BY <1>5, <1>8, <2>2
  <2>4. /\ AlongY' \in 0..b
        /\ err' = Off' + a - b
        /\ 2 * Off' <= a /\ -a <= 2 * Off'
    <3> HIDE DEF a, b, i, j, mx, my
    <3>1. CASE my
      BY <3>1, <1>1, <1>5, <1>6, <1>7, <1>9, <1>11, <2>2, <2>3
    <3>2. CASE ~my
      BY <3>2, <1>1, <1>5, <1>6, <1>7, <1>9, <1>11, <2>2, <2>3
    <3> QED
      BY <3>1, <3>2
  <2>5. Progress' = Progress + 1 /\ Progress' # 0
    BY <1>1, <2>1, <2>3
  <2>6. AlongX' \in 0..dx' /\ AlongY' \in 0..(-dy')
    BY <1>1, <1>4, <2>2, <2>3, <2>4
  <2>7. Off' \in Int
    BY <1>1, <1>11, <2>3, <2>4
  <2>8. err' = Off' + dx' + dy'
    BY <1>4, <2>4, <2>7, LineInts
  <2>9. 2 * Off' <= Longer' /\ -Longer' <= 2 * Off'
    BY <1>4, <2>1, <2>4
  <2> QED
    BY <1>4, <1>10, <2>5, <2>6, <2>8, <2>9 DEF OnTrack
<1>13. CASE a < b
  <2>1. Longer = b /\ Progress = j /\ Progress' = AlongY'
    BY <1>1, <1>4, <1>13, LineInts DEF Longer, Progress
  <2>2. /\ j < b /\ 2 * (-Off) >= a - 2 * b
        /\ 2 * (-Off) <= 2 * a - b =>
              /\ i < a /\ (-Off) + b - a = b * (i + 1) - a * (j + 1)
              /\ 2 * ((-Off) + b - a) <= b /\ -b <= 2 * ((-Off) + b - a)
        /\ 2 * (-Off) > 2 * a - b =>
              /\ (-Off) - a = b * i - a * (j + 1)
              /\ 2 * ((-Off) - a) <= b /\ -b <= 2 * ((-Off) - a)
    <3> HIDE DEF a, b, i, j
    <3>1. -Off \in Int /\ -Off = b * i - a * j /\ 2 * (-Off) <= b /\ -b <= 2 * (-Off)
      BY <1>1, <1>2, <1>7, <2>1
    <3> QED
      BY <1>1, <1>3, <1>13, <3>1, HalfPixel
  <2>3. my /\ AlongY' = j + 1
    BY <1>1, <1>5, <1>9, <2>2
  <2>4. /\ AlongX' \in 0..a
        /\ err' = Off' + a - b
        /\ 2 * Off' <= b /\ -b <= 2 * Off'
    <3> HIDE DEF a, b, i, j, mx, my
    <3>1. CASE mx
      BY <3>1, <1>1, <1>5, <1>6, <1>7, <1>8, <1>11, <2>2, <2>3
    <3>2. CASE ~mx
      BY <3>2, <1>1, <1>5, <1>6, <1>7, <1>8, <1>11, <2>2, <2>3
    <3> QED
      BY <3>1, <3>2
  <2>5. Progress' = Progress + 1 /\ Progress' # 0
    BY <1>1, <2>1, <2>3
  <2>6. AlongX' \in 0..dx' /\ AlongY' \in 0..(-dy')
    BY <1>1, <1>4, <2>2, <2>3, <2>4
  <2>7. Off' \in Int
    BY <1>1, <1>11, <2>3, <2>4
  <2>8. err' = Off' + dx' + dy'
    BY <1>4, <2>4, <2>7, LineInts
  <2>9. 2 * Off' <= Longer' /\ -Longer' <= 2 * Off'
    BY <1>4, <2>1, <2>4
  <2> QED
    BY <1>4, <1>10, <2>5, <2>6, <2>8, <2>9 DEF OnTrack
<1> QED
  BY <1>1, <1>12, <1>13

(* Off is, up to its sign, what OnTheLine measures. *)
LEMMA OffIsDistance ==
    ASSUME LineType, OnTrack
    PROVE  2 * Abs((to.x - from.x) * (y - from.y) - (to.y - from.y) * (x - from.x)) <= Longer
<1> DEFINE cross == (to.x - from.x) * (y - from.y) - (to.y - from.y) * (x - from.x)
<1>0. /\ from.x \in Int /\ from.y \in Int /\ to.x \in Int /\ to.y \in Int
      /\ x \in Int /\ y \in Int
  BY LineInts DEF LineType
<1>1. /\ dx = IF from.x < to.x THEN to.x - from.x ELSE from.x - to.x
      /\ dy = IF from.y < to.y THEN from.y - to.y ELSE to.y - from.y
  BY <1>0 DEF dx, dy, Abs
<1>2. cross = Off \/ cross = -Off
  <2>1. CASE from.x < to.x /\ from.y < to.y
    <3>1. Off = (to.x - from.x) * (y - from.y) + (from.y - to.y) * (x - from.x)
      BY <1>0, <1>1, <2>1 DEF Off, AlongX, AlongY, Far
    <3> QED
      BY <1>0, <3>1
  <2>2. CASE from.x < to.x /\ ~(from.y < to.y)
    <3>1. Off = (to.x - from.x) * (from.y - y) + (to.y - from.y) * (x - from.x)
      BY <1>0, <1>1, <2>2 DEF Off, AlongX, AlongY, Far
    <3> QED
      BY <1>0, <3>1
  <2>3. CASE ~(from.x < to.x) /\ from.y < to.y
    <3>1. Off = (from.x - to.x) * (y - from.y) + (from.y - to.y) * (from.x - x)
      BY <1>0, <1>1, <2>3 DEF Off, AlongX, AlongY, Far
    <3> QED
      BY <1>0, <3>1
  <2>4. CASE ~(from.x < to.x) /\ ~(from.y < to.y)
    <3>1. Off = (from.x - to.x) * (from.y - y) + (to.y - from.y) * (from.x - x)
      BY <1>0, <1>1, <2>4 DEF Off, AlongX, AlongY, Far
    <3> QED
      BY <1>0, <3>1
  <2> QED
    BY <2>1, <2>2, <2>3, <2>4
<1>3. Off \in Int /\ Longer \in Int /\ 2 * Off <= Longer /\ -Longer <= 2 * Off
  BY LineInts DEF Off, OnTrack, Longer
<1> HIDE DEF cross
<1>4. 2 * Abs(cross) <= Longer
  BY <1>2, <1>3 DEF Abs
<1> QED
  BY <1>4 DEF cross

(* Both ends of the line are on the panel. *)
Visible == \A p \in {from, to} : p.x < Width /\ p.y < Height

(* The pixels of a line that is on the panel: one for every step taken. *)
PixelsHold ==
    /\ IsFiniteSet(drawn)
    /\ Visible =>
        /\ ~done => /\ Cardinality(drawn) = Progress
                    /\ \A p \in drawn : Along(p) < Progress
        /\ done => /\ Cardinality(drawn) = 1 + Longer
                   /\ <<to.x, to.y>> \in drawn
        /\ done \/ Progress # 0 => <<from.x, from.y>> \in drawn

LineInv == LineType /\ OnTrack /\ OnTheLine /\ PixelsHold

(* The next pixel: close to the line, and one more on the panel. *)
LEMMA DrawPixel ==
    ASSUME LineInv, ~done, drawn' = set_pixel(x, y), UNCHANGED <<from, to>>
    PROVE  /\ OnTheLine' /\ IsFiniteSet(drawn') /\ drawn' \subseteq Int \X Int
           /\ Visible =>
                /\ Cardinality(drawn') = Progress + 1
                /\ \A p \in drawn' : Along(p) <= Progress
                /\ <<x, y>> \in drawn' /\ <<from.x, from.y>> \in drawn'
<1>1. LineType /\ OnTrack /\ OnTheLine /\ PixelsHold
  BY DEF LineInv
<1>2. drawn' \subseteq drawn \cup {<<x, y>>}
  BY DEF set_pixel
<1>3. OnTheLine'
  <2>1. dx' = dx /\ dy' = dy
    BY DEF dx, dy
  <2>2. ASSUME NEW p \in drawn'
        PROVE  2 * Abs((to.x - from.x) * (p[2] - from.y) - (to.y - from.y) * (p[1] - from.x))
                    <= Longer
    <3>1. CASE p \in drawn
      BY <1>1, <3>1 DEF OnTheLine, Longer
    <3>2. CASE p = <<x, y>>
      <4>1. p[1] = x /\ p[2] = y
        BY <3>2
      <4> QED
        BY <1>1, <4>1, OffIsDistance
    <3> QED
      BY <1>2, <3>1, <3>2
  <2> QED
    BY <2>1, <2>2 DEF OnTheLine, Longer
<1>4. IsFiniteSet(drawn')
  BY <1>1, FS_AddElement DEF set_pixel, PixelsHold
<1>5. ASSUME Visible
      PROVE  /\ Cardinality(drawn') = Progress + 1
             /\ \A p \in drawn' : Along(p) <= Progress
             /\ <<x, y>> \in drawn' /\ <<from.x, from.y>> \in drawn'
  <2>0. /\ from.x \in Nat /\ from.y \in Nat /\ to.x \in Nat /\ to.y \in Nat
        /\ dx \in Nat /\ dy \in Int /\ -dy \in Nat /\ x \in Int /\ y \in Int
        /\ AlongX \in 0..dx /\ AlongY \in 0..(-dy) /\ Progress \in Nat
    BY <1>1, LineInts DEF LineType, OnTrack, Progress
  <2>1. x < Width /\ y < Height
    BY <1>5, <2>0, LineAssumption DEF Visible, AlongX, AlongY, Far, dx, dy, Abs
  <2>2. drawn' = drawn \cup {<<x, y>>}
    BY <2>1 DEF set_pixel
  <2>3. Along(<<x, y>>) = Progress
    BY DEF Along, Progress, AlongX, AlongY
  <2>4. /\ Cardinality(drawn) = Progress
        /\ \A p \in drawn : Along(p) < Progress
        /\ Progress # 0 => <<from.x, from.y>> \in drawn
    BY <1>1, <1>5 DEF PixelsHold
  <2>5. <<x, y>> \notin drawn
    BY <2>0, <2>3, <2>4
  <2>6. Cardinality(drawn') = Progress + 1
    BY <1>1, <2>2, <2>4, <2>5, FS_AddElement DEF PixelsHold
  <2>7. \A p \in drawn : Along(p) <= Progress
    <3>1. \A p \in drawn : Along(p) \in Int
      BY <1>1, <2>0 DEF LineType, Along, Far
    <3> QED
      BY <2>0, <2>4, <3>1
  <2>8. Progress = 0 => x = from.x /\ y = from.y
    BY <1>1, <2>0 DEF OnTrack, AlongX, AlongY, Far
  <2> QED
    BY <2>0, <2>2, <2>3, <2>4, <2>6, <2>7, <2>8
<1>6. drawn' \subseteq Int \X Int
  BY <1>1, <1>2 DEF LineType
<1> QED
  BY <1>3, <1>4, <1>5, <1>6

(* Every iteration keeps the loop's invariant. *)
LEMMA LineInvariant == LineSpec => []LineInv
<1>1. LineInit => LineInv
  <2> SUFFICES ASSUME LineInit PROVE LineInv
    OBVIOUS
  <2>0. drawn = {} /\ done = FALSE /\ x = from.x /\ y = from.y /\ err = dx + dy
        /\ from \in Points /\ to \in Points
    BY DEF LineInit
  <2>1. from.x \in Nat /\ from.y \in Nat /\ to.x \in Nat /\ to.y \in Nat
    BY <2>0, LineAssumption DEF Points
  <2>2. LineType
    <3>1. x \in Int /\ y \in Int /\ dx + dy \in Int
      BY <2>0, <2>1 DEF dx, dy, Abs
    <3> QED
      BY <2>0, <3>1 DEF LineType
  <2>3. AlongX = 0 /\ AlongY = 0
    BY <2>0, <2>1 DEF AlongX, AlongY, Far
  <2>4. Off = 0 /\ Progress = 0 /\ Longer \in Nat /\ dx \in Nat /\ dy \in Int /\ -dy \in Nat
    BY <2>2, <2>3, LineInts DEF Off, Progress, Longer
  <2>5. OnTrack
    BY <2>0, <2>3, <2>4 DEF OnTrack
  <2>6. OnTheLine
    BY <2>0 DEF OnTheLine
  <2>7. PixelsHold
    BY <2>0, <2>4, FS_EmptySet DEF PixelsHold
  <2> QED
    BY <2>2, <2>5, <2>6, <2>7 DEF LineInv
<1>2. LineInv /\ [LineNext]_line_vars => LineInv'
  <2> SUFFICES ASSUME LineInv, [LineNext]_line_vars PROVE LineInv'
    OBVIOUS
  <2>0. LineType /\ OnTrack /\ OnTheLine /\ PixelsHold
    BY DEF LineInv
  <2>1. CASE Step
    <3>1. ~done /\ drawn' = set_pixel(x, y) /\ UNCHANGED <<from, to>>
      BY <2>1 DEF Step
    <3>2. /\ OnTheLine' /\ IsFiniteSet(drawn') /\ drawn' \subseteq Int \X Int
          /\ Visible =>
                /\ Cardinality(drawn') = Progress + 1
                /\ \A p \in drawn' : Along(p) <= Progress
                /\ <<x, y>> \in drawn' /\ <<from.x, from.y>> \in drawn'
      BY <3>1, DrawPixel
    <3>3. Visible' <=> Visible
      BY <3>1 DEF Visible
    <3>4. CASE x = to.x /\ y = to.y
      <4>1. done' = TRUE /\ UNCHANGED <<x, y, err>>
        BY <2>1, <3>4 DEF Step
      <4>2. UNCHANGED <<dx, dy, Longer, AlongX, AlongY, Off, Progress>>
        BY <3>1, <4>1 DEF dx, dy, Longer, AlongX, AlongY, Off, Progress
      <4>3. LineType' /\ OnTrack'
        BY <2>0, <3>1, <3>2, <3>4, <4>1, <4>2 DEF LineType, OnTrack
      <4>4. Progress = Longer /\ Longer \in Nat
        BY <2>0, <3>4, LineInts DEF Progress, Longer
      <4>5. PixelsHold'
        BY <3>1, <3>2, <3>3, <3>4, <4>1, <4>2, <4>4 DEF PixelsHold
      <4> QED
        BY <3>2, <4>3, <4>5 DEF LineInv
    <3>5. CASE ~(x = to.x /\ y = to.y)
      <4>1. Advance(2 * err) /\ UNCHANGED done
        BY <2>1, <3>5 DEF Step
      <4>2. LineType' /\ OnTrack' /\ Progress' = Progress + 1 /\ UNCHANGED <<dx, dy, Longer>>
        BY <2>0, <3>1, <3>2, <3>5, <4>1, AdvanceOnTrack
      <4>3. Progress \in Nat
        BY <2>0, LineInts DEF OnTrack, Progress
      <4>4. ASSUME NEW p \in drawn', Along(p) <= Progress PROVE Along(p)' < Progress'
        <5>1. p \in Int \X Int /\ p' = p
          BY <3>2
        <5>2. Along(p) \in Int /\ Along(p)' = Along(p)
          BY <2>0, <3>1, <4>2, <5>1, LineInts DEF Along, Far
        <5> QED
          BY <4>2, <4>3, <4>4, <5>2
      <4>5. PixelsHold'
        BY <3>1, <3>2, <3>3, <4>1, <4>2, <4>3, <4>4 DEF PixelsHold
      <4> QED
        BY <3>2, <4>2, <4>5 DEF LineInv
    <3> QED
      BY <3>4, <3>5
  <2>2. CASE UNCHANGED line_vars
    BY <2>0, <2>2 DEF line_vars, LineInv, LineType, OnTrack, OnTheLine, PixelsHold, Visible, Along,
                      AlongX, AlongY, Off, Progress, Longer, dx, dy
  <2> QED
    BY <2>1, <2>2 DEF LineNext
<1> QED
  BY <1>1, <1>2, PTL DEF LineSpec

(* For every two points, on the panel or not: draw_line stays between      *)
(* them, no pixel is more than half a pixel off the true line, and a line  *)
(* on the panel has both ends and one pixel for every step.                *)
THEOREM LinesAreExact == LineSpec => []LineIsExact
<1>1. LineInv => LineIsExact
  <2> SUFFICES ASSUME LineInv PROVE LineIsExact
    OBVIOUS
  <2>1. LineType /\ OnTrack /\ OnTheLine /\ PixelsHold
    BY DEF LineInv
  <2>2. StaysBetween
    BY <2>1, LineInts DEF LineType, OnTrack, StaysBetween, Between, AlongX, AlongY, Far, dx, dy, Abs
  <2>3. LineWhole
    BY <2>1 DEF PixelsHold, Visible, LineWhole, Longer
  <2> QED
    BY <2>1, <2>2, <2>3 DEF LineIsExact
<1> QED
  BY <1>1, LineInvariant, PTL

(* The variant of draw_line's loop: the steps along the longer side. *)
LineForward ==
    [][~done' => Progress' = Progress + 1 /\ Progress' <= Longer' /\ Longer' = Longer]_line_vars

(* draw_line ends after as many iterations as the longer side has pixels:  *)
(* an iteration that is not the last goes one step along that side, and    *)
(* the steps never exceed it (the safety half of Returns, for every line). *)
THEOREM LinesEnd == LineSpec => LineForward
<1>1. LineInv /\ LineInv' /\ [LineNext]_line_vars =>
        [~done' => Progress' = Progress + 1 /\ Progress' <= Longer' /\ Longer' = Longer]_line_vars
  <2> SUFFICES ASSUME LineInv, LineInv', Step, ~done'
               PROVE  Progress' = Progress + 1 /\ Progress' <= Longer' /\ Longer' = Longer
    BY DEF LineNext
  <2>1. LineType /\ OnTrack /\ ~done /\ UNCHANGED <<from, to>> /\ drawn' \subseteq Int \X Int
    BY DEF LineInv, LineType, Step
  <2>2. ~(x = to.x /\ y = to.y) /\ Advance(2 * err) /\ UNCHANGED done
    BY DEF Step
  <2>3. /\ LineType' /\ OnTrack' /\ Progress' = Progress + 1
        /\ UNCHANGED <<dx, dy, Longer>>
    BY <2>1, <2>2, AdvanceOnTrack
  <2>4. Progress' <= Longer'
    <3>1. dx \in Nat /\ -dy \in Nat
      BY <2>1, LineInts
    <3>2. AlongX' \in 0..dx /\ AlongY' \in 0..(-dy)
      BY <2>3 DEF OnTrack
    <3> QED
      BY <2>3, <3>1, <3>2 DEF Progress, Longer
  <2> QED
    BY <2>3, <2>4
<1> QED
  BY <1>1, LineInvariant, PTL DEF LineSpec, LineForward
-----------------------------------------------------------------------------
(***************************************************************************)
(* The lookup table and the placement of text.                             *)
(***************************************************************************)
(* A grey level scaled by a brightness. *)
Scaled(b, g) == (g * b) \div 255

(* Scaling stays within a byte, is 0 for black and keeps the order of the  *)
(* levels and of the brightnesses.                                         *)
LEMMA ScaledOrdered ==
    ASSUME NEW b \in 0..255, NEW g \in 0..255
    PROVE  /\ Scaled(b, g) \in 0..255
           /\ g = 0 => Scaled(b, g) = 0
           /\ g = 255 => Scaled(b, g) = b
           /\ Scaled(b, g) <= Scaled(b, g + 1)
           /\ \A d \in 0..b : Scaled(d, g) <= Scaled(b, g)
<1>1. g * b \in Nat /\ g * b <= 255 * 255
  <2>1. (255 - g) * b >= 0 /\ 255 * (255 - b) >= 0 /\ g * b >= 0
    OBVIOUS
  <2> QED
    BY <2>1
<1>2. Scaled(b, g) \in 0..255
  BY <1>1 DEF Scaled
<1>3. g = 0 => Scaled(b, g) = 0
  BY DEF Scaled
<1>4. g = 255 => Scaled(b, g) = b
  BY DEF Scaled
<1>5. ASSUME NEW m \in Nat, NEW n \in Nat, m <= n PROVE m \div 255 <= n \div 255
  BY <1>5
<1>6. Scaled(b, g) <= Scaled(b, g + 1)
  <2>1. (g + 1) * b = g * b + b
    OBVIOUS
  <2>2. (g + 1) * b \in Nat /\ g * b <= (g + 1) * b
    BY <1>1, <2>1
  <2> QED
    BY <1>1, <1>5, <2>2 DEF Scaled
<1>7. ASSUME NEW d \in 0..b PROVE Scaled(d, g) <= Scaled(b, g)
  <2>1. g * (b - d) >= 0 /\ g * d >= 0
    OBVIOUS
  <2>2. g * d \in Nat /\ g * d <= g * b
    BY <2>1
  <2> QED
    BY <1>1, <1>5, <2>2 DEF Scaled
<1> QED
  BY <1>2, <1>3, <1>4, <1>6, <1>7

(* What the panel reads back from the two bytes: the six upper bits of the *)
(* level in green, the five upper bits in red and in blue.                 *)
LEMMA PixelChannels ==
    ASSUME NEW b, NEW g, Scaled(b, g) \in 0..255
    PROVE  /\ Green(Pixel(b, g)) = Scaled(b, g) \div 4
           /\ Red(Pixel(b, g)) = Scaled(b, g) \div 8
           /\ Blue(Pixel(b, g)) = Scaled(b, g) \div 8
           /\ Scaled(b, g) = 0 => Pixel(b, g) = 0
           /\ Pixel(b, g) = 0 => Scaled(b, g) \div 4 = 0
<1> DEFINE s == Scaled(b, g)
           r == s \div 8
           n == s \div 4
           v == rgb565(s)
<1>1. r \in 0..31 /\ n \in 0..63 /\ r = n \div 2
  OBVIOUS
<1>2. v = r * 2048 + n * 32 + r
  BY <1>1 DEF rgb565
<1>3. v \in Nat /\ v <= 65535
  <2> HIDE DEF v, r, n, s
  <2>1. r \in Nat /\ n \in Nat /\ r <= 31 /\ n <= 63
    BY <1>1
  <2>2. v = 2049 * r + 32 * n
    BY <1>2, <2>1
  <2> QED
    BY <2>1, <2>2
<1>4. Pixel(b, g) = v
  <2>1. build_lut(b, g) = Swap(v % 65536)
    BY DEF build_lut, Scaled
  <2> HIDE DEF v
  <2> DEFINE low == v % 256
             high == v \div 256
  <2>2. v % 65536 = v /\ low \in 0..255 /\ high \in 0..255 /\ v = high * 256 + low
    <3>1. v % 65536 = v
      BY <1>3
    <3>2. low \in 0..255
      BY <1>3
    <3>3. high \in 0..255
      BY <1>3
    <3>4. v = high * 256 + low
      BY <1>3
    <3> QED
      BY <3>1, <3>2, <3>3, <3>4
  <2>3. Swap(v) = low * 256 + high
    BY DEF Swap
  <2> HIDE DEF low, high
  <2>4. Swap(v) % 256 = high /\ Swap(v) \div 256 = low
    BY <2>2, <2>3
  <2>5. Pixel(b, g) = (Swap(v) % 256) * 256 + (Swap(v) \div 256)
    BY <2>1, <2>2 DEF Pixel
  <2> QED
    BY <2>2, <2>4, <2>5
<1>5. v \div 2048 = r /\ (v \div 32) % 64 = n /\ v % 32 = r
  <2> HIDE DEF v, r, n, s
  <2> QED
    BY <1>1, <1>2
<1>6. (s = 0 => v = 0) /\ (v = 0 => n = 0)
  BY <1>1, <1>2
<1> QED
  BY <1>4, <1>5, <1>6 DEF Green, Red, Blue

(* usize subtraction that ends at a small number does not wrap. *)
LEMMA SmallMinus ==
    ASSUME NEW m \in Int, NEW n \in Int, m - n \in 0..1000
    PROVE  Minus(m, n) = m - n
<1>1. USize \in Nat /\ USize > 1000
  BY LayoutAssumption
<1>2. ASSUME NEW k \in 0..1000 PROVE k % USize = k
  BY <1>1
<1> QED
  BY <1>2 DEF Minus

(* A text of 156 to 159 pixels leaves less than the margin: the difference *)
(* wraps to a place far off the panel.                                     *)
LEMMA WrappedMinus ==
    ASSUME NEW w \in 156..159
    PROVE  Minus(160 - w, 5) \in Int /\ Minus(160 - w, 5) > 160
<1>1. USize \in Nat /\ USize > 1000
  BY LayoutAssumption
<1>2. ASSUME NEW k \in 1..4 PROVE (0 - k) % USize = USize - k
  BY <1>1
<1>3. (160 - w) - 5 = 0 - (w - 155) /\ w - 155 \in 1..4
  OBVIOUS
<1>4. Minus(160 - w, 5) = USize - (w - 155)
  BY <1>2, <1>3 DEF Minus
<1> QED
  BY <1>1, <1>3, <1>4

(* The inputs are what LayoutInit takes them from. *)
LEMMA LayoutType ==
    ASSUME LayoutInit
    PROVE  base \in 0..255 /\ gray \in 0..255 /\ text_w \in Nat /\ text_h \in Nat
<1>1. Brightnesses \subseteq 0..255 /\ TextWidths \subseteq Nat /\ TextHeights \subseteq Nat
  BY LayoutAssumption
<1>2. CASE base \in Brightnesses /\ gray \in 0..255 /\ text_w = 0 /\ text_h = 0
  BY <1>1, <1>2
<1>3. CASE base = 0 /\ gray = 0 /\ text_w \in TextWidths /\ text_h \in TextHeights
  BY <1>1, <1>3
<1> QED
  BY <1>2, <1>3 DEF LayoutInit

(* Brightness comes out right, and exactly the texts that TextOnPanel says *)
(* are placed whole on the panel, for every size of a text and every width *)
(* of usize in which the panel's own sizes fit: a right-aligned text of    *)
(* 156 to 159 pixels underflows in align_x and is not.                     *)
THEOREM DisplaysAreRight == LayoutSpec => []DisplayArithmetic
<1>1. LayoutInit => DisplayArithmetic
  <2> SUFFICES ASSUME LayoutInit PROVE DisplayArithmetic
    OBVIOUS
  <2>0. base \in 0..255 /\ gray \in 0..255 /\ text_w \in Nat /\ text_h \in Nat
    BY LayoutType
  <2>1. LutOrdered
    <3>1. /\ Scaled(base, gray) \in 0..255
          /\ gray = 0 => Scaled(base, gray) = 0
          /\ Scaled(base, gray) <= Scaled(base, gray + 1)
      BY <2>0, ScaledOrdered
    <3>2. gray < 255 => gray + 1 \in 0..255
      BY <2>0
    <3>3. gray < 255 => Scaled(base, gray + 1) \in 0..255
      BY <2>0, <3>2, ScaledOrdered
    <3>4. (gray = 0 => Pixel(base, gray) = 0)
      BY <3>1, PixelChannels
    <3>5. /\ Red(Pixel(base, gray)) = Blue(Pixel(base, gray))
          /\ Red(Pixel(base, gray)) = Green(Pixel(base, gray)) \div 2
      BY <3>1, PixelChannels
    <3>6. ASSUME gray < 255
          PROVE  /\ Green(Pixel(base, gray)) <= Green(Pixel(base, gray + 1))
                 /\ Red(Pixel(base, gray)) <= Red(Pixel(base, gray + 1))
      <4> DEFINE m == Scaled(base, gray)
                 n == Scaled(base, gray + 1)
      <4>1. m \in 0..255 /\ n \in 0..255 /\ m <= n
        BY <3>1, <3>3, <3>6
      <4>2. /\ Green(Pixel(base, gray)) = m \div 4 /\ Green(Pixel(base, gray + 1)) = n \div 4
            /\ Red(Pixel(base, gray)) = m \div 8 /\ Red(Pixel(base, gray + 1)) = n \div 8
        BY <4>1, PixelChannels
      <4> HIDE DEF m, n
      <4> QED
        BY <4>1, <4>2
    <3> QED
      BY <3>4, <3>5, <3>6 DEF LutOrdered
  <2>2. DimIsDarker
    <3>1. dimmed(base) \in 0..base /\ (base >= 10 => dimmed(base) >= 4)
      BY <2>0 DEF dimmed
    <3>2. dimmed(base) \in 0..255
      BY <2>0, <3>1
    <3>3. /\ Scaled(base, gray) \in 0..255 /\ Scaled(dimmed(base), gray) \in 0..255
          /\ Scaled(dimmed(base), gray) <= Scaled(base, gray)
          /\ gray = 255 => Scaled(dimmed(base), gray) = dimmed(base)
      BY <2>0, <3>1, <3>2, ScaledOrdered
    <3>4. Green(Pixel(dimmed(base), gray)) <= Green(Pixel(base, gray))
      <4> DEFINE m == Scaled(dimmed(base), gray)
                 n == Scaled(base, gray)
      <4>1. /\ Green(Pixel(dimmed(base), gray)) = m \div 4
            /\ Green(Pixel(base, gray)) = n \div 4
        BY <3>3, PixelChannels
      <4>2. m \in 0..255 /\ n \in 0..255 /\ m <= n
        BY <3>3
      <4> HIDE DEF m, n
      <4> QED
        BY <4>1, <4>2
    <3>5. base >= 10 /\ gray = 255 => Pixel(dimmed(base), gray) # 0
      BY <3>1, <3>2, <3>3, PixelChannels
    <3> QED
      BY <3>4, <3>5 DEF DimIsDarker
  <2>3. TextOnPanel
    <3>1. text_w <= WIDTH => Fits("center", text_w)
      BY <2>0 DEF Fits, align_x, WIDTH
    <3>2. Fits("left", text_w) <=> text_w <= WIDTH - TEXT_EDGE_MARGIN
      BY <2>0 DEF Fits, align_x, WIDTH, TEXT_EDGE_MARGIN
    <3>3. text_w <= WIDTH =>
            (Fits("right", text_w) <=>
                text_w \notin (WIDTH - TEXT_EDGE_MARGIN + 1)..(WIDTH - 1))
      <4>1. ASSUME NEW w \in Nat, w <= 155 PROVE Minus(160 - w, 5) = 155 - w
        <5>1. 160 - w \in Int /\ 5 \in Int /\ (160 - w) - 5 = 155 - w
          OBVIOUS
        <5>2. (160 - w) - 5 \in 0..1000
          BY <4>1
        <5>3. Minus(160 - w, 5) = (160 - w) - 5
          BY <5>1, <5>2, SmallMinus
        <5> QED
          BY <5>1, <5>3
      <4>2. CASE text_w <= 155
        BY <2>0, <4>1, <4>2 DEF Fits, align_x, WIDTH, TEXT_EDGE_MARGIN
      <4>3. CASE text_w \in 156..159
        <5>1. align_x("right", text_w) = Minus(160 - text_w, 5)
          BY <4>3 DEF align_x, WIDTH, TEXT_EDGE_MARGIN
        <5>2. Minus(160 - text_w, 5) \in Int /\ Minus(160 - text_w, 5) > 160
          BY <4>3, WrappedMinus
        <5> QED
          BY <4>3, <5>1, <5>2 DEF Fits, WIDTH, TEXT_EDGE_MARGIN
      <4>4. CASE text_w >= 160
        BY <2>0, <4>4 DEF Fits, align_x, WIDTH, TEXT_EDGE_MARGIN
      <4> QED
        BY <2>0, <4>2, <4>3, <4>4
    <3> QED
      BY <3>1, <3>2, <3>3 DEF TextOnPanel
  <2>4. TextInRows
    <3>1. ASSUME NEW v \in {"top", "middle", "bottom"}, text_h <= VISIBLE_HEIGHT
          PROVE  /\ align_y(v, text_h) >= VISIBLE_Y_START
                 /\ align_y(v, text_h) + text_h <= VISIBLE_Y_START + VISIBLE_HEIGHT
      BY <2>0, <3>1 DEF align_y, VISIBLE_Y_START, VISIBLE_HEIGHT
    <3> QED
      BY <3>1 DEF TextInRows
  <2> QED
    BY <2>1, <2>2, <2>3, <2>4 DEF DisplayArithmetic
<1>2. DisplayArithmetic /\ [FALSE]_layout_vars => DisplayArithmetic'
  BY DEF layout_vars, DisplayArithmetic, LutOrdered, DimIsDarker, TextOnPanel, TextInRows
<1> QED
  BY <1>1, <1>2, PTL DEF LayoutSpec
=============================================================================
