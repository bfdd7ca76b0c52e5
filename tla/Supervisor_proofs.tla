-------------------------- MODULE Supervisor_proofs --------------------------
(***************************************************************************)
(* Proofs about Supervisor, for any number of failed writes and of panics: *)
(* after a graceful shutdown the light is white and the display thread is  *)
(* over.  The heart of the argument is what the LED manager's memory is    *)
(* worth (MemoryHolds): the panic hook writes behind the manager's back,   *)
(* but only what the farewell wants, and the boot blink has finished.      *)
(***************************************************************************)
EXTENDS Supervisor, SequenceTheorems, TLAPS

Writes == [led: Leds, value: {0, 255}]

Stopping == {"send_oled", "await_led", "await_oled", "returned", "exited"}

(* Every variable that the argument is about has its type. *)
TypeOK ==
    /\ led \in [Leds -> {0, 255}]
    /\ writes \in [Tasks -> Seq(Writes)]
    /\ last \in [Leds -> {Unknown, 0, 255}]
    /\ blink \in {"blinking", "stopped"}
    /\ manager \in {"none", "check", "wait", "final"}
    /\ main \in Starting \cup {"select", "send_led", "aborted"} \cup Stopping
    /\ oled \in {"none", "disabled", "spawned", "recv", "join", "done"}
    /\ display \in {"none", "starting", "running"} \cup Ended
    /\ settled \in BOOLEAN /\ shutdown \in BOOLEAN /\ final_failed \in BOOLEAN

(* What is left of the writes of a farewell, or of the hook. *)
Farewells == {activate_white_led, <<To("blue", 0)>>, <<>>}

HookIsWhite == writes["hook"] \in Farewells

(* What the manager remembers is what a LED shows, or the hook has been    *)
(* there: the blink was through before the manager wrote anything.         *)
MemoryHolds ==
    /\ (manager # "final" /\ writes["manager"] # <<>>) => BlinkDone
    /\ (manager # "final" \/ settled) =>
          \A l \in Leds : last[l] # Unknown =>
              BlinkDone /\ led[l] \in {last[l], SolidWhite[l]}

(* A farewell turns white what it has got to. *)
FarewellGoes ==
    manager = "final" =>
        /\ shutdown
        /\ writes["manager"] \in Farewells
        /\ settled /\ ~final_failed =>
              /\ writes["manager"] # activate_white_led => led["white"] = 255
              /\ writes["manager"] = <<>> => led["blue"] = 0

(* The shutdown goes through its steps in order. *)
StopsInOrder ==
    /\ settled => BlinkDone /\ main \in Stopping \cup {"send_led"}
    /\ shutdown => main \in Stopping
    /\ main \in {"await_oled", "returned", "exited"} => ManagerDone

LedInv == HookIsWhite /\ MemoryHolds /\ FarewellGoes /\ StopsInOrder

(* The OLED task joins the display thread, if it spawned one, and main     *)
(* waits for the task.                                                     *)
DisplayJoined ==
    /\ main = "startup" => oled = "none"
    /\ oled \in {"none", "disabled", "spawned"} => display = "none"
    /\ oled = "done" => display \in Ended \cup {"none"}
    /\ main \in {"returned", "exited"} => oled \in {"disabled", "done"}
    /\ display = "blanked" => screen = "blank"

(* The inductive invariant. *)
SupervisorInv == TypeOK /\ LedInv /\ DisplayJoined
-----------------------------------------------------------------------------
(* The farewell writes white first, blue then, and nothing else. *)
LEMMA FarewellSteps ==
    /\ activate_white_led # <<>> /\ <<To("blue", 0)>> # <<>>
    /\ activate_white_led # <<To("blue", 0)>>
    /\ Head(activate_white_led) = To("white", 255)
    /\ Tail(activate_white_led) = <<To("blue", 0)>>
    /\ Head(<<To("blue", 0)>>) = To("blue", 0)
    /\ Tail(<<To("blue", 0)>>) = <<>>
BY DEF activate_white_led, WhiteThenBlue, SolidWhite, Light, To

(* The lights that tasks ask for are writes to the two LEDs. *)
LEMMA LightType ==
    ASSUME NEW b \in {0, 255}, NEW w \in {0, 255}
    PROVE  /\ BlueThenWhite(Light(b, w)) \in Seq(Writes)
           /\ WhiteThenBlue(Light(b, w)) \in Seq(Writes)
BY DEF BlueThenWhite, WhiteThenBlue, Light, To, Writes, Leds

(* Every queue of writes in the program is one of these. *)
LEMMA QueueTypes ==
    /\ activate_white_led \in Seq(Writes) /\ activate_blue_led \in Seq(Writes)
    /\ WhiteThenBlue(SolidWhite) \in Seq(Writes) /\ WhiteThenBlue(Dark) \in Seq(Writes)
    /\ BlueThenWhite(SolidBlue) \in Seq(Writes) /\ BlueThenWhite(Dark) \in Seq(Writes)
BY LightType DEF activate_white_led, activate_blue_led, SolidWhite, SolidBlue, Dark

(* A light has two LEDs. *)
LEMMA LightParts ==
    /\ SolidWhite["white"] = 255 /\ SolidWhite["blue"] = 0
    /\ \A l \in Leds : SolidWhite[l] \in {0, 255}
BY DEF SolidWhite, Light, Leds
-----------------------------------------------------------------------------
(* The boot blink is at work, no manager runs and no display at the start. *)
LEMMA SupervisorStarts == Init => SupervisorInv
<1> SUFFICES ASSUME Init PROVE SupervisorInv
  OBVIOUS
<1> USE DEF Init, LedInit, DisplayInit
<1>1. TypeOK
  <2>1. <<>> \in Seq(Writes)
    OBVIOUS
  <2>2. writes \in [Tasks -> Seq(Writes)]
    BY <2>1
  <2> QED
    BY <2>2 DEF TypeOK, Starting
<1>2. LedInv
  BY FarewellSteps
  DEF LedInv, HookIsWhite, Farewells, MemoryHolds, FarewellGoes, StopsInOrder, Tasks,
      Leds
<1>3. DisplayJoined
  BY DEF DisplayJoined
<1> QED
  BY <1>1, <1>2, <1>3 DEF SupervisorInv
-----------------------------------------------------------------------------
(* What set_led(t) does to the queue, the light and the memory, told by    *)
(* the LED it is about and the value it is to have.                        *)
LEMMA OneWrite ==
    ASSUME TypeOK, NEW t \in Tasks, set_led(t)
    PROVE  \E l \in Leds, v \in {0, 255} :
            /\ Head(writes[t]) = To(l, v) /\ writes[t] # <<>>
            /\ writes' = [writes EXCEPT ![t] = Tail(writes[t])]
            /\ Tail(writes[t]) \in Seq(Writes)
            /\ \/ /\ t = "manager" /\ last[l] = v
                  /\ UNCHANGED <<led, last, final_failed>>
               \/ /\ led' = [led EXCEPT ![l] = v] /\ UNCHANGED final_failed
                  /\ last' = IF t = "manager" THEN [last EXCEPT ![l] = v] ELSE last
               \/ /\ UNCHANGED <<led, last>> /\ final_failed' \in BOOLEAN
                  /\ final_failed => final_failed'
                  /\ t = "manager" /\ manager = "final" => final_failed'
            /\ UNCHANGED <<blink, blink_on, stop, manager, shutdown>>
<1> DEFINE l == Head(writes[t]).led
<1> DEFINE v == Head(writes[t]).value
<1>1. writes[t] # <<>> /\ writes[t] \in Seq(Writes)
  BY DEF set_led, TypeOK
<1>2. Head(writes[t]) \in Writes /\ Tail(writes[t]) \in Seq(Writes)
  BY <1>1, HeadTailProperties
<1>3. l \in Leds /\ v \in {0, 255} /\ Head(writes[t]) = To(l, v)
  BY <1>2 DEF Writes, To
<1>4. /\ writes' = [writes EXCEPT ![t] = Tail(writes[t])]
      /\ UNCHANGED <<blink, blink_on, stop, manager, shutdown>>
  BY DEF set_led
<1>5. \/ /\ t = "manager" /\ last[l] = v
         /\ UNCHANGED <<led, last, final_failed>>
      \/ /\ led' = [led EXCEPT ![l] = v] /\ UNCHANGED final_failed
         /\ last' = IF t = "manager" THEN [last EXCEPT ![l] = v] ELSE last
      \/ /\ UNCHANGED <<led, last>>
         /\ final_failed' = (final_failed \/ (t = "manager" /\ manager = "final"))
  BY DEF set_led, OnFailure
<1>6. final_failed' = (final_failed \/ (t = "manager" /\ manager = "final")) =>
         /\ final_failed' \in BOOLEAN
         /\ final_failed => final_failed'
         /\ t = "manager" /\ manager = "final" => final_failed'
  OBVIOUS
<1> HIDE DEF l, v
<1> QED
  BY <1>1, <1>2, <1>3, <1>4, <1>5, <1>6

(* Writing keeps the invariant: the blink writes only before the manager   *)
(* has a memory, the hook writes what the farewell wants, and the manager  *)
(* remembers what it wrote.                                                *)
LEMMA WriteStep ==
    ASSUME TypeOK, LedInv, NEW t \in Tasks, set_led(t), UNCHANGED main_vars
    PROVE  LedInv' /\ led' \in [Leds -> {0, 255}] /\ last' \in [Leds -> {Unknown, 0, 255}]
           /\ writes' \in [Tasks -> Seq(Writes)] /\ final_failed' \in BOOLEAN
<1>1. PICK l \in Leds, v \in {0, 255} :
            /\ Head(writes[t]) = To(l, v) /\ writes[t] # <<>>
            /\ writes' = [writes EXCEPT ![t] = Tail(writes[t])]
            /\ Tail(writes[t]) \in Seq(Writes)
            /\ \/ /\ t = "manager" /\ last[l] = v
                  /\ UNCHANGED <<led, last, final_failed>>
               \/ /\ led' = [led EXCEPT ![l] = v] /\ UNCHANGED final_failed
                  /\ last' = IF t = "manager" THEN [last EXCEPT ![l] = v] ELSE last
               \/ /\ UNCHANGED <<led, last>> /\ final_failed' \in BOOLEAN
                  /\ final_failed => final_failed'
                  /\ t = "manager" /\ manager = "final" => final_failed'
            /\ UNCHANGED <<blink, blink_on, stop, manager, shutdown>>
  BY OneWrite
<1>2. UNCHANGED <<main, settled>>
  BY DEF main_vars
<1>3. /\ led' \in [Leds -> {0, 255}] /\ last' \in [Leds -> {Unknown, 0, 255}]
      /\ writes' \in [Tasks -> Seq(Writes)] /\ final_failed' \in BOOLEAN
  <2>1. writes' \in [Tasks -> Seq(Writes)]
    BY <1>1 DEF TypeOK
  <2>2. led' \in [Leds -> {0, 255}] /\ final_failed' \in BOOLEAN
    BY <1>1 DEF TypeOK
  <2>3. last' \in [Leds -> {Unknown, 0, 255}]
    BY <1>1 DEF TypeOK, Unknown
  <2> QED
    BY <2>1, <2>2, <2>3
<1>4. BlinkDone => BlinkDone' /\ t # "blink"
  BY <1>1 DEF BlinkDone, TypeOK, Tasks
<1>5. /\ writes'[t] = Tail(writes[t])
      /\ \A u \in Tasks \ {t} : writes'[u] = writes[u]
  BY <1>1 DEF TypeOK
<1>6. writes[t] \in Farewells =>
         /\ Tail(writes[t]) \in Farewells /\ v = SolidWhite[l]
         /\ Tail(writes[t]) # activate_white_led
         /\ l = "white" => Tail(writes[t]) # <<>>
         /\ l = "blue" => Tail(writes[t]) = <<>> /\ writes[t] # activate_white_led
  <2>1. ASSUME writes[t] = activate_white_led
        PROVE  l = "white" /\ v = 255 /\ Tail(writes[t]) = <<To("blue", 0)>>
    <3>1. To(l, v) = To("white", 255)
      BY <1>1, <2>1, FarewellSteps
    <3> QED
      BY <2>1, <3>1, FarewellSteps DEF To
  <2>2. ASSUME writes[t] = <<To("blue", 0)>>
        PROVE  l = "blue" /\ v = 0 /\ Tail(writes[t]) = <<>>
    <3>1. To(l, v) = To("blue", 0)
      BY <1>1, <2>2, FarewellSteps
    <3> QED
      BY <2>2, <3>1, FarewellSteps DEF To
  <2>3. writes[t] \in Farewells =>
            writes[t] = activate_white_led \/ writes[t] = <<To("blue", 0)>>
    BY <1>1 DEF Farewells
  <2> DEFINE blueleft == <<To("blue", 0)>>
  <2>4. /\ blueleft \in Farewells /\ <<>> \in Farewells
        /\ blueleft # activate_white_led /\ <<>> # activate_white_led
        /\ blueleft # <<>>
    BY FarewellSteps DEF Farewells
  <2> HIDE DEF blueleft
  <2>5. CASE writes[t] = activate_white_led
    <3>1. l = "white" /\ v = 255 /\ Tail(writes[t]) = blueleft
      BY <2>1, <2>5 DEF blueleft
    <3> QED
      BY <2>4, <3>1, LightParts
  <2>6. CASE writes[t] = <<To("blue", 0)>>
    <3>1. l = "blue" /\ v = 0 /\ Tail(writes[t]) = <<>> /\ writes[t] = blueleft
      BY <2>2, <2>6 DEF blueleft
    <3> QED
      BY <2>4, <3>1, LightParts
  <2> QED
    BY <2>3, <2>5, <2>6
<1>7. HookIsWhite'
  BY <1>5, <1>6 DEF LedInv, HookIsWhite, Tasks
<1>8. StopsInOrder'
  <2>1. ManagerDone => ManagerDone'
    BY <1>1, <1>5 DEF ManagerDone, Tasks
  <2> QED
    BY <1>1, <1>2, <1>4, <2>1 DEF LedInv, StopsInOrder
<1>9. MemoryHolds'
  <2>1. (manager' # "final" /\ writes'["manager"] # <<>>) => BlinkDone'
    BY <1>1, <1>4, <1>5 DEF LedInv, MemoryHolds, Tasks
  <2>2. ASSUME manager # "final" \/ settled, NEW k \in Leds, last'[k] # Unknown
        PROVE  BlinkDone' /\ led'[k] \in {last'[k], SolidWhite[k]}
    <3>1. CASE t = "manager"
      <4>1. BlinkDone
        BY <1>1, <2>2, <3>1 DEF LedInv, MemoryHolds, StopsInOrder
      <4> QED
        BY <1>1, <1>4, <2>2, <3>1, <4>1 DEF LedInv, MemoryHolds, TypeOK
    <3>2. CASE t # "manager"
      <4>1. last' = last /\ last[k] # Unknown
        BY <1>1, <2>2, <3>2
      <4>2. BlinkDone /\ led[k] \in {last[k], SolidWhite[k]}
        BY <2>2, <4>1 DEF LedInv, MemoryHolds
      <4>3. t = "hook"
        BY <1>4, <3>2, <4>2 DEF Tasks
      <4>4. v = SolidWhite[l]
        BY <1>6, <4>3 DEF LedInv, HookIsWhite
      <4> QED
        BY <1>1, <1>4, <4>1, <4>2, <4>3, <4>4 DEF TypeOK
    <3> QED
      BY <3>1, <3>2
  <2> QED
    BY <1>1, <1>2, <2>1, <2>2 DEF MemoryHolds
<1>10. FarewellGoes'
  <2> SUFFICES ASSUME manager = "final"
               PROVE  /\ shutdown
                      /\ writes'["manager"] \in Farewells
                      /\ settled /\ ~final_failed' =>
                          /\ writes'["manager"] # activate_white_led => led'["white"] = 255
                          /\ writes'["manager"] = <<>> => led'["blue"] = 0
    BY <1>1, <1>2 DEF FarewellGoes
  <2>1. /\ shutdown /\ writes["manager"] \in Farewells
        /\ settled /\ ~final_failed =>
              /\ writes["manager"] # activate_white_led => led["white"] = 255
              /\ writes["manager"] = <<>> => led["blue"] = 0
    BY DEF LedInv, FarewellGoes
  <2>2. settled => BlinkDone
    BY DEF LedInv, StopsInOrder
  <2>3. ~final_failed' => ~final_failed
    BY <1>1
  <2>4. CASE t = "manager"
    <3>1. writes'["manager"] \in Farewells
      BY <1>5, <1>6, <2>1, <2>4
    <3>2. ASSUME settled, ~final_failed'
          PROVE  led'[l] = SolidWhite[l] /\ \A k \in Leds \ {l} : led'[k] = led[k]
      <4>1. last[l] = v => led[l] = v
        BY <1>6, <2>1, <2>4, <3>2, LightParts DEF LedInv, MemoryHolds, Unknown
      <4> QED
        BY <1>1, <1>6, <2>1, <2>4, <3>2, <4>1 DEF TypeOK
    <3>3. ASSUME settled, ~final_failed'
          PROVE  /\ led'["white"] = 255
                 /\ writes'["manager"] = <<>> => led'["blue"] = 0
      <4>1. CASE l = "white"
        BY <1>5, <1>6, <2>1, <2>4, <3>2, <3>3, <4>1, LightParts DEF Leds
      <4>2. CASE l = "blue"
        BY <1>5, <1>6, <2>1, <2>3, <2>4, <3>2, <3>3, <4>2, LightParts DEF Leds
      <4> QED
        BY <4>1, <4>2 DEF Leds
    <3> QED
      BY <2>1, <3>1, <3>3
  <2>5. CASE t # "manager"
    <3>1. writes'["manager"] = writes["manager"]
      BY <1>5, <2>5 DEF Tasks
    <3>2. ASSUME settled
          PROVE  /\ led["white"] = 255 => led'["white"] = 255
                 /\ led["blue"] = 0 => led'["blue"] = 0
      <4>1. t = "hook"
        BY <1>4, <2>2, <2>5, <3>2 DEF Tasks
      <4>2. v = SolidWhite[l]
        BY <1>6, <4>1 DEF LedInv, HookIsWhite
      <4> QED
        BY <1>1, <4>1, <4>2, LightParts DEF TypeOK, Leds
    <3> QED
      BY <2>1, <2>3, <3>1, <3>2
  <2> QED
    BY <2>4, <2>5
<1> QED
  BY <1>3, <1>7, <1>8, <1>9, <1>10 DEF LedInv
-----------------------------------------------------------------------------
(* The tasks queue their writes when they have made the earlier ones. *)
LEMMA LedStepKeeps ==
    ASSUME SupervisorInv, Led
    PROVE  SupervisorInv'
<1> USE DEF SupervisorInv
<1>1. UNCHANGED <<display_vars, main_vars>> /\ LedStep
  BY DEF Led
<1>2. UNCHANGED <<main, trigger, oled, oled_rx, settled, display, display_stop, screen>>
  BY <1>1 DEF main_vars, display_vars
<1>3. DisplayJoined'
  BY <1>2 DEF DisplayJoined
<1>4. ASSUME NEW t \in Tasks, set_led(t)
      PROVE  TypeOK' /\ LedInv'
  <2>1. UNCHANGED <<blink, manager, shutdown>>
    BY <1>4 DEF set_led
  <2>2. /\ LedInv'
        /\ led' \in [Leds -> {0, 255}] /\ last' \in [Leds -> {Unknown, 0, 255}]
        /\ writes' \in [Tasks -> Seq(Writes)] /\ final_failed' \in BOOLEAN
    BY <1>1, <1>4, WriteStep
  <2>3. TypeOK'
    BY <1>2, <2>1, <2>2 DEF TypeOK
  <2> QED
    BY <2>2, <2>3
<1>5. ASSUME NEW t \in Tasks, NEW ws \in Seq(Writes), Queue(t, ws)
      PROVE  /\ writes[t] = <<>> /\ writes'[t] = ws
             /\ writes' \in [Tasks -> Seq(Writes)]
             /\ \A u \in Tasks \ {t} : writes'[u] = writes[u]
  BY <1>5 DEF Queue, TypeOK
<1>6. CASE BlinkTick \/ BlinkStop
  <2>1. PICK ws \in Seq(Writes) : Queue("blink", ws)
    BY <1>6, QueueTypes DEF BlinkTick, BlinkStop
  <2>2. /\ blink = "blinking" /\ blink' \in {"blinking", "stopped"}
        /\ UNCHANGED <<led, manager, last, shutdown, final_failed>>
    BY <1>6 DEF BlinkTick, BlinkStop
  <2>3. /\ writes' \in [Tasks -> Seq(Writes)]
        /\ writes'["manager"] = writes["manager"] /\ writes'["hook"] = writes["hook"]
    BY <1>5, <2>1 DEF Tasks
  <2>4. ~BlinkDone /\ ~settled
    BY <2>2 DEF BlinkDone, LedInv, StopsInOrder
  <2>5. TypeOK'
    BY <1>2, <2>2, <2>3 DEF TypeOK
  <2>6. HookIsWhite' /\ FarewellGoes' /\ StopsInOrder'
    BY <1>2, <2>2, <2>3, <2>4
    DEF LedInv, HookIsWhite, FarewellGoes, StopsInOrder, ManagerDone
  <2>7. MemoryHolds'
    BY <1>2, <2>2, <2>3, <2>4 DEF LedInv, MemoryHolds
  <2> QED
    BY <1>3, <2>5, <2>6, <2>7 DEF LedInv
<1>7. CASE ManagerCheck \/ ActivityChanges
  <2>1. /\ manager = "check" /\ manager' \in {"check", "wait"}
        /\ UNCHANGED <<led, writes, blink, last, shutdown, final_failed>>
    BY <1>7 DEF ManagerCheck, ActivityChanges
  <2>2. TypeOK'
    BY <1>2, <2>1 DEF TypeOK
  <2>3. HookIsWhite' /\ FarewellGoes' /\ StopsInOrder' /\ MemoryHolds'
    BY <1>2, <2>1
    DEF LedInv, HookIsWhite, FarewellGoes, StopsInOrder, MemoryHolds, ManagerDone,
        BlinkDone
  <2> QED
    BY <1>3, <2>2, <2>3 DEF LedInv
<1>8. CASE ManagerTick
  <2>1. PICK ws \in Seq(Writes) : Queue("manager", ws)
    BY <1>8, QueueTypes DEF ManagerTick
  <2>2. /\ manager = "wait" /\ manager' = "check" /\ BlinkDone
        /\ UNCHANGED <<led, blink, last, shutdown, final_failed>>
    BY <1>8 DEF ManagerTick
  <2>3. /\ writes' \in [Tasks -> Seq(Writes)]
        /\ writes'["blink"] = writes["blink"] /\ writes'["hook"] = writes["hook"]
    BY <1>5, <2>1 DEF Tasks
  <2>4. BlinkDone'
    BY <2>2, <2>3 DEF BlinkDone
  <2>5. TypeOK'
    BY <1>2, <2>2, <2>3 DEF TypeOK
  <2>6. HookIsWhite' /\ FarewellGoes' /\ StopsInOrder'
    BY <1>2, <2>2, <2>3, <2>4
    DEF LedInv, HookIsWhite, FarewellGoes, StopsInOrder, ManagerDone
  <2>7. MemoryHolds'
    BY <1>2, <2>2, <2>3, <2>4 DEF LedInv, MemoryHolds
  <2> QED
    BY <1>3, <2>5, <2>6, <2>7 DEF LedInv
<1>9. CASE ManagerStop
  <2>1. Queue("manager", activate_white_led) /\ activate_white_led \in Seq(Writes)
    BY <1>9, QueueTypes DEF ManagerStop
  <2>2. /\ manager = "wait" /\ manager' = "final" /\ shutdown
        /\ UNCHANGED <<led, blink, last, shutdown, final_failed>>
    BY <1>9 DEF ManagerStop
  <2>3. /\ writes' \in [Tasks -> Seq(Writes)]
        /\ writes'["blink"] = writes["blink"] /\ writes'["hook"] = writes["hook"]
        /\ writes'["manager"] = activate_white_led
    BY <1>5, <2>1 DEF Tasks
  <2>4. BlinkDone' = BlinkDone
    BY <2>2, <2>3 DEF BlinkDone
  <2>5. TypeOK'
    BY <1>2, <2>2, <2>3 DEF TypeOK
  <2>6. HookIsWhite' /\ FarewellGoes' /\ StopsInOrder'
    BY <1>2, <2>2, <2>3, <2>4, FarewellSteps
    DEF LedInv, HookIsWhite, FarewellGoes, Farewells, StopsInOrder, ManagerDone
  <2>7. MemoryHolds'
    BY <1>2, <2>2, <2>3, <2>4 DEF LedInv, MemoryHolds
  <2> QED
    BY <1>3, <2>5, <2>6, <2>7 DEF LedInv
<1>10. CASE PanicHook
  <2>1. Queue("hook", activate_white_led) /\ activate_white_led \in Seq(Writes)
    BY <1>10, QueueTypes DEF PanicHook
  <2>2. UNCHANGED <<led, blink, manager, last, shutdown, final_failed>>
    BY <1>10 DEF PanicHook
  <2>3. /\ writes' \in [Tasks -> Seq(Writes)]
        /\ writes'["blink"] = writes["blink"] /\ writes'["manager"] = writes["manager"]
        /\ writes'["hook"] = activate_white_led
    BY <1>5, <2>1 DEF Tasks
  <2>4. BlinkDone' = BlinkDone
    BY <2>2, <2>3 DEF BlinkDone
  <2>5. TypeOK'
    BY <1>2, <2>2, <2>3 DEF TypeOK
  <2>6. HookIsWhite' /\ FarewellGoes' /\ StopsInOrder'
    BY <1>2, <2>2, <2>3, <2>4
    DEF LedInv, HookIsWhite, FarewellGoes, Farewells, StopsInOrder, ManagerDone
  <2>7. MemoryHolds'
    BY <1>2, <2>2, <2>3, <2>4 DEF LedInv, MemoryHolds
  <2> QED
    BY <1>3, <2>5, <2>6, <2>7 DEF LedInv
<1> QED
  BY <1>1, <1>3, <1>4, <1>6, <1>7, <1>8, <1>9, <1>10 DEF LedStep

(* main: the blink's end is looked at when the shutdown begins, and main   *)
(* waits for the manager and for the OLED task before it returns.          *)
LEMMA MainStep ==
    ASSUME SupervisorInv, Main \/ StartupFails \/ Signal \/ ServerEnds
    PROVE  SupervisorInv'
<1> USE DEF SupervisorInv
<1>1. ASSUME UNCHANGED <<display_vars, led, writes, blink, manager, last, final_failed>>
      PROVE  /\ UNCHANGED <<display, screen, BlinkDone, ManagerDone>>
             /\ HookIsWhite'
             /\ UNCHANGED settled => MemoryHolds'
             /\ UNCHANGED settled /\ (shutdown => shutdown') => FarewellGoes'
  <2>1. UNCHANGED <<display, screen>> /\ UNCHANGED <<BlinkDone, ManagerDone>>
    BY <1>1 DEF display_vars, BlinkDone, ManagerDone
  <2>2. HookIsWhite'
    BY <1>1 DEF LedInv, HookIsWhite
  <2>3. UNCHANGED settled => MemoryHolds'
    BY <1>1, <2>1 DEF LedInv, MemoryHolds
  <2>4. UNCHANGED settled /\ (shutdown => shutdown') => FarewellGoes'
    BY <1>1, <2>1 DEF LedInv, FarewellGoes
  <2> QED
    BY <2>1, <2>2, <2>3, <2>4
<1>2. CASE \/ StartupFails \/ SpawnServers \/ RegisterSignals \/ Signal \/ ServerEnds
           \/ SendOled \/ AwaitLed \/ AwaitOled \/ Exit
  <2>1. /\ UNCHANGED <<led_vars, display_vars, settled>>
        /\ oled' \in {"disabled", "spawned", oled}
        /\ oled' # oled => main = "startup"
    BY <1>2
    DEF StartupFails, SpawnServers, RegisterSignals, Signal, ServerEnds, SendOled,
        AwaitLed, AwaitOled, Exit, Goto
  <2>2. UNCHANGED <<led, writes, blink, manager, last, final_failed, shutdown>>
    BY <2>1 DEF led_vars
  <2>3. /\ main' \in Starting \cup {"select", "aborted"} \cup Stopping
        /\ main' = "startup" => main = "startup" /\ oled' = oled
        /\ main' \in {"returned", "exited"} =>
              /\ main \in {"await_oled", "returned"}
              /\ oled' \in {"disabled", "done"}
        /\ main' \in {"await_oled", "returned", "exited"} => ManagerDone
        /\ main \in Stopping => main' \in Stopping
        /\ main # "send_led"
    BY <1>2
    DEF StartupFails, SpawnServers, RegisterSignals, Signal, ServerEnds, SendOled,
        AwaitLed, AwaitOled, Exit, Goto, Starting, Stopping, LedInv, StopsInOrder,
        DisplayJoined
  <2>4. /\ UNCHANGED <<display, screen, BlinkDone, ManagerDone>>
        /\ HookIsWhite' /\ MemoryHolds' /\ FarewellGoes'
    BY <1>1, <2>1, <2>2
  <2>5. StopsInOrder'
    BY <2>1, <2>2, <2>3, <2>4 DEF LedInv, StopsInOrder
  <2>6. TypeOK'
    BY <2>1, <2>2, <2>3, <2>4 DEF TypeOK, Starting, Stopping
  <2>7. DisplayJoined'
    BY <2>1, <2>3, <2>4 DEF DisplayJoined
  <2> QED
    BY <2>4, <2>5, <2>6, <2>7 DEF LedInv
<1>3. CASE SendStopBlink \/ SpawnLed
  <2>1. /\ UNCHANGED <<display_vars, led, writes, blink, last, final_failed, shutdown,
                       settled, oled>>
        /\ main \in Starting /\ main' \in {"stopping_blink", "registering"}
        /\ manager' \in {manager, "check"} /\ (manager' # manager => manager = "none")
    BY <1>3 DEF SendStopBlink, SpawnLed, Goto, StopBlink, SpawnLedManager, Starting
  <2>2. UNCHANGED <<display, screen, BlinkDone>>
    BY <2>1 DEF display_vars, BlinkDone
  <2>3. HookIsWhite' /\ FarewellGoes'
    BY <2>1 DEF LedInv, HookIsWhite, FarewellGoes
  <2>4. MemoryHolds'
    BY <2>1, <2>2 DEF LedInv, MemoryHolds
  <2>5. StopsInOrder'
    BY <2>1, <2>2 DEF LedInv, StopsInOrder, Starting, Stopping
  <2>6. TypeOK'
    BY <2>1, <2>2 DEF TypeOK, Starting
  <2>7. DisplayJoined'
    BY <2>1, <2>2 DEF DisplayJoined
  <2> QED
    BY <2>3, <2>4, <2>5, <2>6, <2>7 DEF LedInv
<1>4. CASE Select
  <2>1. /\ UNCHANGED <<display_vars, led_vars, oled>> /\ settled' = BlinkDone
        /\ main = "select" /\ main' = "send_led"
    BY <1>4 DEF Select, Goto
  <2>2. UNCHANGED <<led, writes, blink, manager, last, final_failed, shutdown>>
    BY <2>1 DEF led_vars
  <2>3. UNCHANGED <<display, screen, BlinkDone, ManagerDone>> /\ HookIsWhite'
    BY <1>1, <2>1, <2>2
  <2>4. ~shutdown /\ manager # "final"
    BY <2>1 DEF LedInv, StopsInOrder, FarewellGoes, Stopping
  <2>5. settled' \in BOOLEAN /\ (settled' => BlinkDone')
    BY <2>1, <2>3 DEF BlinkDone
  <2>6. MemoryHolds' /\ FarewellGoes'
    BY <2>2, <2>3, <2>4 DEF LedInv, MemoryHolds, FarewellGoes
  <2>7. StopsInOrder'
    BY <2>1, <2>2, <2>4, <2>5 DEF StopsInOrder
  <2>8. TypeOK'
    BY <2>1, <2>2, <2>3, <2>5 DEF TypeOK
  <2>9. DisplayJoined'
    BY <2>1, <2>3 DEF DisplayJoined
  <2> QED
    BY <2>3, <2>6, <2>7, <2>8, <2>9 DEF LedInv
<1>5. CASE SendLed
  <2>1. /\ UNCHANGED <<display_vars, led, writes, blink, manager, last, final_failed,
                       settled, oled>>
        /\ main = "send_led" /\ main' = "send_oled" /\ shutdown' = TRUE
    BY <1>5 DEF SendLed, Goto, ShutdownLed
  <2>2. /\ UNCHANGED <<display, screen, BlinkDone, ManagerDone>>
        /\ HookIsWhite' /\ MemoryHolds' /\ FarewellGoes'
    BY <1>1, <2>1
  <2>3. StopsInOrder'
    BY <2>1, <2>2 DEF LedInv, StopsInOrder, Stopping
  <2>4. TypeOK'
    BY <2>1, <2>2 DEF TypeOK, Stopping
  <2>5. DisplayJoined'
    BY <2>1, <2>2 DEF DisplayJoined
  <2> QED
    BY <2>2, <2>3, <2>4, <2>5 DEF LedInv
<1> QED
  BY <1>2, <1>3, <1>4, <1>5 DEF Main

(* The OLED task and the display thread: the task ends when the thread has *)
(* ended, or was never spawned.                                            *)
LEMMA DisplayStepKeeps ==
    ASSUME SupervisorInv, Oled \/ Display
    PROVE  SupervisorInv'
<1> USE DEF SupervisorInv
<1>1. ASSUME UNCHANGED <<led_vars, main, settled>>
      PROVE  LedInv' /\ UNCHANGED <<led, writes, blink, manager, last, final_failed,
                                    shutdown, main, settled>>
  <2>1. UNCHANGED <<led, writes, blink, manager, last, final_failed, shutdown, main,
                    settled>>
    BY <1>1 DEF led_vars
  <2>2. HookIsWhite' /\ FarewellGoes' /\ StopsInOrder' /\ MemoryHolds'
    BY <2>1
    DEF LedInv, HookIsWhite, FarewellGoes, StopsInOrder, MemoryHolds, ManagerDone,
        BlinkDone
  <2> QED
    BY <2>1, <2>2 DEF LedInv
<1>2. CASE Oled
  <2>1. UNCHANGED <<led_vars, main, settled>>
    BY <1>2 DEF Oled, OledSpawns, OledBridge, OledJoins
  <2>2. /\ oled \in {"spawned", "recv", "join"} /\ oled' \in {"recv", "join", "done"}
        /\ oled' = "done" => display' \in Ended \cup {"none"}
        /\ display' \in {display, "starting"} /\ UNCHANGED screen
    BY <1>2
    DEF Oled, OledSpawns, OledBridge, OledJoins, SpawnDisplay, StopDisplay,
        display_vars, DisplayJoined
  <2>3. DisplayJoined'
    BY <2>1, <2>2 DEF DisplayJoined
  <2>4. TypeOK'
    BY <1>1, <2>1, <2>2 DEF TypeOK
  <2> QED
    BY <1>1, <2>1, <2>3, <2>4
<1>3. CASE Display
  <2>1. UNCHANGED <<led_vars, main, settled, oled>>
    BY <1>3 DEF Display, main_vars
  <2>2. /\ display \in {"starting", "running"}
        /\ display' \in {"starting", "running"} \cup Ended
        /\ display' = "blanked" => screen' = "blank"
    BY <1>3
    DEF Display, DisplayStep, Headless, StartDisplay, ShowFrame, BlankAndEnd,
        DisplayPanics, Ended
  <2>3. DisplayJoined'
    BY <2>1, <2>2 DEF DisplayJoined, Ended
  <2>4. TypeOK'
    BY <1>1, <2>1, <2>2 DEF TypeOK
  <2> QED
    BY <1>1, <2>1, <2>3, <2>4
<1> QED
  BY <1>2, <1>3
-----------------------------------------------------------------------------
(* Every step keeps the inductive invariant. *)
LEMMA SupervisorInductive == SupervisorInv /\ [Next]_vars => SupervisorInv'
<1> SUFFICES ASSUME SupervisorInv, [Next]_vars PROVE SupervisorInv'
  OBVIOUS
<1>1. CASE UNCHANGED vars
  <2>1. /\ UNCHANGED <<led, writes, blink, manager, last, final_failed, shutdown, main>>
        /\ UNCHANGED <<settled, oled, display, screen>>
    BY <1>1 DEF vars, led_vars, display_vars, main_vars
  <2>2. TypeOK' /\ DisplayJoined'
    BY <2>1 DEF SupervisorInv, TypeOK, DisplayJoined
  <2>3. LedInv'
    BY <2>1
    DEF SupervisorInv, LedInv, HookIsWhite, FarewellGoes, StopsInOrder, MemoryHolds,
        ManagerDone, BlinkDone
  <2> QED
    BY <2>2, <2>3 DEF SupervisorInv
<1> QED
  BY <1>1, MainStep, LedStepKeeps, DisplayStepKeeps DEF Next

(* main, the LED tasks, the panic hook, the OLED task and the display      *)
(* thread keep the inductive invariant, in whatever order they run.        *)
THEOREM SupervisorInvariant == Safety => []SupervisorInv
  BY SupervisorStarts, SupervisorInductive, PTL DEF Safety

(* However many writes fail and however often the panic hook runs: after a *)
(* graceful_shutdown that found the boot blink over, the light is white    *)
(* unless a write of the farewell itself failed (run_led_manager).         *)
THEOREM SettledExitsAreWhite == Safety => []SettledExitIsWhite
<1>1. SupervisorInv => SettledExitIsWhite
  <2> SUFFICES ASSUME SupervisorInv, main = "exited", settled, ~final_failed
               PROVE  led = SolidWhite
    BY DEF SettledExitIsWhite
  <2>1. manager = "final" /\ writes["manager"] = <<>>
    BY DEF SupervisorInv, LedInv, StopsInOrder, ManagerDone
  <2>2. led["white"] = 255 /\ led["blue"] = 0
    BY <2>1, FarewellSteps DEF SupervisorInv, LedInv, FarewellGoes
  <2>3. led = [l \in Leds |-> led[l]]
    BY DEF SupervisorInv, TypeOK
  <2>4. SolidWhite = [l \in Leds |-> SolidWhite[l]]
    BY DEF SolidWhite, Light, Leds
  <2>5. \A l \in Leds : led[l] = SolidWhite[l]
    BY <2>2, LightParts DEF Leds
  <2> QED
    BY <2>3, <2>4, <2>5
<1> QED
  BY <1>1, SupervisorInvariant, PTL

(* A graceful_shutdown does not end the process before the display thread  *)
(* has ended, and a thread that says it blanked the screen has done so.    *)
THEOREM ExitsAreBlank == Safety => []ExitIsBlank
<1>1. SupervisorInv => ExitIsBlank
  BY DEF SupervisorInv, DisplayJoined, ExitIsBlank, Ended
<1> QED
  BY <1>1, SupervisorInvariant, PTL
-----------------------------------------------------------------------------
(* Whom a message has reached, by where main, the OLED task and the LED    *)
(* manager are.                                                            *)
Messages ==
    /\ main \in {"startup", "aborted"} \/ oled # "none"
    /\ main \in {"registering", "select", "send_led"} \cup Stopping => manager # "none"
    /\ main \in Stopping => shutdown
    /\ main \in Stopping \ {"send_oled"} /\ oled \in {"spawned", "recv"} => oled_rx
    /\ oled \in {"recv", "join"} => display # "none"
    /\ oled = "join" => display_stop
    /\ manager # "none" => stop

(* Nobody waits for a task that was not told to stop: while main awaits    *)
(* the LED manager, the manager runs and its message and that of the boot  *)
(* blink are sent; while it awaits the OLED task, the task is over, has    *)
(* its message, or waits for a display thread whose flag is set.           *)
AwaitedIsTold ==
    /\ main = "await_led" => manager # "none" /\ shutdown /\ stop
    /\ main = "await_oled" =>
        \/ oled \in {"disabled", "done"}
        \/ oled \in {"spawned", "recv"} /\ oled_rx
        \/ oled = "join" /\ display_stop /\ display # "none"

(* Every step keeps account of the messages. *)
LEMMA TellsStep ==
    ASSUME Messages, [Next]_vars
    PROVE  Messages'
<1> USE DEF Messages
<1>1. ASSUME UNCHANGED <<led_vars, display_vars>>
      PROVE  UNCHANGED <<manager, shutdown, stop, display, display_stop>>
  BY <1>1 DEF led_vars, display_vars
<1>2. CASE StartupFails \/ Signal \/ ServerEnds
  BY <1>1, <1>2 DEF StartupFails, Signal, ServerEnds, Goto, Starting, Stopping
<1>3. CASE SpawnServers \/ RegisterSignals \/ Select
  <2>1. UNCHANGED <<manager, shutdown, stop, display, display_stop>>
    BY <1>1, <1>3 DEF SpawnServers, RegisterSignals, Select
  <2>2. CASE SpawnServers
    BY <2>1, <2>2 DEF SpawnServers, Goto, Stopping
  <2>3. CASE Select
    BY <2>1, <2>3 DEF Select, Goto, Stopping
  <2>4. CASE RegisterSignals
    <3>1. main = "registering" /\ main' \in {"select", "aborted"} /\ UNCHANGED <<oled, oled_rx>>
      BY <2>4 DEF RegisterSignals, Goto
    <3> QED
      BY <2>1, <3>1 DEF Stopping
  <2> QED
    BY <1>3, <2>2, <2>3, <2>4
<1>4. CASE SendStopBlink
  BY <1>4 DEF SendStopBlink, StopBlink, Goto, Stopping, display_vars
<1>5. CASE SpawnLed
  BY <1>5 DEF SpawnLed, SpawnLedManager, Goto, Stopping, display_vars
<1>6. CASE SendLed
  BY <1>6 DEF SendLed, ShutdownLed, Goto, Stopping, display_vars
<1>7. CASE SendOled \/ AwaitLed \/ AwaitOled \/ Exit
  BY <1>1, <1>7 DEF SendOled, AwaitLed, AwaitOled, Exit, Goto, Stopping
<1>8. CASE Oled
  <2>1. UNCHANGED <<manager, shutdown, stop, main>>
    BY <1>8 DEF Oled, OledSpawns, OledBridge, OledJoins, led_vars
  <2>2. CASE OledSpawns
    BY <2>1, <2>2 DEF OledSpawns, SpawnDisplay, display_vars
  <2>3. CASE OledBridge
    BY <2>1, <2>3 DEF OledBridge, StopDisplay
  <2>4. CASE OledJoins
    BY <2>1, <2>4 DEF OledJoins, display_vars
  <2> QED
    BY <1>8, <2>2, <2>3, <2>4 DEF Oled
<1>9. CASE Led
  <2>1. UNCHANGED <<main, oled, oled_rx, display, display_stop>> /\ LedStep
    BY <1>9 DEF Led, main_vars, display_vars
  <2>2. UNCHANGED <<shutdown, stop>> /\ (manager' = "none" <=> manager = "none")
    BY <2>1 DEF LedStep, set_led, BlinkTick, BlinkStop, ManagerCheck, ManagerTick, ManagerStop,
                PanicHook, ActivityChanges
  <2> QED
    BY <2>1, <2>2
<1>10. CASE Display
  <2>1. UNCHANGED <<main, oled, oled_rx, manager, shutdown, stop>> /\ DisplayStep
    BY <1>10 DEF Display, main_vars, led_vars
  <2>2. UNCHANGED display_stop /\ display # "none" /\ display' # "none"
    BY <2>1 DEF DisplayStep, Headless, StartDisplay, ShowFrame, BlankAndEnd, DisplayPanics
  <2> QED
    BY <2>1, <2>2
<1>11. CASE UNCHANGED vars
  BY <1>1, <1>11 DEF vars, main_vars
<1> QED
  BY <1>2, <1>3, <1>4, <1>5, <1>6, <1>7, <1>8, <1>9, <1>10, <1>11 DEF Next, Main

(* Whatever ends first and whatever fails on the way: graceful_shutdown    *)
(* never waits for a task that was not told to stop (the safety half of    *)
(* TriggerExits).                                                          *)
THEOREM AwaitedAreTold == Safety => []AwaitedIsTold
<1>1. Init => Messages
  BY DEF Init, LedInit, DisplayInit, Messages, Stopping
<1>2. Messages /\ SupervisorInv => AwaitedIsTold
  BY DEF Messages, AwaitedIsTold, Stopping, SupervisorInv, TypeOK
<1> QED
  BY <1>1, <1>2, TellsStep, SupervisorInvariant, PTL DEF Safety
-----------------------------------------------------------------------------
(* Until the farewell, and as long as no panic hook ran, the hook has      *)
(* nothing to write and the manager remembers of a LED what it shows.      *)
MemoryIsTrue ==
    /\ panics \in Nat
    /\ (panics = 0 /\ manager # "final") =>
        /\ writes["hook"] = <<>>
        /\ \A l \in Leds : last[l] # Unknown => led[l] = last[l]

(* Every step keeps the manager's memory true. *)
LEMMA MemoryStep ==
    ASSUME SupervisorInv, MemoryIsTrue, [Next]_vars
    PROVE  MemoryIsTrue'
<1>1. TypeOK /\ LedInv
  BY DEF SupervisorInv
<1>2. ASSUME UNCHANGED <<led, writes, last, panics>>, manager' # "final" => manager # "final"
      PROVE  MemoryIsTrue'
  BY <1>2 DEF MemoryIsTrue
<1>3. CASE Main \/ StartupFails \/ Signal \/ ServerEnds \/ Oled \/ Display \/ UNCHANGED vars
  <2>1. UNCHANGED <<led, writes, last, panics>> /\ (manager' # "final" => manager # "final")
    BY <1>3
    DEF Main, SpawnServers, SendStopBlink, SpawnLed, RegisterSignals, Select, SendLed, SendOled,
        AwaitLed, AwaitOled, Exit, StartupFails, Signal, ServerEnds, Oled, OledSpawns, OledBridge,
        OledJoins, Display, StopBlink, SpawnLedManager, ShutdownLed, vars, led_vars
  <2> QED
    BY <1>2, <2>1
<1>4. ASSUME NEW t \in Tasks, set_led(t)
      PROVE  MemoryIsTrue'
  <2>1. SUFFICES ASSUME panics' = 0, manager' # "final"
                 PROVE  /\ writes'["hook"] = <<>>
                        /\ \A l \in Leds : last'[l] # Unknown => led'[l] = last'[l]
    BY <1>4 DEF MemoryIsTrue, set_led
  <2>2. panics = 0 /\ manager # "final"
    BY <1>4, <2>1 DEF set_led
  <2>3. /\ writes["hook"] = <<>>
        /\ \A l \in Leds : last[l] # Unknown => led[l] = last[l]
    BY <2>2 DEF MemoryIsTrue
  <2>4. PICK l \in Leds, v \in {0, 255} :
            /\ writes[t] # <<>>
            /\ writes' = [writes EXCEPT ![t] = Tail(writes[t])]
            /\ \/ UNCHANGED <<led, last>>
               \/ /\ led' = [led EXCEPT ![l] = v]
                  /\ last' = IF t = "manager" THEN [last EXCEPT ![l] = v] ELSE last
    BY <1>1, <1>4, OneWrite DEF OnFailure
  <2>5. t # "hook" /\ writes'["hook"] = <<>>
    BY <1>1, <2>3, <2>4 DEF TypeOK, Tasks
  <2>6. CASE UNCHANGED <<led, last>>
    BY <2>3, <2>5, <2>6
  <2>7. CASE t = "manager" /\ led' = [led EXCEPT ![l] = v] /\ last' = [last EXCEPT ![l] = v]
    BY <1>1, <2>3, <2>5, <2>7 DEF TypeOK
  <2>8. CASE t = "blink" /\ last' = last
    <3>1. ~BlinkDone
      BY <2>4, <2>8 DEF BlinkDone
    <3>2. \A k \in Leds : last[k] = Unknown
      BY <1>1, <2>2, <3>1 DEF LedInv, MemoryHolds
    <3> QED
      BY <2>5, <2>8, <3>2
  <2> QED
    BY <2>4, <2>5, <2>6, <2>7, <2>8 DEF Tasks
<1>5. CASE Led
  <2>1. LedStep
    BY <1>5 DEF Led
  <2>2. CASE \E t \in Tasks : set_led(t)
    BY <1>4, <2>2
  <2>3. CASE BlinkTick \/ BlinkStop \/ ManagerTick \/ ManagerStop
    <3>1. /\ UNCHANGED <<led, last, panics>> /\ (manager' # "final" => manager # "final")
          /\ \E t \in Tasks \ {"hook"} : \E ws : writes' = [writes EXCEPT ![t] = ws]
      BY <2>3 DEF BlinkTick, BlinkStop, ManagerTick, ManagerStop, Queue, Tasks
    <3>2. writes'["hook"] = writes["hook"]
      BY <1>1, <3>1 DEF TypeOK, Tasks
    <3> QED
      BY <3>1, <3>2 DEF MemoryIsTrue
  <2>4. CASE ManagerCheck \/ ActivityChanges
    BY <1>2, <2>4 DEF ManagerCheck, ActivityChanges
  <2>5. CASE PanicHook
    <3>1. panics' = panics + 1
      BY <2>5 DEF PanicHook
    <3> QED
      BY <3>1 DEF MemoryIsTrue
  <2> QED
    BY <2>1, <2>2, <2>3, <2>4, <2>5 DEF LedStep
<1> QED
  BY <1>3, <1>5 DEF Next

(* Until the farewell, and as long as no panic hook ran, set_led_cached    *)
(* skips a write only if the LED shows the value already, however the boot *)
(* blink and failed writes went: the safety half of LightFollowsActivity.  *)
THEOREM MemoriesAreTrue == Safety => []MemoryIsTrue
<1>1. Init => MemoryIsTrue
  BY DEF Init, LedInit, MemoryIsTrue, Tasks
<1> QED
  BY <1>1, MemoryStep, SupervisorInvariant, PTL DEF Safety
=============================================================================
