-------------------------- MODULE ScreensaverBounce -------------------------
(***************************************************************************)
(* step_bounce of bootycall-oled/src/lib.rs: the screensaver's text moves  *)
(* one pixel per frame inside a box and is reflected at its walls.         *)
(***************************************************************************)
EXTENDS Integers

CONSTANTS MinX, MaxX, MinY, MaxY        \* the BounceBox

ASSUME BoxAssumption ==
    /\ {MinX, MaxX, MinY, MaxY} \subseteq Nat
    /\ MinX < MaxX /\ MinY < MaxY

VARIABLES
    pos                 \* ss_x, ss_y, ss_dx, ss_dy

Magnitude(d) == IF d < 0 THEN -d ELSE d

(* Mutant: the wall is tested before the move. *)
ReflectLate(v, d, min, max) ==
    IF v > max THEN <<max, -Magnitude(d)>>
    ELSE IF v < min THEN <<min, Magnitude(d)>>
    ELSE <<v + d, d>>

(* Mutant: the text is clamped and not turned around. *)
ReflectKeeps(v, d, min, max) ==
    IF v + d >= max THEN <<max, d>>
    ELSE IF v + d <= min THEN <<min, d>>
    ELSE <<v + d, d>>

(* Move first, then clamp and turn around. *)
Reflect(v, d, min, max) ==
    IF v + d >= max THEN <<max, -Magnitude(d)>>
    ELSE IF v + d <= min THEN <<min, Magnitude(d)>>
    ELSE <<v + d, d>>

step_bounce(p) ==
    LET h == Reflect(p.x, p.dx, MinX, MaxX)
        v == Reflect(p.y, p.dy, MinY, MaxY)
    IN  [x |-> h[1], y |-> v[1], dx |-> h[2], dy |-> v[2]]

BounceInit == pos = [x |-> MinX, y |-> MinY, dx |-> 1, dy |-> 1]

Bounce == pos' = step_bounce(pos)

BounceSpec == BounceInit /\ [][Bounce]_pos /\ WF_pos(Bounce)
-----------------------------------------------------------------------------
(* The text is inside the box at every point where it is drawn, and moves  *)
(* by one pixel each way (BUG-5: x was -1 before the cast to usize).       *)
InBox == pos \in [x: MinX..MaxX, y: MinY..MaxY, dx: {-1, 1}, dy: {-1, 1}]
=============================================================================
