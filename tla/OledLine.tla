------------------------------- MODULE OledLine ------------------------------
(***************************************************************************)
(* Renderer::draw_line of bootycall-oled/src/renderer.rs: the integer line *)
(* algorithm, one iteration of its loop per step, and set_pixel's clipping *)
(* of framebuffer.rs.                                                      *)
(***************************************************************************)
EXTENDS Integers, FiniteSets

CONSTANTS
    Width, Height,      \* the panel
    Extent              \* bound: lines between points of 0..Extent, off the panel too

ASSUME LineAssumption == {Width, Height, Extent} \subseteq Nat

VARIABLES
    from, to,           \* the end points
    x, y, err,          \* the loop's variables
    drawn,              \* the pixels set
    done

line_vars == <<from, to, x, y, err, drawn, done>>

Points == [x: 0..Extent, y: 0..Extent]

Abs(n) == IF n < 0 THEN -n ELSE n
dx == Abs(to.x - from.x)
dy == -Abs(to.y - from.y)

sx == IF from.x < to.x THEN 1 ELSE -1

sy == IF from.y < to.y THEN 1 ELSE -1

LineInit ==
    /\ from \in Points /\ to \in Points
    /\ x = from.x /\ y = from.y /\ err = dx + dy
    /\ drawn = {} /\ done = FALSE

(* A pixel off the panel is not drawn. *)
set_pixel(px, py) ==
    IF px < Width /\ py < Height THEN drawn \cup {<<px, py>>} ELSE drawn

(* Mutant: the second test sees the error after the first move. *)
AdvanceInOrder(e2) ==
    LET mx == e2 >= dy
        e3 == IF mx THEN e2 + 2 * dy ELSE e2
        my == e3 <= dx
    IN  /\ x' = IF mx THEN x + sx ELSE x
        /\ y' = IF my THEN y + sy ELSE y
        /\ err' = err + (IF mx THEN dy ELSE 0) + (IF my THEN dx ELSE 0)

(* Both moves are decided on the same doubled error. *)
Advance(e2) ==
    LET mx == e2 >= dy
        my == e2 <= dx
    IN  /\ x' = IF mx THEN x + sx ELSE x
        /\ y' = IF my THEN y + sy ELSE y
        /\ err' = err + (IF mx THEN dy ELSE 0) + (IF my THEN dx ELSE 0)

Step ==
    /\ ~done
    /\ drawn' = set_pixel(x, y)
    /\ IF x = to.x /\ y = to.y
       THEN done' = TRUE /\ UNCHANGED <<x, y, err>>
       ELSE Advance(2 * err) /\ UNCHANGED done
    /\ UNCHANGED <<from, to>>

LineNext == Step

LineSpec == LineInit /\ [][LineNext]_line_vars /\ WF_line_vars(Step)
-----------------------------------------------------------------------------
Between(n, a, b) == (a <= n /\ n <= b) \/ (b <= n /\ n <= a)

(* The position never leaves the rectangle of the two end points, so that  *)
(* it cannot step past the end point, which is the loop's only exit.       *)
StaysBetween == Between(x, from.x, to.x) /\ Between(y, from.y, to.y)

(* No drawn pixel is more than half a pixel off the true line. *)
OnTheLine ==
    LET longer == IF dx >= -dy THEN dx ELSE -dy
    IN  \A p \in drawn :
            2 * Abs((to.x - from.x) * (p[2] - from.y) - (to.y - from.y) * (p[1] - from.x))
                <= longer

(* A line between two points of the panel has both and no gap: one pixel   *)
(* for every step along its longer side.                                   *)
LineWhole ==
    (done /\ \A p \in {from, to} : p.x < Width /\ p.y < Height) =>
        /\ {<<from.x, from.y>>, <<to.x, to.y>>} \subseteq drawn
        /\ Cardinality(drawn) = 1 + (IF dx >= -dy THEN dx ELSE -dy)

(* A line is drawn right: straight, without a gap, and the loop is always  *)
(* on its way to the point where it ends.                                  *)
LineIsExact == StaysBetween /\ OnTheLine /\ LineWhole
=============================================================================
