------------------------------ MODULE OledLayout -----------------------------
(***************************************************************************)
(* The arithmetic of the display in bootycall-oled: the lookup table from  *)
(* grey levels to the panel's pixels and its scaling by brightness         *)
(* (framebuffer.rs, mode_brightness), and the placement of text (align_x,  *)
(* align_y).  A state is one input; every input of the sets below is one.  *)
(***************************************************************************)
EXTENDS Integers

CONSTANTS
    USize,              \* bound: stands for 2^64, where usize wraps
    Brightnesses,       \* configured brightnesses, within 0..255
    TextWidths, TextHeights

ASSUME LayoutAssumption ==
    /\ Brightnesses \subseteq 0..255
    /\ TextWidths \cup TextHeights \subseteq Nat
    /\ USize \in Nat \ 0..1000

VARIABLES
    base, gray,         \* the configured brightness, a level of the buffer
    text_w, text_h      \* a text's size in pixels

layout_vars == <<base, gray, text_w, text_h>>

(* Every level at every brightness, and every size of a text. *)
LayoutInit ==
    \/ base \in Brightnesses /\ gray \in 0..255 /\ text_w = 0 /\ text_h = 0
    \/ base = 0 /\ gray = 0 /\ text_w \in TextWidths /\ text_h \in TextHeights

LayoutSpec == LayoutInit /\ [][FALSE]_layout_vars
-----------------------------------------------------------------------------
WIDTH == 160
VISIBLE_Y_START == 28
VISIBLE_HEIGHT == 32
TEXT_EDGE_MARGIN == 5

(* mode_brightness in screensaver mode: 40 percent, in 16 bits. *)
dimmed(b) == ((b * 40) % 65536) \div 100

(* Five, six and five bits of the level. *)
rgb565(scaled) ==
    ((scaled \div 8) % 32) * 2048 + ((scaled \div 4) % 64) * 32 + ((scaled \div 8) % 32)

Swap(v) == (v % 256) * 256 + (v \div 256)

(* The entry of build_lut(brightness) for a grey level. *)
build_lut(b, g) == Swap(rgb565((g * b) \div 255) % 65536)

(* The two bytes that pack_buffer puts out, read as the panel does. *)
Pixel(b, g) ==
    LET v == build_lut(b, g)
        low == v % 256
        high == v \div 256
    IN  low * 256 + high

Green(p) == (p \div 32) % 64
Red(p) == p \div 2048
Blue(p) == p % 32
-----------------------------------------------------------------------------
(* usize subtraction of a release build. *)
Minus(a, b) == (a - b) % USize

(* Mutant: a text as wide as the panel is given the margin as well. *)
align_x_late(horiz, w) ==
    CASE horiz = "center" -> IF w < WIDTH THEN (WIDTH - w) \div 2 ELSE 0
      [] horiz = "right" -> IF w <= WIDTH THEN Minus(WIDTH - w, TEXT_EDGE_MARGIN) ELSE 0
      [] horiz = "left" -> TEXT_EDGE_MARGIN

align_x(horiz, w) ==
    CASE horiz = "center" -> IF w < WIDTH THEN (WIDTH - w) \div 2 ELSE 0
      [] horiz = "right" -> IF w < WIDTH THEN Minus(WIDTH - w, TEXT_EDGE_MARGIN) ELSE 0
      [] horiz = "left" -> TEXT_EDGE_MARGIN

align_y(vert, h) ==
    VISIBLE_Y_START +
        CASE vert = "top" \/ h >= VISIBLE_HEIGHT -> 0
          [] vert = "bottom" /\ h < VISIBLE_HEIGHT -> VISIBLE_HEIGHT - h
          [] vert = "middle" /\ h < VISIBLE_HEIGHT -> (VISIBLE_HEIGHT - h) \div 2
-----------------------------------------------------------------------------
(* At every configured brightness a lighter grey is never a darker pixel,  *)
(* the three channels agree, and black is dark.                            *)
LutOrdered ==
    LET p == Pixel(base, gray)
        q == Pixel(base, gray + 1)
    IN  /\ gray = 0 => p = 0
        /\ Red(p) = Blue(p) /\ Red(p) = Green(p) \div 2
        /\ gray < 255 => Green(p) <= Green(q) /\ Red(p) <= Red(q)

(* The screensaver never makes a pixel lighter, and at brightness 10 and   *)
(* above white text can still be seen in it.                               *)
DimIsDarker ==
    /\ Green(Pixel(dimmed(base), gray)) <= Green(Pixel(base, gray))
    /\ base >= 10 /\ gray = 255 => Pixel(dimmed(base), gray) # 0

Fits(horiz, w) == align_x(horiz, w) + w <= WIDTH

(* Which texts no wider than the panel are whole on it: every centred one; *)
(* at the left those with room for the margin; at the right those too, and *)
(* one as wide as the panel.  A right-aligned text of 156 to 159 pixels is *)
(* not: the margin is subtracted from less than it, and usize wraps.       *)
TextOnPanel ==
    text_w <= WIDTH =>
        /\ Fits("center", text_w)
        /\ Fits("left", text_w) <=> text_w <= WIDTH - TEXT_EDGE_MARGIN
        /\ Fits("right", text_w) <=>
                text_w \notin (WIDTH - TEXT_EDGE_MARGIN + 1)..(WIDTH - 1)

(* A text that is not higher than the visible rows is within them. *)
TextInRows ==
    \A v \in {"top", "middle", "bottom"} :
        text_h <= VISIBLE_HEIGHT =>
            /\ align_y(v, text_h) >= VISIBLE_Y_START
            /\ align_y(v, text_h) + text_h <= VISIBLE_Y_START + VISIBLE_HEIGHT

(* Brightness comes out right for every grey level and every configured    *)
(* brightness, in 16 bits; a text of any size that fits is placed whole on *)
(* the panel, except right-aligned ones of 156 to 159 pixels and left-     *)
(* aligned ones of 156 to 160.                                             *)
DisplayArithmetic == LutOrdered /\ DimIsDarker /\ TextOnPanel /\ TextInRows
=============================================================================
