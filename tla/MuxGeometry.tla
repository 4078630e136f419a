---------------------------- MODULE MuxGeometry ----------------------------
(***************************************************************************)
(* Rectangle arithmetic of librdpmux (lib/src/rdpmux.c): how the dirty     *)
(* bounding box of a display update is opened, widened, aligned and cut to *)
(* the surface.  Boxes are half open: (x1, y1) is inside, (x2, y2) is not. *)
(***************************************************************************)
EXTENDS Integers

CONSTANT Align      \* the alignment of the bounding box, 16 in the code

ASSUME AlignAssumption == Align \in Nat \ {0}

Boxes == [x1 : Nat, y1 : Nat, x2 : Nat, y2 : Nat]

MIN(a, b) == IF a < b THEN a ELSE b

MAX(a, b) == IF a > b THEN a ELSE b

(* The corners mux_display_update stores for a region (x, y) w x h.        *)
RegionBox(x, y, w, h) == [x1 |-> x, y1 |-> y, x2 |-> x + w, y2 |-> y + h]

(* The box mux_expand_rect leaves after absorbing the region r.            *)
mux_expand_rect(u, r) ==
    [x1 |-> MIN(u.x1, r.x1), y1 |-> MIN(u.y1, r.y1),
     x2 |-> MAX(u.x2, r.x2), y2 |-> MAX(u.y2, r.y2)]

(* Mutant: the rounding-up formula with its sign turned.                   *)
AlignDownTooFar(v) == v - (Align - (v % Align))

AlignDown(v) == v - (v % Align)

AlignUp(v) == IF v % Align = 0 THEN v ELSE v + Align - (v % Align)

(* mux_display_refresh rounds the box outwards, then cuts its far corner   *)
(* (and only that one) to the current surface.  The mux_expand_rect call   *)
(* that follows in the code absorbs the box into itself.                   *)
RefreshBox(u, s) ==
    LET b == [x1 |-> AlignDown(u.x1), y1 |-> AlignDown(u.y1),
              x2 |-> MIN(AlignUp(u.x2), s.w), y2 |-> MIN(AlignUp(u.y2), s.h)]
    IN  mux_expand_rect(b, b)

(* The pixels of a box, of a whole surface, and of the full-width strip of *)
(* lines that mux_display_refresh hands to mux_copy_pixels.                *)
InBox(p, u) == /\ u.x1 <= p[1] /\ p[1] < u.x2
               /\ u.y1 <= p[2] /\ p[2] < u.y2

Pixels(s) == (0 .. s.w - 1) \X (0 .. s.h - 1)

InStrip(p, u) == u.y1 <= p[2] /\ p[2] < u.y2
=============================================================================
