-------------------------------- MODULE Grid --------------------------------
(***************************************************************************)
(* The geometry of a board (core/src/grid.ts): a widget is a rectangle of  *)
(* cells, the grid has a fixed number of columns and no last row.  What a  *)
(* drag asks for is clamped into the grid; when it would overlap another   *)
(* widget, the rows are scanned from the top for a free slot.              *)
(* Pixels, snapping and the ghost's rendering are left out: a gesture is   *)
(* the rectangle it asks for.                                              *)
(***************************************************************************)
EXTENDS Integers, FiniteSetsExt

CONSTANT Columns        \* DASHBOARD_GRID_COLUMNS (12)

ASSUME ColumnsAssumption == Columns \in Nat \ {0}

Rect(x, y, w, h) == [x |-> x, y |-> y, w |-> w, h |-> h]

\* Any rectangle a pointer or a key press may ask for.
Rects == [x : Int, y : Int, w : Int, h : Int]

InColumns(r) ==
  /\ r \in [x : Nat, y : Nat, w : Nat \ {0}, h : Nat \ {0}]
  /\ r.x + r.w <= Columns

\* (lo <= hi wherever it is used)
Clamp(v, lo, hi) == IF v < lo THEN lo ELSE IF v > hi THEN hi ELSE v

AtLeast(v, lo) == IF v < lo THEN lo ELSE v

ClampRect(r) ==
  LET w == Clamp(r.w, 1, Columns)
  IN  Rect(Clamp(r.x, 0, Columns - w), AtLeast(r.y, 0), w, AtLeast(r.h, 1))

RectsOverlap(a, b) ==
  /\ a.x < b.x + b.w /\ b.x < a.x + a.w
  /\ a.y < b.y + b.h /\ b.y < a.y + a.h

\* `others' are the rectangles of every widget of the tab but the dragged one.
Collides(r, others) == \E o \in others : RectsOverlap(r, o)

\* nearestFreeSlot scans the rows 0..maxY, one band below everything placed.
LastRow(r, others) ==
  AtLeast(Max({0} \cup {o.y + o.h : o \in others}), r.y) + r.h

Slots(r, others, row) ==
  {s \in {Rect(x, y, r.w, r.h) : x \in 0 .. Columns - r.w, y \in 0 .. row} :
     ~ Collides(s, others)}

\* The row after which the scan stops: the first at or below the requested row
\* by which some slot was found.
StopRow(r, others) ==
  CHOOSE row \in r.y .. LastRow(r, others) :
    /\ row < LastRow(r, others) => Slots(r, others, row) # {}
    /\ \A y \in r.y .. row - 1 : Slots(r, others, y) = {}

Distance(a, b) ==
  LET Gap(u, v) == IF u < v THEN v - u ELSE u - v
  IN  Gap(a.x, b.x) + Gap(a.y, b.y)

\* The order in which the scan prefers slots: nearer, then higher, then further left.
Before(r, s, t) ==
  \/ Distance(s, r) < Distance(t, r)
  \/ Distance(s, r) = Distance(t, r) /\ s.y < t.y
  \/ Distance(s, r) = Distance(t, r) /\ s.y = t.y /\ s.x <= t.x

NearestFreeSlot(r, others) ==
  LET found == Slots(r, others, StopRow(r, others))
  IN  CHOOSE s \in found : \A t \in found : Before(r, s, t)

\* (mutant) The rectangle is tested before it is clamped.
ResolveDropUnclamped(asked, others) ==
  LET r == ClampRect(asked)
  IN  IF Collides(asked, others) THEN NearestFreeSlot(r, others) ELSE r

\* Where a dropped or nudged widget lands.
ResolveDrop(asked, others) ==
  LET r == ClampRect(asked)
  IN  IF Collides(r, others) THEN NearestFreeSlot(r, others) ELSE r
=============================================================================
