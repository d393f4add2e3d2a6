----------------------------- MODULE ArchRoutes -----------------------------
(***************************************************************************)
(* The course of a connector (arch_layout.py, _route_edge): straight, an   *)
(* elbow, out of a side, or around, whichever comes first in the code's    *)
(* order and cuts through no other node.  Labels and badges are left out.  *)
(***************************************************************************)
EXTENDS Integers, Sequences

(* In hundredths of a percent; fractions of one are dropped. *)
Full == 10000
RowGutter == 600
ColGutter == 400
Tolerance == 5
Clearance == 50

Larger(a, b) == IF a > b THEN a ELSE b
Smaller(a, b) == IF a < b THEN a ELSE b
Distance(a, b) == IF a > b THEN a - b ELSE b - a

Right(box) == box.x + box.w
Bottom(box) == box.y + box.h
MidX(box) == box.x + box.w \div 2
MidY(box) == box.y + box.h \div 2

Overlap(a, b) == a.x < Right(b) /\ b.x < Right(a) /\ a.y < Bottom(b) /\ b.y < Bottom(a)

Aligned(source, target) == Distance(MidX(source), MidX(target)) < Tolerance

SharesBand(source, target) == Smaller(Bottom(source), Bottom(target)) > Larger(source.y, target.y)

Across(from, to, y) == [axis |-> "h", x |-> Smaller(from, to), y |-> y, length |-> Distance(from, to)]
Along(x, from, to) == [axis |-> "v", x |-> x, y |-> from, length |-> Larger(0, to - from)]
UpOrDown(x, from, to) == Along(x, Smaller(from, to), Larger(from, to))

Course(segments, direction, x, y) == [segments |-> segments, tip |-> direction, x |-> x, y |-> y]

(* One straight line at the middle of the heights both have; nothing is left of it between two boxes that touch. *)
SameRow(source, target) ==
  LET y == (Larger(source.y, target.y) + Smaller(Bottom(source), Bottom(target))) \div 2
      rightward == MidX(source) <= MidX(target)
      from == IF rightward THEN Right(source) ELSE Right(target)
      to == IF rightward THEN target.x ELSE source.x
  IN  Course(IF to > from THEN <<Across(from, to, y)>> ELSE <<>>,
             IF rightward THEN "r" ELSE "l", IF rightward THEN to ELSE from, y)

(* A straight line down or up, or an elbow through the middle of the gap. *)
Elbow(source, target) ==
  LET above == MidY(source) <= MidY(target)
      from == IF above THEN Bottom(source) ELSE Bottom(target)
      to == IF above THEN target.y ELSE source.y
      rail == (from + to) \div 2
      upper == Along(IF above THEN MidX(source) ELSE MidX(target), from, rail)
      lower == Along(IF above THEN MidX(target) ELSE MidX(source), rail, to)
      rung == Across(MidX(source), MidX(target), rail)
  IN  Course(IF Aligned(source, target) THEN <<Along(MidX(source), from, to)>>
             ELSE IF above THEN <<upper, rung, lower>> ELSE <<lower, rung, upper>>,
             IF above THEN "d" ELSE "u", MidX(target), IF above THEN target.y ELSE Bottom(target))

(* Into the side of target that faces a channel, along it from the height y. *)
EntersFrom(channel, target) == IF channel >= MidX(target) THEN "l" ELSE "r"
NearSide(channel, target) == IF channel >= MidX(target) THEN Right(target) ELSE target.x
ViaChannel(channel, y, target) == <<UpOrDown(channel, y, MidY(target)), Across(channel, NearSide(channel, target), MidY(target))>>

RightChannel(box) == Right(box) + ColGutter \div 2
LeftChannel(box) == box.x - ColGutter \div 2

SideExit(source, target, channel) ==
  Course(<<Across(IF channel > Right(source) THEN Right(source) ELSE source.x, channel, MidY(source))>> \o ViaChannel(channel, MidY(source), target),
         EntersFrom(channel, target), NearSide(channel, target), MidY(target))

(* Between a box and a rail below or above it. *)
Leg(box, rail) == IF rail >= Bottom(box) THEN Along(MidX(box), Bottom(box), rail) ELSE Along(MidX(box), rail, box.y)

Detour(source, target, rail) ==
  Course(<<Leg(source, rail), Across(MidX(source), MidX(target), rail), Leg(target, rail)>>,
         IF rail >= Bottom(target) THEN "u" ELSE "d", MidX(target), IF rail >= Bottom(target) THEN Bottom(target) ELSE target.y)

SideDetour(source, target, channel, rail) ==
  Course(<<Leg(source, rail), Across(MidX(source), channel, rail)>> \o ViaChannel(channel, rail, target),
         EntersFrom(channel, target), NearSide(channel, target), MidY(target))

Thick(segment) ==
  IF segment.axis = "h"
  THEN [x |-> segment.x, y |-> segment.y - Clearance, w |-> segment.length, h |-> 2 * Clearance]
  ELSE [x |-> segment.x - Clearance, y |-> segment.y, w |-> 2 * Clearance, h |-> segment.length]

Crosses(course, boxes) ==
  \E i \in DOMAIN course.segments, box \in boxes : Overlap(Thick(course.segments[i]), box)

Least(numbers) == CHOOSE n \in numbers : \A m \in numbers : n <= m

FirstClear(courses, others, fallback) ==
  LET clear == {i \in DOMAIN courses : ~Crosses(courses[i], others)}
  IN  IF clear = {} THEN fallback ELSE courses[Least(clear)]

InDiagram(channel) == 0 <= channel /\ channel <= Full

RailBelow(row) == Smaller(row[1] + row[2] + RowGutter \div 2, Full - 100)
RailAbove(row) == Larger(row[1] - RowGutter \div 2, 100)

SideDetours(source, target, channel, row) ==
  IF InDiagram(channel)
  THEN <<SideDetour(source, target, channel, RailBelow(row)), SideDetour(source, target, channel, RailAbove(row))>> ELSE <<>>

(* Below the row, above it, else by the gutters beside target; below if nothing is clear. *)
BestDetour(source, target, row, others) ==
  LET below == Detour(source, target, RailBelow(row))
      above == Detour(source, target, RailAbove(row))
  IN  FirstClear(<<below, above>> \o SideDetours(source, target, RightChannel(target), row)
                   \o SideDetours(source, target, LeftChannel(target), row), others, below)

ExitBy(source, target, channel) == IF InDiagram(channel) THEN <<SideExit(source, target, channel)>> ELSE <<>>

(* Out of a side, the one towards target first, when target is farther across than down. *)
SideExits(source, target) ==
  LET right == ExitBy(source, target, RightChannel(source))
      left == ExitBy(source, target, LeftChannel(source))
  IN  IF Aligned(source, target) \/ Distance(MidX(source), MidX(target)) <= Distance(MidY(source), MidY(target)) THEN <<>>
      ELSE IF MidX(source) <= MidX(target) THEN right \o left ELSE left \o right

(* Mutant: a straight line is taken whatever is in between. *)
RouteStraight(source, target, sameRow, row, others) ==
  IF SharesBand(source, target) THEN SameRow(source, target)
  ELSE FirstClear(Append(SideExits(source, target), Elbow(source, target)), others, BestDetour(source, target, row, others))

(* row: top and height of source's row; others: the boxes of all other nodes. *)
Route(source, target, sameRow, row, others) ==
  LET around == BestDetour(source, target, row, others)
  IN  CASE SharesBand(source, target) -> FirstClear(<<SameRow(source, target)>>, others, around)
        [] ~SharesBand(source, target) /\ sameRow /\ ~Aligned(source, target) -> around
        [] OTHER -> FirstClear(Append(SideExits(source, target), Elbow(source, target)), others, around)
=============================================================================
