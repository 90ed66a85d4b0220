------------------------------ MODULE FanCurve ------------------------------
(* One fan curve: the editor of the tuning page, the check of its Save      *)
(* button and the interpolation of the daemon's fan_control job.            *)
(*                                                                          *)
(* Points are pairs <<temperature, speed>> in percent and degrees up to     *)
(* 100.  f32 arithmetic is exact here: on the ranges of u8 it errs by less  *)
(* than what rounding to a whole percent hides, except at exact halves.     *)
EXTENDS Naturals, Sequences, FiniteSets, SequencesExt

CONSTANTS
    Temps,      \* temperatures that the user moves points to
    Speeds,     \* speeds that the user moves points to
    FileCurves, \* curves of profiles read from a file
    Sent,       \* curves that other D-Bus clients send
    MaxPoints,  \* 16 in the code
    MaxEdits    \* bound on what the user does

VARIABLES
    points,     \* FanCurveEditor's curve.points
    followed,   \* the points the daemon works with, and whether Save checked them
    edits       \* number of edits

vars == <<points, followed, edits>>

Full == 100
Curves == Seq((0 .. Full) \X (0 .. Full))

\* The editor's curves have two points or more; what a client sends need not.
FanCurveConstants ==
    /\ Temps \subseteq 0 .. Full /\ Speeds \subseteq 0 .. Full
    /\ MaxPoints \in Nat /\ MaxPoints >= 4 /\ MaxEdits \in Nat
    /\ \A curve \in FileCurves : curve \in Curves /\ Len(curve) \in 2 .. MaxPoints
    /\ \A curve \in Sent : curve \in Curves

DefaultCurve == <<<<0, 0>>, <<50, 50>>, <<70, 75>>, <<85, 100>>>>

Temp(p) == p[1]
Speed(p) == p[2]

\* sort_by_key(|p| p.0), which is stable: a point comes after the ones with a
\* lower temperature and those of its own temperature that were before it.
Before(curve, i, j) ==
    \/ Temp(curve[i]) < Temp(curve[j])
    \/ Temp(curve[i]) = Temp(curve[j]) /\ i < j

Rank(curve, j) == Cardinality({i \in DOMAIN curve : Before(curve, i, j)}) + 1

Sorted(curve) ==
    [k \in DOMAIN curve |-> curve[CHOOSE j \in DOMAIN curve : Rank(curve, j) = k]]

Diff(a, b) == IF a > b THEN a - b ELSE b - a

\* The value between p and q at temperature t is Part / (Temp(q) - Temp(p)).
Part(p, q, t) ==
    LET rise == (t - Temp(p)) * Diff(Speed(p), Speed(q))
        base == Speed(p) * (Temp(q) - Temp(p)) IN
    IF Speed(q) >= Speed(p) THEN base + rise ELSE base - rise

Value(p, q, t, rounded) ==
    LET run == Temp(q) - Temp(p) IN
    (2 * Part(p, q, t) + IF rounded THEN run ELSE 0) \div (2 * run)

\* The first segment that holds t, or 0.
Segment(sorted, t) ==
    LET holds == {i \in 1 .. (Len(sorted) - 1) :
                     Temp(sorted[i]) <= t /\ t <= Temp(sorted[i + 1])} IN
    IF holds = {} THEN 0 ELSE CHOOSE i \in holds : \A j \in holds : i <= j

\* What both interpolations have in common: the ends, the fallback of 50, and
\* 0 / 0, which is no percentage, on a segment between equal temperatures.
NaN == Full + 1
Between(sorted, t, rounded) ==
    LET i == Segment(sorted, t) IN
    IF sorted = <<>> THEN 50
    ELSE IF t <= Temp(sorted[1]) THEN Speed(sorted[1])
    ELSE IF t >= Temp(Last(sorted)) THEN Speed(Last(sorted))
    ELSE IF i = 0 THEN 50
    ELSE IF Temp(sorted[i]) = Temp(sorted[i + 1]) THEN NaN
    ELSE Value(sorted[i], sorted[i + 1], t, rounded)

\* main.rs calculate_fan_speed, as a function of the temperature, rounds ...
CalculateFanSpeed(curve) ==
    LET sorted == Sorted(curve) IN [t \in 0 .. Full |-> Between(sorted, t, TRUE)]

\* Mutant: the temperatures above the last point are forgotten.
InterpolateOpenEnd(curve, t) ==
    LET sorted == Sorted(curve) IN
    IF t > Temp(Last(sorted)) THEN 50 ELSE Between(sorted, t, FALSE)

\* ... and the editor's interpolate_speed truncates.
InterpolateSpeed(curve, t) == Between(Sorted(curve), t, FALSE)

-----------------------------------------------------------------------------
(* The editor *)

Edit == edits < MaxEdits /\ edits' = edits + 1 /\ UNCHANGED followed

\* The sliders of a point.
MovePoint(i, t, s) ==
    /\ Edit
    /\ t = Temp(points[i]) \/ s = Speed(points[i])
    /\ points' = [points EXCEPT ![i] = <<t, s>>]

Near(p, t, s) ==
    Diff(Temp(p), t) * Diff(Temp(p), t) + Diff(Speed(p), s) * Diff(Speed(p), s) < 25

\* A frame of a drag with the pointer at t, s.  The editor is a new one every
\* frame, so each frame picks the first point within 5 of the pointer anew.
Drag(t, s) ==
    LET i == SelectInSeq(points, LAMBDA p : Near(p, t, s)) IN
    /\ Edit
    /\ i # 0
    /\ points' = [points EXCEPT ![i] = <<t, s>>]

\* Mutant: the last two points have a delete button.
DeletableAny == Len(points) > 1

Deletable == Len(points) > 2

DeletePoint(i) ==
    /\ Edit
    /\ Deletable
    /\ points' = RemoveAt(points, i)

\* Where add_point puts the new point: in the middle of the largest gap between
\* points, unless what lies before the first or after the last is larger.
\* The two ends are not compared with each other.
NewTemp(sorted) ==
    LET gap(i) == Temp(sorted[i + 1]) - Temp(sorted[i])
        gaps == {i \in 1 .. (Len(sorted) - 1) : gap(i) > 0}
        best == IF gaps = {} THEN 0
                ELSE CHOOSE i \in gaps : \A j \in gaps :
                        gap(i) > gap(j) \/ (gap(i) = gap(j) /\ i <= j)
        size == IF best = 0 THEN 0 ELSE gap(best) IN
    IF Full - Temp(Last(sorted)) > size
      THEN Temp(Last(sorted)) + (Full - Temp(Last(sorted))) \div 2
    ELSE IF Temp(sorted[1]) > size THEN Temp(sorted[1]) \div 2
    ELSE IF best = 0 THEN 50 ELSE Temp(sorted[best]) + size \div 2

AddPoint ==
    LET t == NewTemp(Sorted(points)) IN
    /\ Edit
    /\ Len(points) < MaxPoints
    /\ points' = Append(points, IF points = <<>> THEN <<50, 50>>
                                ELSE <<t, InterpolateSpeed(points, t)>>)

Resort == Edit /\ points' = Sorted(points)

ResetToDefault == Edit /\ points' = DefaultCurve

-----------------------------------------------------------------------------
(* Save and the daemon *)

\* Mutant: equal temperatures are compared with the next point only.
ValidNeighbours(curve) ==
    \A i \in 1 .. (Len(curve) - 1) :
        Temp(curve[i]) = Temp(curve[i + 1]) => Speed(curve[i]) = Speed(curve[i + 1])

\* Save refuses a curve with two speeds for one temperature.
Valid(curve) ==
    \A i, j \in DOMAIN curve :
        Temp(curve[i]) = Temp(curve[j]) => Speed(curve[i]) = Speed(curve[j])

Save ==
    /\ Valid(points)
    /\ followed' = [points |-> points, checked |-> TRUE]
    /\ UNCHANGED <<points, edits>>

\* ApplyProfile of another client checks nothing.
ApplyProfile(curve) ==
    /\ followed' = [points |-> curve, checked |-> FALSE]
    /\ UNCHANGED <<points, edits>>

-----------------------------------------------------------------------------

\* draw_fan_tuning makes the curves that a profile lacks.
Init ==
    /\ points \in {DefaultCurve} \cup FileCurves
    /\ followed = [points |-> <<>>, checked |-> FALSE]
    /\ edits = 0

Next ==
    \/ \E i \in DOMAIN points, t \in Temps : MovePoint(i, t, Speed(points[i]))
    \/ \E i \in DOMAIN points, s \in Speeds : MovePoint(i, Temp(points[i]), s)
    \/ \E t \in Temps, s \in Speeds : Drag(t, s)
    \/ \E i \in DOMAIN points : DeletePoint(i)
    \/ AddPoint \/ Resort \/ ResetToDefault
    \/ Save
    \/ \E curve \in Sent : ApplyProfile(curve)

Spec == Init /\ [][Next]_vars

-----------------------------------------------------------------------------
(* Properties *)

TypeOK ==
    /\ \A i \in DOMAIN points : points[i] \in (0 .. Full) \X (0 .. Full)
    /\ Len(points) \in 2 .. MaxPoints
    /\ edits \in 0 .. MaxEdits

\* The daemon gives every point of a saved curve its speed, whatever the order
\* and number of the points; and of any curve that a client sends it makes, at
\* every temperature, a speed between those of two of its points: neither 0/0
\* nor the fallback.
CurveIsFollowed ==
    LET curve == followed.points
        fan == CalculateFanSpeed(curve)
        speeds == {Speed(curve[i]) : i \in DOMAIN curve} IN
    /\ followed.checked =>
          \A i \in DOMAIN curve : fan[Temp(curve[i])] = Speed(curve[i])
    /\ curve # <<>> =>
          \A t \in 0 .. Full :
             (\E s \in speeds : s <= fan[t]) /\ (\E s \in speeds : fan[t] <= s)

\* A new point does not change what the fan does by more than the percent lost
\* in truncation: it lies on the curve.
AddKeepsCurve ==
    [][AddPoint /\ Valid(points) =>
          LET fan == CalculateFanSpeed(points)
              new == CalculateFanSpeed(points') IN
          \A t \in 0 .. Full : Diff(fan[t], new[t]) <= 1]_vars
=============================================================================
