------------------------------ MODULE Desktop ------------------------------
(* Three parts of the desktop application: its files, profiles page and     *)
(* tray (GuiApp), its fan curves (FanCurve) and its poll rates (PollRates).  *)
(* They share no state in the models, and their steps interleave.           *)
EXTENDS GuiApp

CONSTANTS
    Temps, Speeds, FileCurves, Sent, MaxPoints, MaxEdits,    \* of FanCurve
    Intervals, Defaults, Empty, Bound                        \* of PollRates

VARIABLES
    points, followed, edits,
    rates, disk, components, commands, sleep, calls, home, stored, jobs, trail, left

F == INSTANCE FanCurve

R == INSTANCE PollRates WITH ghost <- trail

ASSUME DesktopPartsAssumption == F!FanCurveConstants /\ R!RateConstants

curveVars == <<points, followed, edits>>
rateVars == <<rates, disk, components, commands, sleep, calls, home, stored, jobs, trail,
              left>>
desktopVars == <<vars, curveVars, rateVars>>

DesktopInit == Init /\ F!Init /\ R!Init

AppStep == Next /\ UNCHANGED <<curveVars, rateVars>>
CurveStep == F!Next /\ UNCHANGED <<vars, rateVars>>
RateStep == R!Next /\ UNCHANGED <<vars, curveVars>>

DesktopNext == AppStep \/ CurveStep \/ RateStep

DesktopSpec == DesktopInit /\ [][DesktopNext]_desktopVars

-----------------------------------------------------------------------------
(* Properties *)

\* The type invariants of the three modules.
TypesOK == TypeOK /\ F!TypeOK /\ R!TypeOK

\* What the daemon makes of a curve, and what a new point does to it (FanCurve).
CurveIsFollowed == F!CurveIsFollowed
AddKeepsCurve == F!AddKeepsCurve

\* The sliders' rates are the ones in force (PollRates).
RatesInForce == R!RatesInForce
=============================================================================
