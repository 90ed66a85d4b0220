------------------------------ MODULE MCDesktop ------------------------------
(* An instance for TLC of Desktop, with GuiApp explored once without and    *)
(* once with the tray.  A behaviour is one of a single part; the others     *)
(* stay in an initial state.                                                *)
(*                                                                          *)
(* In the part "files" no tray event waits and the sliders stay alone; in   *)
(* the part "tray" no write fails or is cut short and the user starts       *)
(* without profiles, for the product of both is out of reach.               *)
EXTENDS Desktop

VARIABLE part   \* the part of this behaviour

\* Curves of hand-written profiles, the second one out of order and with a
\* point twice.
MCFileCurves == {<< <<60, 20>>, <<70, 80>> >>,
             << <<50, 90>>, <<0, 10>>, <<50, 90>>, <<100, 40>> >>}

\* No point, one, and two or three points at one temperature.
MCSent == {<<>>, << <<40, 30>> >>,
           << <<10, 0>>, <<50, 30>>, <<50, 60>>, <<80, 90>> >>,
           << <<50, 30>>, <<50, 60>>, <<50, 45>> >>}

\* The sliders start at the longer of the two intervals.
MCDefaults == [rate \in {"cpu", "gpu", "storage", "gpu_overclock"} |-> 2]

\* Two edits to return to the rate before a failure; three failures for a rate
\* that is not saved, a daemon that starts after it and an application that forgets it.
MCBound == [edits |-> 2, faults |-> 3]

mcVars == <<part, desktopVars>>

MCInit ==
    /\ part \in {"files", "tray", "curve", "rates"}
    /\ DesktopInit
    /\ part # "files" => ghost.owned = {} /\ files.settings # Absent
    /\ part \in {"curve", "rates"} => files.legacy = Absent
    /\ part # "curve" => points = F!DefaultCurve
    /\ part # "rates" => ~home

MCNext ==
    /\ UNCHANGED part
    /\ \/ part = "files" /\ AppStep /\ tray'.events = <<>> /\ ~ghost'.dirty
       \/ /\ part = "tray" /\ AppStep
          /\ pc = "down" \/ pc' # "down"
          /\ ~ghost'.harmed
       \/ part = "curve" /\ CurveStep
       \/ part = "rates" /\ RateStep

MCSpec == MCInit /\ [][MCNext]_mcVars
=============================================================================
