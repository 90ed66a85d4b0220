------------------------------ MODULE MCSetters ------------------------------
(* An instance for TLC of DaemonSetters.  A behaviour is one of a single     *)
(* part; the others stay in an initial state.                               *)
EXTENDS DaemonSetters, TLC

CONSTANT Parts  \* the parts of this instance

VARIABLE part   \* the part of this behaviour

\* A quiet profile with offsets of its own that gives the keyboard and the fans
\* back, and a gaming profile with a curve and dynamic offsets: five of the
\* stages, three of them silent, of which the gaming profile has three.
Unset == [s \in Stage |-> NotSet]
MCProfiles == {"quiet", "gaming"}
MCManualProfiles == {"quiet"}
MCWants ==
    [quiet |-> [Unset EXCEPT !["governor"] = "powersave", !["gpu_offsets"] = "low",
                             !["gpu_clocks"] = "reset", !["keyboard"] = White,
                             !["fans"] = FansOff],
     gaming |-> [Unset EXCEPT !["gpu_clocks"] = "reset", !["keyboard"] = "red",
                              !["fans"] = "curve"]]

\* Three CPUs, of which the middle one is the SMT sibling of the first, as hybrid
\* processors number them; requests that lie below and above each other within
\* the hardware's range.
MCRequests == {[lo |-> 1, hi |-> 1], [lo |-> 2, hi |-> 2]}

\* One of the driver's start thresholds can be its lowest end threshold; 55 is as
\* far from 50 as from 60, and 0 is refused.
MCStarts == <<50, 60>>
MCEnds == <<60, 80>>

\* Clevo machines whose three zones are three LEDs, or with no LEDs at all; three
\* LEDs of the older driver, with mode files; a white keyboard; an ITE controller.
Keyboard(io, platform, class, rgb, modeFiles, ite) ==
    [io |-> io, platform |-> platform, class |-> class, rgb |-> rgb,
     modeFiles |-> modeFiles, ite |-> ite]
MCKeyboards ==
    {Keyboard("Clevo", "none", 3, TRUE, FALSE, FALSE),
     Keyboard("Clevo", "none", 0, FALSE, FALSE, FALSE),
     Keyboard("absent", "three", 0, TRUE, TRUE, FALSE),
     Keyboard("Uniwill", "none", 1, FALSE, FALSE, FALSE),
     Keyboard("Uniwill", "none", 0, FALSE, FALSE, TRUE)}
MCForeign == {[kind |-> "breathe", colors |-> <<"red">>, bright |-> "full"]}
MCBound == [edits |-> 2, asks |-> 2, faults |-> 1]

mcVars == <<part, settersVars>>

\* An inactive part has one initial state.
MCInit ==
    /\ part \in Parts
    /\ SettersInit
    /\ part # "charge" => cc4
    /\ part # "perf" => /\ machine = [interface |-> "None", profiles |-> 0,
                                      custom |-> FALSE, fullFanMode |-> FALSE]
                        /\ ~device /\ reg.mode = 1
    /\ part # "light" => keyboard.io = "absent"

MCNext ==
    /\ UNCHANGED part
    /\ \/ part = "profile" /\ ProfileStep
       \/ part = "freq" /\ FreqStep
       \/ part = "charge" /\ ChargeStep
       \/ part = "perf" /\ PerfStep
       \/ part = "light" /\ LightStep

MCSpec == MCInit /\ [][MCNext]_mcVars

MCSymmetry == Permutations(Calls) \cup Permutations(Callers)
=============================================================================
