-------------------------------- MODULE MCGpu --------------------------------
(* An instance for TLC of DaemonGpu.  A behaviour is one of a single part;  *)
(* the other two stay in an initial state.                                  *)
(*                                                                          *)
(* Ticks are of ten seconds: the autosuspend delay is 20 s and a snapshot   *)
(* stays fresh for 30 s.  The machine has one of the four counters of       *)
(* Telemetry, which share nothing.                                          *)
EXTENDS DaemonGpu

CONSTANTS c1, r1, r2

VARIABLE part   \* the part of this behaviour

MCAutosuspend == 2
MCTtl == 3

GpuProfile(advanced, manual, core) ==
    [advanced |-> advanced, manual |-> manual, core |-> core, mem |-> 0]

MCProfiles == {GpuProfile(TRUE, TRUE, 0), GpuProfile(FALSE, TRUE, 0),
               GpuProfile(FALSE, TRUE, 1), GpuProfile(FALSE, FALSE, 0)}

mcVars == <<part, gpuVars>>

\* An inactive part has one initial state.
MCInit ==
    /\ part \in {"detection", "overclock", "telemetry"}
    /\ GpuInit
    /\ part # "detection" => gpu = "idle" /\ nvml /\ driver
    /\ part # "overclock" => inForce.core = 0
    /\ IF part = "telemetry" THEN \E k \in T!Counters : present = {k}
                             ELSE present = {} /\ ~wifi.associated

MCNext ==
    /\ UNCHANGED part
    /\ \/ part = "detection" /\ DetectionStep
       \/ part = "overclock" /\ OverclockStep
       \/ part = "telemetry" /\ TelemetryStep

MCSpec ==
    /\ MCInit /\ [][MCNext]_mcVars
    /\ part = "detection" => Fairness
    /\ part = "overclock" => O!Fairness

\* A GPU that nobody uses gets to sleep and stays asleep (GpuDetection).
IdleSuspends == part = "detection" => IdleGpuSuspends

\* With manual clocks off the offsets end up cleared (GpuOverclock).
OffClears == part = "overclock" => O!ManualOffClears
=============================================================================
