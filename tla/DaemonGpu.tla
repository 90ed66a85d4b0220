----------------------------- MODULE DaemonGpu -----------------------------
(* What the daemon reads and sets on the GPU and reads of the machine:      *)
(* GpuDetection, GpuOverclock and Telemetry together.  They share no state  *)
(* in the models, and their steps interleave.                               *)
EXTENDS GpuDetection

CONSTANTS
    Offsets, MemOffsets, Profiles,      \* of GpuOverclock
    Refreshers, MaxEvents, Wrap         \* of Telemetry

VARIABLES
    inForce, settings, last, map, stats, doing, ghost,
    present, events, cpu, energy, wifi, disk, prev, reading, shown

O == INSTANCE GpuOverclock

T == INSTANCE Telemetry

ASSUME GpuPartsAssumption == O!OverclockConstants /\ T!TelemetryConstants

overclockVars == <<inForce, settings, last, map, stats, doing, ghost>>
telemetryVars == <<present, events, cpu, energy, wifi, disk, prev, reading, shown>>
gpuVars == <<vars, overclockVars, telemetryVars>>

GpuInit == Init /\ O!Init /\ T!Init

DetectionStep == Next /\ UNCHANGED <<overclockVars, telemetryVars>>
OverclockStep == O!Next /\ UNCHANGED <<vars, telemetryVars>>
TelemetryStep == T!Next /\ UNCHANGED <<vars, overclockVars>>

GpuNext == DetectionStep \/ OverclockStep \/ TelemetryStep

GpuSpec == GpuInit /\ [][GpuNext]_gpuVars /\ Fairness /\ O!Fairness

-----------------------------------------------------------------------------
(* Properties *)

\* The type invariants of the three modules.
TypesOK == TypeOK /\ O!TypeOK /\ T!TypeOK

\* The offset that the job believes to be set is wrong only because a client wrote
\* the core offset after it.
BeliefBrokenOnlyOutside == O!BeliefBrokenOnlyOutside

\* At rest the GPU has the offsets that the daemon believes and the client asked for.
OffsetsAsTold == O!OffsetsAsTold

\* No rate claims more than what passed between the two readings it compares.
RateIsTraffic == T!RateIsTraffic
=============================================================================
