---------------------------- MODULE DaemonSetters ----------------------------
(* The daemon's setters together: ProfileApply, CpuFreqLimits,              *)
(* ChargeControl, PerfProfile and KeyboardLight.  They share no state in    *)
(* the models, and their steps interleave.                                  *)
EXTENDS ProfileApply

CONSTANTS
    \* of CpuFreqLimits
    NumCpus, Siblings, Requests, Callers, HwMin, HwMax, MaxFreqCalls,
    \* of ChargeControl
    Starts, Ends, DefaultStart, DefaultEnd, Others, Writers, MaxWrites,
    \* of PerfProfile
    NoName,
    \* of KeyboardLight
    Keyboards, Foreign, NoMode, Bound

VARIABLES
    limits, online, modified, exited, calls, task, sole, before, partial, raced,
    cc4, ec, page, saved, known, writes, made, trail,
    machine, device, shared, reg, client, fans, ghost,
    keyboard, kbd, draft, lastSettings, lights, asked, left

C == INSTANCE CpuFreqLimits WITH MaxCalls <- MaxFreqCalls

B == INSTANCE ChargeControl WITH Callers <- Writers, MaxCalls <- MaxWrites

P == INSTANCE PerfProfile

L == INSTANCE KeyboardLight WITH
        Machines <- Keyboards, machine <- keyboard, last <- lastSettings,
        calls <- lights, ghost <- asked

ASSUME SettersAssumption ==
    C!CpuConstants /\ B!ChargeConstants /\ L!KeyboardConstants

freqVars == <<limits, online, modified, exited, calls, task, sole, before, partial, raced>>
chargeVars == <<cc4, ec, page, saved, known, writes, made, trail>>
perfVars == <<machine, device, shared, reg, client, fans, ghost>>
lightVars == <<keyboard, kbd, draft, lastSettings, lights, asked, left>>
settersVars == <<vars, freqVars, chargeVars, perfVars, lightVars>>

SettersInit == Init /\ C!Init /\ B!Init /\ P!Init /\ L!Init

ProfileStep == Next /\ UNCHANGED <<freqVars, chargeVars, perfVars, lightVars>>
FreqStep == C!Next /\ UNCHANGED <<vars, chargeVars, perfVars, lightVars>>
ChargeStep == B!Next /\ UNCHANGED <<vars, freqVars, perfVars, lightVars>>
PerfStep == P!Next /\ UNCHANGED <<vars, freqVars, chargeVars, lightVars>>
LightStep == L!Next /\ UNCHANGED <<vars, freqVars, chargeVars, perfVars>>

SettersNext == ProfileStep \/ FreqStep \/ ChargeStep \/ PerfStep \/ LightStep

SettersSpec == SettersInit /\ [][SettersNext]_settersVars

-----------------------------------------------------------------------------
(* Properties *)

\* The type invariants of the five modules.
TypesOK == TypeOK /\ C!TypeOK /\ B!TypeOK /\ P!TypeOK /\ L!TypeOK

\* What the reply to a call for CPU frequency limits says of them is true.
RepliesAreTrue == C!RepliesAreTrue

\* A shutdown that nothing overlaps gives the hardware's frequency limits back,
\* unless a call failed part-way and none succeeded.
RestoredOnExit == C!RestoredOnExit

\* main.rs: "restores CPU frequency limits if they were modified".
RestoredIfModified == C!RestoredIfModified

\* A call that overlaps no other changes the EC's charge thresholds as asked, as
\* far as it gets, and the page's keep start below end once it has the lists.
ThresholdsAsAsked == B!ThresholdsAsAsked

\* A performance profile that was chosen with success stays in force.
ChoiceStays == P!ChoiceStays

\* hardware_detection.rs: "profile_id: 1=powersave, 2=enthusiast, 3=overboost".
ChosenIsReported == P!ChosenIsReported

\* Preview and Save of the page show the light that the page asks for.
AskedIsShown == L!AskedIsShown
=============================================================================
