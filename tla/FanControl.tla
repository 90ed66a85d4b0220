----------------------------- MODULE FanControl -----------------------------
(***************************************************************************)
(* The Clevo fan path of the daemon: TuxedoIo::set_fan_speed and           *)
(* TuxedoIo::set_fan_auto (daemon/src/tuxedo_io.rs) executed concurrently  *)
(* by the D-Bus handlers and by the fan_control polling job, the shared    *)
(* FAN_DAEMON_STATE and CLEVO_AUTO_DISABLED globals, and the embedded      *)
(* controller behind /dev/tuxedo_io.                                       *)
(*                                                                         *)
(* No lock spans a fan operation, so every load, store and ioctl is a step *)
(* of its own.  `tainted' and `suspect' are history variables: no action   *)
(* reads them except to update them.                                       *)
(***************************************************************************)
EXTENDS Integers, Sequences

CONSTANTS
    Clients,      \* the concurrent D-Bus calls
    Job,          \* the scheduler task while it runs fan_control
    FanCount,     \* TuxedoIo.fan_count
    Slots,        \* bytes of the packed speed word (3 in the code)
    Duties,       \* the raw duty values that are told apart
    Off,          \* the raw duty 0
    CurveSets,    \* curve lists (by fan id) of the profiles with fan control
    FanIds,       \* fan ids a D-Bus caller may pass; need not exist
    NoSettings    \* FAN_DAEMON_STATE = None

ASSUME FanAssumption ==
    /\ Job \notin Clients
    /\ FanCount \in Nat
    /\ Slots \in Nat \ {0}
    /\ Off \in Duties
    /\ FanIds \subseteq Nat
    /\ CurveSets \subseteq Seq(FanIds)
    /\ NoSettings \notin CurveSets

VARIABLES
    fanState,     \* FAN_DAEMON_STATE: NoSettings or the curves in force
    autoDisabled, \* CLEVO_AUTO_DISABLED
    mode,         \* what the controller does: "auto" or "manual"
    target,       \* duty last commanded, per slot (meaningful in manual mode)
    shown,        \* duty the FANINFO ioctl reports, per slot
    pc, fan, duty, snap, next,  \* the locals of each running fan operation
    rest,         \* curves the running tick still has to apply
    tainted,      \* history: another actor or a failed readback got in between,
                  \* or the operation began while a set_fan_auto was short of its
                  \* store or a written speed had not settled
    suspect       \* history: the flag was last set by a tainted operation

hw == <<mode, target, shown>>
locals == <<fan, duty, snap, next>>
vars == <<fanState, autoDisabled, mode, target, shown, pc, fan, duty, snap,
          next, rest, tainted, suspect>>

Threads == Clients \cup {Job}
Word == 0 .. Slots - 1
Present == {f \in Word : f < FanCount}

SpeedPcs == {"check", "disable", "storeTrue", "read", "write", "settle"}
AutoPcs == {"autoIoctl", "storeFalse"}
Pcs == {"idle", "curves"} \cup SpeedPcs \cup AutoPcs

Init ==
    /\ fanState = NoSettings
    /\ autoDisabled = FALSE
    /\ mode = "auto"
    /\ target = [f \in Word |-> Off]
    /\ shown = [f \in Word |-> Off]
    /\ pc = [t \in Threads |-> "idle"]
    /\ fan = [t \in Threads |-> 0]
    /\ duty = [t \in Threads |-> Off]
    /\ snap = [t \in Threads |-> [f \in Word |-> Off]]
    /\ next = [t \in Threads |-> 0]
    /\ rest = <<>>
    /\ tainted = [t \in Threads |-> FALSE]
    /\ suspect = FALSE

-----------------------------------------------------------------------------
(* Control flow helpers. *)

Goto(t, label) == pc' = [pc EXCEPT ![t] = label]

NoWord == [f \in Word |-> Off]

\* The locals of a fan operation that starts with fan f and duty d, or that
\* has ended.
Locals(t, f, d) ==
    /\ fan' = [fan EXCEPT ![t] = f]
    /\ duty' = [duty EXCEPT ![t] = d]
    /\ snap' = [snap EXCEPT ![t] = NoWord]
    /\ next' = [next EXCEPT ![t] = 0]

\* An operation of the job returns to its loop over the curves, whatever the
\* result was: apply_fan_curves only logs an error.
Return(t) ==
    /\ Goto(t, IF t = Job THEN "curves" ELSE "idle")
    /\ Locals(t, 0, Off)

\* t has just changed the hardware: every other operation under way is tainted.
TaintOthers(t) ==
    tainted' = [u \in Threads |-> \/ tainted[u]
                                  \/ u # t /\ pc[u] \in SpeedPcs]

\* The call of TuxedoIo::set_fan_speed.
Call(t, f, d) == Goto(t, "check") /\ Locals(t, f, d)

-----------------------------------------------------------------------------
(* Requests. *)

\* D-Bus SetFanSpeed: no validation of the id before TuxedoIo is entered.
SetFanSpeed(t) ==
    /\ t \in Clients /\ pc[t] = "idle"
    /\ \E f \in FanIds, d \in Duties : Call(t, f, d)
    /\ UNCHANGED <<fanState, autoDisabled, hw, rest, tainted, suspect>>

\* D-Bus SetFanAuto and SetAllFansAuto: the fan id is ignored.
SetFanAuto(t) ==
    /\ t \in Clients /\ pc[t] = "idle"
    /\ Goto(t, "autoIoctl")
    /\ UNCHANGED <<fanState, autoDisabled, hw, locals, rest, tainted, suspect>>

\* The fan part of ApplyProfile: the state is replaced under its lock, the
\* lock is released, and only then a disabled profile returns to auto.
ApplyFanSettings(t) ==
    /\ t \in Clients /\ pc[t] = "idle"
    /\ \/ /\ fanState' \in CurveSets
          /\ UNCHANGED pc
       \/ /\ fanState' = NoSettings
          /\ Goto(t, "autoIoctl")
    /\ UNCHANGED <<autoDisabled, hw, locals, rest, tainted, suspect>>

-----------------------------------------------------------------------------
(* The fan_control job. *)

\* The poll function clones FAN_DAEMON_STATE under its lock and lets it go.
Tick ==
    /\ pc[Job] = "idle"
    /\ fanState # NoSettings
    /\ rest' = fanState
    /\ Goto(Job, "curves")
    /\ UNCHANGED <<fanState, autoDisabled, hw, locals, tainted, suspect>>

\* One round of the loop of apply_fan_curves: a curve of an absent fan and
\* one whose temperature cannot be read are skipped.
NextCurve ==
    /\ pc[Job] = "curves" /\ rest # <<>>
    /\ rest' = Tail(rest)
    /\ \/ UNCHANGED <<pc, locals>>
       \/ /\ Head(rest) < FanCount
          /\ \E d \in Duties : Call(Job, Head(rest), d)
    /\ UNCHANGED <<fanState, autoDisabled, hw, tainted, suspect>>

\* Mutant: the job keeps the settings it copied instead of re-reading them.
EndTickKeepsCopy ==
    /\ pc[Job] = "curves" /\ rest = <<>>
    /\ rest' \in CurveSets
    /\ UNCHANGED <<fanState, autoDisabled, hw, pc, locals, tainted, suspect>>

EndTick ==
    /\ pc[Job] = "curves" /\ rest = <<>>
    /\ Goto(Job, "idle")
    /\ UNCHANGED <<fanState, autoDisabled, hw, locals, rest, tainted, suspect>>

-----------------------------------------------------------------------------
(* TuxedoIo::set_fan_speed, Clevo branch. *)

\* Mutant: the flag is not looked at.
CheckFlagSkipped(t) ==
    /\ pc[t] = "check"
    /\ Goto(t, "read")
    /\ tainted' = [tainted EXCEPT ![t] =
          \E u \in Threads \ {t} : pc[u] \in {"storeFalse", "settle"}]
    /\ UNCHANGED <<fanState, autoDisabled, hw, locals, rest, suspect>>

\* Step 1: load the flag.  A SetFanAuto between its ioctl and its store, and
\* a speed write the hardware has not caught up with, taint the operation.
CheckFlag(t) ==
    /\ pc[t] = "check"
    /\ Goto(t, IF autoDisabled THEN "read" ELSE "disable")
    /\ tainted' = [tainted EXCEPT ![t] =
          \E u \in Threads \ {t} : pc[u] \in {"storeFalse", "settle"}]
    /\ UNCHANGED <<fanState, autoDisabled, hw, locals, rest, suspect>>

\* Step 1: the ioctl that disables auto mode; its failure ends the call.  The
\* controller keeps the duties it had, and operations that were reading while
\* it was in auto mode are tainted.
DisableAuto(t) ==
    /\ pc[t] = "disable"
    /\ \/ /\ mode' = "manual"
          /\ target' = IF mode = "auto" THEN shown ELSE target
          /\ tainted' = [u \in Threads |-> \/ tainted[u]
                                          \/ /\ u # t /\ mode = "auto"
                                             /\ pc[u] \in {"read", "write"}]
          /\ Goto(t, "storeTrue")
          /\ UNCHANGED locals
       \/ /\ Return(t)
          /\ UNCHANGED <<mode, target, tainted>>
    /\ UNCHANGED <<fanState, autoDisabled, shown, rest, suspect>>

StoreDisabled(t) ==
    /\ pc[t] = "storeTrue"
    /\ autoDisabled' = TRUE
    /\ suspect' = tainted[t]
    /\ Goto(t, "read")
    /\ UNCHANGED <<fanState, hw, locals, rest, tainted>>

\* Mutant: the result of a failed ioctl is stored as the speed.
ReadSpeedKeepsError(t) ==
    /\ pc[t] = "read" /\ next[t] \in Present
    /\ next' = [next EXCEPT ![t] = @ + 1]
    /\ snap' = [snap EXCEPT ![t][next[t]] = -1]
    /\ UNCHANGED <<fanState, autoDisabled, hw, pc, fan, duty, rest, tainted, suspect>>

\* Step 2: one FANINFO ioctl per present fan; a failed one leaves a zero.
ReadSpeed(t) ==
    /\ pc[t] = "read" /\ next[t] \in Present
    /\ next' = [next EXCEPT ![t] = @ + 1]
    /\ \/ /\ snap' = [snap EXCEPT ![t][next[t]] = shown[next[t]]]
          /\ UNCHANGED tainted
       \/ /\ tainted' = [tainted EXCEPT ![t] = TRUE]
          /\ UNCHANGED snap
    /\ UNCHANGED <<fanState, autoDisabled, hw, pc, fan, duty, rest, suspect>>

\* Step 3: an id outside the word is refused, after auto mode was disabled.
SelectFan(t) ==
    /\ pc[t] = "read" /\ next[t] \notin Present
    /\ \/ fan[t] \in Word /\ Goto(t, "write") /\ UNCHANGED locals
       \/ fan[t] \notin Word /\ Return(t)
    /\ UNCHANGED <<fanState, autoDisabled, hw, rest, tainted, suspect>>

\* Steps 4 and 5: all fans are written as one word.  A controller in auto
\* mode ignores it.
WriteSpeeds(t) ==
    /\ pc[t] = "write"
    /\ \/ /\ target' = [snap[t] EXCEPT ![fan[t]] = duty[t]]
          /\ Goto(t, "settle")
          /\ TaintOthers(t)
          /\ UNCHANGED locals
       \/ /\ Return(t)
          /\ UNCHANGED <<target, tainted>>
    /\ UNCHANGED <<fanState, autoDisabled, mode, shown, rest, suspect>>

\* Mutant: no delay after a speed write.
SettledAtOnce(t) ==
    /\ pc[t] = "settle"
    /\ Return(t)
    /\ UNCHANGED <<fanState, autoDisabled, hw, rest, tainted, suspect>>

\* The ioctl returns after a delay in which the controller catches up.
Settled(t) ==
    /\ pc[t] = "settle"
    /\ mode = "auto" \/ shown = target
    /\ Return(t)
    /\ UNCHANGED <<fanState, autoDisabled, hw, rest, tainted, suspect>>

-----------------------------------------------------------------------------
(* TuxedoIo::set_fan_auto, Clevo branch. *)

EnableAuto(t) ==
    /\ pc[t] = "autoIoctl"
    /\ \/ /\ mode' = "auto"
          /\ Goto(t, "storeFalse")
          /\ TaintOthers(t)
          /\ UNCHANGED locals
       \/ /\ Return(t)
          /\ UNCHANGED <<mode, tainted>>
    /\ UNCHANGED <<fanState, autoDisabled, target, shown, rest, suspect>>

\* Mutant: set_fan_auto forgets to reset the flag.
StoreEnabledForgotten(t) ==
    /\ pc[t] = "storeFalse"
    /\ Return(t)
    /\ UNCHANGED <<fanState, autoDisabled, hw, rest, tainted, suspect>>

StoreEnabled(t) ==
    /\ pc[t] = "storeFalse"
    /\ autoDisabled' = FALSE
    /\ suspect' = FALSE
    /\ Return(t)
    /\ UNCHANGED <<fanState, hw, rest, tainted>>

-----------------------------------------------------------------------------
(* The controller: it follows the commanded duties in manual mode and picks *)
(* its own in auto mode.                                                    *)

Controller ==
    /\ shown' \in (IF mode = "manual" THEN {target} ELSE [Word -> Duties])
    /\ UNCHANGED <<fanState, autoDisabled, mode, target, pc, locals, rest,
                   tainted, suspect>>

-----------------------------------------------------------------------------
SpeedStep(t) ==
    \/ CheckFlag(t) \/ DisableAuto(t) \/ StoreDisabled(t) \/ ReadSpeed(t)
    \/ SelectFan(t) \/ WriteSpeeds(t) \/ Settled(t)

AutoStep(t) == EnableAuto(t) \/ StoreEnabled(t)

Request(t) == SetFanSpeed(t) \/ SetFanAuto(t) \/ ApplyFanSettings(t)

JobStep == Tick \/ NextCurve \/ EndTick

Next ==
    \/ \E t \in Threads : Request(t) \/ SpeedStep(t) \/ AutoStep(t)
    \/ JobStep
    \/ Controller

\* The scheduler task keeps running its job, the controller keeps working and
\* the driver's delay always ends; clients are free to stop.
Fairness ==
    /\ WF_vars(JobStep)
    /\ WF_vars(SpeedStep(Job))
    /\ SF_vars(Settled(Job))
    /\ WF_vars(mode = "manual" /\ Controller)

Spec == Init /\ [][Next]_vars /\ Fairness

-----------------------------------------------------------------------------
(* Properties. *)

\* Every variable keeps its type.
TypeOK ==
    /\ fanState \in CurveSets \cup {NoSettings}
    /\ autoDisabled \in BOOLEAN
    /\ mode \in {"auto", "manual"}
    /\ target \in [Word -> Duties]
    /\ shown \in [Word -> Duties]
    /\ pc \in [Threads -> Pcs]
    /\ fan \in [Threads -> Nat]
    /\ duty \in [Threads -> Duties]
    /\ snap \in [Threads -> [Word -> Duties]]
    /\ next \in [Threads -> Nat]
    /\ rest \in Seq(FanIds)
    /\ tainted \in [Threads -> BOOLEAN]
    /\ suspect \in BOOLEAN

\* CLEVO_AUTO_DISABLED can claim manual mode while the hardware is in auto
\* mode only until a set_fan_auto in flight stores its result, unless a
\* set_fan_speed was overtaken between its disable-auto ioctl and its store:
\* no other interleaving of the two unlocked operations makes the flag lie.
StaleFlagOnlyByRace ==
    autoDisabled /\ ~suspect /\ mode = "auto"
        => \E t \in Threads : pc[t] = "storeFalse"

\* A set_fan_speed that nobody interfered with never sends its speed word to
\* a controller in auto mode, which would ignore it, provided the flag it
\* trusted was not left stale by the race above.
NoBlindWrite ==
    \A t \in Threads :
        pc[t] = "write" /\ ~tainted[t] /\ ~suspect => mode = "manual"

KeepsOthers ==
    \A t \in Threads :
        /\ pc[t] = "write" /\ pc'[t] = "settle"
        /\ mode = "manual" /\ ~tainted[t]
        => \A f \in Present \ {fan[t]} : target'[f] = target[f]

\* The read-modify-write of the packed word changes the duty of the requested
\* fan only, unless another actor touched the hardware in between or a
\* readback failed (which the code turns into a zero for that fan).
OthersPreserved == [][KeepsOthers]_vars

\* Once fan control stays disabled the job leaves the fans alone: at most
\* the tick that had already copied the old settings still acts on them.
JobLeavesHardware ==
    <>[](fanState = NoSettings) => <>[](pc[Job] = "idle")

\* What docs/subsystems/tuxedo-io.md says of the process-global flag, as far
\* as set_fan_speed relies on it: when no fan operation is running, a flag that
\* is set means that auto mode is disabled in the hardware.
FlagTracksMode ==
    (\A t \in Threads : pc[t] \in {"idle", "curves"})
        => (autoDisabled => mode = "manual")

=============================================================================
