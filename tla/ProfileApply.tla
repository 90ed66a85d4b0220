---------------------------- MODULE ProfileApply ----------------------------
(***************************************************************************)
(* ApplyProfile (daemon/src/dbus_interface.rs and hardware_control.rs):    *)
(* GPU_DAEMON_STATE is replaced, LAST_APPLIED_PROFILE is compared and      *)
(* replaced, and then the settings are written one stage after the other.  *)
(* A stage of the code that ends in `?' ends the call when it fails, one   *)
(* under `let _ =' does not.  The single-setting D-Bus calls write the     *)
(* same hardware and leave LAST_APPLIED_PROFILE alone.  zbus runs calls    *)
(* concurrently.  The scheduler (main.rs) runs the fan job and the         *)
(* overclocking job one at a time beside them: each copies its settings    *)
(* under a lock and writes after the lock is released.                     *)
(*                                                                         *)
(* History variables: `failed' (a write failed since LAST_APPLIED_PROFILE  *)
(* was replaced), `alone' (the call that replaced it, if since then no     *)
(* setter ran and no other call was applying a profile), `crossed' (the    *)
(* newest call came in while another was on its way to                     *)
(* LAST_APPLIED_PROFILE), `stale' (what a job may write over: the stage    *)
(* was written while a tick of its job was under way, or a tick took the   *)
(* GPU settings of another profile than the remembered one).               *)
(***************************************************************************)
EXTENDS Naturals, Sequences

CONSTANTS
    Profiles,        \* profiles a client may send
    Wants,           \* [Profiles -> [Stage -> a value or NotSet]]
    ManualProfiles,  \* profiles with manual clocks and no dynamic control: the
                     \* overclocking job leaves their offsets alone
    Calls,           \* concurrent ApplyProfile calls
    Setters,         \* stages that a client also sets one by one
    FanDevice        \* /dev/tuxedo_io is there

Stages == <<"governor", "tdp_profile", "tdp_limits", "pstate", "epp",
            "freq_limits", "gpu_offsets", "gpu_clocks", "boost", "smt",
            "keyboard", "screen", "fans", "gpu_fans">>
Stage == {Stages[i] : i \in DOMAIN Stages}

\* The stages whose failed writes go unreported: under `let _ =' TDP limits and
\* everything that goes to NVML, and the keyboard, as set_mode has no failure.
Silent == {"tdp_limits", "gpu_offsets", "gpu_clocks", "gpu_fans", "keyboard"}

NotSet == "not_set"  \* None, system_control, TDP limits without Uniwill
Unknown == "unknown" \* what the hardware had before, or a part-done write
FansOff == "off"     \* fan_settings.control_enabled = false
White == "white"     \* keyboard_settings.control_enabled = false

Value == UNION {{Wants[p][s] : s \in Stage} : p \in Profiles} \ {NotSet}

\* Two stages always act: the clocks are reset when the profile has none, and
\* the fan settings are always there.
ASSUME ProfileAssumption ==
    /\ Wants \in [Profiles -> [Stage -> Value \cup {NotSet}]]
    /\ \A p \in Profiles :
          Wants[p]["gpu_clocks"] # NotSet /\ Wants[p]["fans"] # NotSet
    /\ FanDevice \in BOOLEAN
    /\ ManualProfiles \subseteq Profiles
    /\ Setters \subseteq Stage \ {"screen"}

NoProfile == "no profile"
ASSUME NoProfileAssumption == NoProfile \notin Profiles

VARIABLES
    last,      \* LAST_APPLIED_PROFILE
    gpuState,  \* GPU_DAEMON_STATE: whose GPU settings the overclock job uses
    fanState,  \* FAN_DAEMON_STATE: the curves of the fan job, FansOff is None
    hw,        \* what was last written to each setting's hardware
    call,      \* each ApplyProfile call
    tick,      \* the job under way and, for the fans, its copy of the curves
    failed, alone, crossed, stale

history == <<failed, alone, crossed, stale>>
vars == <<last, gpuState, fanState, hw, call, tick, failed, alone, crossed, stale>>

-----------------------------------------------------------------------------
Idle == [pc |-> "idle", profile |-> NoProfile, stage |-> 0]
NoTick == [job |-> "none", curves |-> FansOff]

Init ==
    /\ last = NoProfile
    /\ gpuState = NoProfile
    /\ fanState = FansOff
    /\ hw = [s \in Stage |-> Unknown]
    /\ call = [c \in Calls |-> Idle]
    /\ tick = NoTick
    /\ failed = FALSE /\ alone = {} /\ crossed = FALSE /\ stale = {}

Applying(c) == call[c].pc \in {"stage", "fan_auto"}

\* The first stage from i on that the profile has something for, or one past
\* the end.
NextStage(p, i) ==
    LET Rest == {k \in DOMAIN Stages : k >= i /\ Wants[p][Stages[k]] # NotSet}
    IN  IF Rest = {} THEN Len(Stages) + 1
        ELSE CHOOSE k \in Rest : \A m \in Rest : k <= m

Goto(c, pc) == call' = [call EXCEPT ![c].pc = pc]

\* Stage s is being written: a tick of its job under way can write over it.
Overtaken(s, job) == IF tick.job = job THEN stale \cup {s} ELSE stale \ {s}

\* Mutant: a stage the profile has nothing for is not passed over.
ContinueWithNext(c, i) ==
    call' = [call EXCEPT ![c].stage = i + 1,
                         ![c].pc = IF i + 1 > Len(Stages) THEN "ok" ELSE "stage"]

\* Where a call goes after stage i.
Continue(c, i) ==
    LET k == NextStage(call[c].profile, i + 1)
    IN  call' = [call EXCEPT ![c].stage = k,
                             ![c].pc = IF k > Len(Stages) THEN "ok" ELSE "stage"]

-----------------------------------------------------------------------------
(* The call. *)

\* ControlInterface::apply_profile: the GPU daemon state is replaced first,
\* whatever becomes of the profile.
ApplyProfile(c) ==
    /\ call[c].pc = "idle"
    /\ \E p \in Profiles :
          /\ gpuState' = p
          /\ call' = [call EXCEPT ![c] = [pc |-> "check", profile |-> p, stage |-> 0]]
    /\ crossed' = \E d \in Calls : call[d].pc = "check"
    /\ UNCHANGED <<last, fanState, hw, tick, failed, alone, stale>>

\* Mutant: the profile is not remembered.
CheckLastForgets(c) ==
    /\ call[c].pc = "check"
    /\ last # call[c].profile
    /\ failed' = FALSE
    /\ alone' = IF \E d \in Calls : Applying(d) THEN {} ELSE {c}
    /\ stale' = {}
    /\ Continue(c, 0)
    /\ UNCHANGED <<last, gpuState, fanState, hw, tick, crossed>>

\* The comparison and the assignment are under one lock; the assignment comes
\* before anything is applied.
CheckLast(c) ==
    /\ call[c].pc = "check"
    /\ \/ /\ last = call[c].profile
          /\ Goto(c, "skipped")
          /\ UNCHANGED <<last, failed, alone, stale>>
       \/ /\ last # call[c].profile
          /\ last' = call[c].profile
          /\ failed' = FALSE
          /\ alone' = IF \E d \in Calls : Applying(d) THEN {} ELSE {c}
          /\ stale' = {}
          /\ Continue(c, 0)
    /\ UNCHANGED <<gpuState, fanState, hw, tick, crossed>>

\* One stage other than the fans is written.
WriteStage(c) ==
    LET s == Stages[call[c].stage]
    IN  /\ call[c].pc = "stage" /\ s # "fans"
        /\ hw' = [hw EXCEPT ![s] = Wants[call[c].profile][s]]
        /\ stale' = IF s = "gpu_offsets" THEN Overtaken(s, "gpu") ELSE stale
        /\ Continue(c, call[c].stage)
        /\ UNCHANGED <<last, gpuState, fanState, tick, failed, alone, crossed>>

\* Mutant: no failure ends the call, and none is remembered as one.
StageFailsUnseen(c) ==
    LET s == Stages[call[c].stage]
    IN  /\ call[c].pc = "stage" /\ s # "fans"
        /\ \E v \in {hw[s], Unknown} : hw' = [hw EXCEPT ![s] = v]
        /\ Continue(c, call[c].stage)
        /\ UNCHANGED <<last, gpuState, fanState, tick, history>>

\* A write of the stage fails, which ends the call with an error unless the
\* stage is a silent one.
StageFails(c) ==
    LET s == Stages[call[c].stage]
    IN  /\ call[c].pc = "stage" /\ s # "fans"
        /\ failed' = TRUE
        /\ \E v \in {hw[s], Unknown} : hw' = [hw EXCEPT ![s] = v]
        /\ IF s \in Silent THEN Continue(c, call[c].stage) ELSE Goto(c, "error")
        /\ UNCHANGED <<last, gpuState, fanState, tick, alone, crossed, stale>>

\* RgbKeyboardControl::new finds no keyboard: an error, but not for a profile
\* without keyboard control, which then leaves the keyboard as it is.
NoKeyboard(c) ==
    /\ call[c].pc = "stage" /\ Stages[call[c].stage] = "keyboard"
    /\ failed' = TRUE
    /\ IF Wants[call[c].profile]["keyboard"] = White
       THEN Continue(c, call[c].stage) ELSE Goto(c, "error")
    /\ UNCHANGED <<last, gpuState, fanState, hw, tick, alone, crossed, stale>>

\* apply_fan_settings: the state of the fan job is replaced; with fan control
\* switched off the fans are then given back to the firmware.
SetFanState(c) ==
    /\ call[c].pc = "stage" /\ Stages[call[c].stage] = "fans"
    /\ LET w == Wants[call[c].profile]["fans"]
       IN  /\ fanState' = IF FanDevice THEN w ELSE fanState
           /\ IF FanDevice /\ w = FansOff THEN Goto(c, "fan_auto")
                                          ELSE Continue(c, call[c].stage)
    /\ UNCHANGED <<last, gpuState, hw, tick, history>>

\* set_fan_auto(0), whose failure is an error of the call.
SetFanAuto(c) ==
    /\ call[c].pc = "fan_auto"
    /\ \/ hw' = [hw EXCEPT !["fans"] = FansOff]
          /\ stale' = Overtaken("fans", "fans")
          /\ Continue(c, call[c].stage)
          /\ UNCHANGED failed
       \/ Goto(c, "error")
          /\ failed' = TRUE
          /\ UNCHANGED <<hw, stale>>
    /\ UNCHANGED <<last, gpuState, fanState, tick, alone, crossed>>

\* The reply goes to the client.
Reply(c) ==
    /\ call[c].pc \in {"ok", "skipped", "error"}
    /\ call' = [call EXCEPT ![c] = Idle]
    /\ UNCHANGED <<last, gpuState, fanState, hw, tick, history>>

\* SetCpuGovernor, SetFanSpeed, SetGpuLockedClocks, PreviewKeyboardSettings...:
\* a value of a profile, or another one.
SetOne(s) ==
    /\ \E v \in ({Wants[p][s] : p \in Profiles} \cup {Unknown}) \ {NotSet, hw[s]} :
          hw' = [hw EXCEPT ![s] = v]
    /\ alone' = {}
    /\ UNCHANGED <<last, gpuState, fanState, call, tick, failed, crossed, stale>>

-----------------------------------------------------------------------------
(* The jobs, one at a time: a tick copies its settings, then writes. *)

\* The fan job takes the curves in force.
FanTick ==
    /\ FanDevice /\ tick = NoTick /\ fanState # FansOff
    /\ tick' = [job |-> "fans", curves |-> fanState]
    /\ UNCHANGED <<last, gpuState, fanState, hw, call, history>>

\* A fan of its copy is set (FanControl has the ioctls), whatever became of
\* the curves since.
FanWrite ==
    /\ tick.job = "fans"
    /\ hw' = [hw EXCEPT !["fans"] = tick.curves]
    /\ UNCHANGED <<last, gpuState, fanState, call, tick, history>>

\* Mutant: the overclocking job works from the settings whatever they say.
GpuTickAlways ==
    /\ tick = NoTick /\ gpuState \in Profiles
    /\ tick' = [NoTick EXCEPT !.job = "gpu"]
    /\ stale' = IF gpuState = last THEN stale ELSE stale \cup {"gpu_offsets"}
    /\ UNCHANGED <<last, gpuState, fanState, hw, call, failed, alone, crossed>>

\* The overclocking job takes settings with dynamic control or without manual
\* clocks; in the latter case it resets the offsets.
GpuTick ==
    /\ tick = NoTick /\ gpuState \in Profiles \ ManualProfiles
    /\ tick' = [NoTick EXCEPT !.job = "gpu"]
    /\ stale' = IF gpuState = last THEN stale ELSE stale \cup {"gpu_offsets"}
    /\ UNCHANGED <<last, gpuState, fanState, hw, call, failed, alone, crossed>>

\* It writes an offset of its own (GpuOverclock has the bookkeeping).
GpuWrite ==
    /\ tick.job = "gpu"
    /\ hw' = [hw EXCEPT !["gpu_offsets"] = Unknown]
    /\ UNCHANGED <<last, gpuState, fanState, call, tick, history>>

EndTick ==
    /\ tick # NoTick
    /\ tick' = NoTick
    /\ UNCHANGED <<last, gpuState, fanState, hw, call, history>>

-----------------------------------------------------------------------------
Next ==
    \/ \E c \in Calls :
          \/ ApplyProfile(c) \/ CheckLast(c)
          \/ WriteStage(c) \/ StageFails(c) \/ NoKeyboard(c)
          \/ SetFanState(c) \/ SetFanAuto(c) \/ Reply(c)
    \/ \E s \in Setters : SetOne(s)
    \/ FanTick \/ FanWrite \/ GpuTick \/ GpuWrite \/ EndTick

Spec == Init /\ [][Next]_vars

-----------------------------------------------------------------------------
(* Properties. *)

CallType == [pc : {"idle", "check", "stage", "fan_auto", "ok", "skipped", "error"},
             profile : Profiles \cup {NoProfile}, stage : 0 .. Len(Stages) + 1]

\* Every variable keeps its type, and a call that is applying a profile is at
\* a stage the profile has something for.
TypeOK ==
    /\ last \in Profiles \cup {NoProfile}
    /\ gpuState \in Profiles \cup {NoProfile}
    /\ fanState \in Value \cup {FansOff}
    /\ hw \in [Stage -> Value \cup {Unknown}]
    /\ call \in [Calls -> CallType]
    /\ tick \in [job : {"none", "fans", "gpu"}, curves : Value \cup {FansOff}]
    /\ failed \in BOOLEAN /\ alone \subseteq Calls /\ crossed \in BOOLEAN
    /\ stale \subseteq {"fans", "gpu_offsets"}
    /\ \A c \in Calls : Applying(c) =>
          /\ call[c].profile \in Profiles
          /\ call[c].stage \in DOMAIN Stages
          /\ Wants[call[c].profile][Stages[call[c].stage]] # NotSet

\* The offsets of a profile are its own to set: the overclocking job leaves
\* them alone, and no tick of it with other settings can have written over them.
OwnOffsets(p) == p \in ManualProfiles /\ "gpu_offsets" \notin stale

\* The hardware of some stages, and the fan job's curves, are as p asks, but for
\* what a tick under way wrote over.
HardwareHas(p, stages) ==
    /\ \A s \in stages \ {"fans"} :
          \/ Wants[p][s] \in {NotSet, hw[s]}
          \/ s = "gpu_offsets" /\ ~OwnOffsets(p)
    /\ FanDevice =>
          /\ fanState = Wants[p]["fans"]
          /\ fanState = FansOff /\ "fans" \notin stale => hw["fans"] = FansOff

\* What the shortcut of apply_profile relies on: once nobody is applying, the
\* hardware is as the remembered profile asks, unless a write failed, a single
\* setter ran or another call was applying a profile since it was remembered.
\* The jobs do not spoil it: they can write over the fans of a profile without
\* fan control, or the offsets of one without dynamic control, only in a tick
\* that was under way when the profile wrote them (main.rs copies the settings
\* and lets the lock go), or that took the settings of a crossing call.
RememberedIsApplied ==
    (~failed /\ alone # {} /\ \A c \in Calls : ~Applying(c))
        => HardwareHas(last, Stage)

\* A call that replies with success has written every stage whose failed writes
\* it would have reported, whatever silent stages failed on the way, unless
\* setters, another call or a tick under way disturbed it.
SuccessIsApplied ==
    \A c \in alone : call[c].pc = "ok" => HardwareHas(call[c].profile, Stage \ Silent)

\* The overclocking job and LAST_APPLIED_PROFILE agree on the profile once all
\* calls have got past the check, unless two calls crossed between the two.
GpuFollowsLast ==
    (~crossed /\ \A c \in Calls : call[c].pc # "check") => gpuState = last

\* "Profile is already applied, skipping": a skipped call finds the hardware as
\* its profile asks.  It does not: the profile was remembered before it was
\* applied, and a failure in between is not taken back.
SkippedIsApplied ==
    \A c \in Calls : call[c].pc = "skipped" => HardwareHas(call[c].profile, Stage)

=============================================================================
