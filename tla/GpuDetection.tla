---------------------------- MODULE GpuDetection ----------------------------
(* The daemon's reading of the discrete GPU: detection passes that must not *)
(* keep an idle GPU awake (get_nvidia_gpu_info with its idle tier), the     *)
(* one-shot override of GetGpuInfoFull and the kernel's autosuspend timer.  *)
(* One GPU.                                                                 *)
(*                                                                          *)
(* The hardware_monitor and gpu_overclock jobs share the scheduler's task,  *)
(* so the actor Sched runs one of them at a time; every D-Bus call is an    *)
(* actor of its own.  A step is what the code does between two accesses to  *)
(* shared state.  Time is in ticks: the kernel suspends a GPU after         *)
(* Autosuspend of them without an NVML call, and a snapshot stays fresh for *)
(* Ttl of them.                                                             *)
(*                                                                          *)
(* Clients also write to the GPU.  Here a write only wakes the GPU and      *)
(* changes the map of offsets; what it writes is in GpuOverclock.           *)
EXTENDS Naturals

CONSTANTS
    Callers,        \* D-Bus calls that can be in progress together
    Autosuspend,    \* autosuspend_delay_ms, in ticks
    Ttl,            \* IDLE_CACHE_TTL_SECS, in ticks
    None            \* model value: no offset is believed to be set

ASSUME GpuAssumption ==
    /\ "sched" \notin Callers
    /\ Autosuspend \in Nat \ {0} /\ Ttl \in Nat \ {0}

VARIABLES
    gpu,        \* the hardware: suspended, idle (below P0) or busy (in P0)
    quiet,      \* ticks since the last NVML call to an idle GPU
    age,        \* age of IDLE_METRICS_CACHE[0]; Ttl when stale or empty
    requested,  \* FULL_NVML_REFRESH_REQUESTED
    believed,   \* the GPU state LAST_APPLIED_OFFSET was computed for
    op,         \* what each actor is doing
    mode,       \* GPU_DAEMON_STATE: dynamic control, manual clocks off, or other
    cleared,    \* MANUAL_GPU_OFFSETS says that both offsets are zero
    nvml,       \* what Nvml::init answers, once and for all
    driver,     \* the GPU is bound to the nvidia driver
    stolen,     \* calls whose override another pass consumed (history)
    stranded    \* a pass found no device or no NVML and left the override
                \* armed (history)

sysVars == <<mode, cleared, nvml, driver>>
vars == <<gpu, quiet, age, requested, believed, op, sysVars, stolen, stranded>>

Sched == "sched"
Actors == Callers \cup {Sched}

\* What a pass returns: the stub of a suspended GPU, a snapshot, values read
\* from the GPU, a GPU without values, or nothing for a GPU that NVML refuses.
Results == {"none", "stub", "cached", "live", "blind", "absent"}

Idle == [pc |-> "idle", job |-> "none", saw |-> "none", full |-> FALSE,
         res |-> "none", seen |-> "none"]

Init ==
    /\ gpu \in {"suspended", "idle", "busy"}
    /\ quiet = 0 /\ age = Ttl /\ requested = FALSE /\ believed = None
    /\ op = [a \in Actors |-> Idle]
    /\ mode = "other" /\ cleared = FALSE
    /\ nvml \in BOOLEAN /\ driver \in BOOLEAN /\ (driver \/ gpu = "idle")
    /\ stolen = {} /\ stranded = FALSE

Busy(a) == op[a].pc # "idle"
Fresh == age < Ttl

\* An NVML call wakes the GPU and restarts its timer.
Awake == IF gpu = "suspended" THEN "idle" ELSE gpu
Touch == nvml /\ driver /\ gpu' = Awake /\ quiet' = 0

\* An NVML call that may fail before it reaches the GPU.
TryTouch == Touch \/ UNCHANGED <<gpu, quiet>>

-----------------------------------------------------------------------------
(* Detection passes *)

\* get_nvidia_gpu_info lists the driver's devices and reads their runtime status
\* from sysfs before anything else.
Seen == IF ~driver THEN "none" ELSE IF gpu = "suspended" THEN "suspended" ELSE "active"

StartPass(a, job) ==
    op' = [op EXCEPT ![a] =
              [Idle EXCEPT !.pc = "decide", !.job = job, !.saw = Seen]]

\* The hardware_monitor job calls refresh_hardware_cache.
Monitor ==
    /\ ~Busy(Sched)
    /\ StartPass(Sched, "monitor")
    /\ UNCHANGED <<gpu, quiet, age, requested, believed, sysVars, stolen, stranded>>

\* The gpu_overclock job under dynamic control starts with a pass of its own.
Overclock ==
    /\ ~Busy(Sched) /\ mode = "dynamic"
    /\ StartPass(Sched, "overclock")
    /\ UNCHANGED <<gpu, quiet, age, requested, believed, sysVars, stolen, stranded>>

\* Without it the job forgets what it wrote, and with manual clocks off it goes
\* on to reset offsets that are not known to be zero.
Forget ==
    /\ ~Busy(Sched) /\ mode # "dynamic"
    /\ believed' = None
    /\ op' = IF mode = "off" /\ ~cleared
               THEN [op EXCEPT ![Sched] =
                        [Idle EXCEPT !.pc = "reset", !.job = "overclock"]]
               ELSE op
    /\ UNCHANGED <<gpu, quiet, age, requested, sysVars, stolen, stranded>>

\* It writes both offsets whatever the runtime status is, and takes them for
\* zero whatever became of the writes.
ResetOffsets ==
    /\ op[Sched].pc = "reset"
    /\ TryTouch
    /\ cleared' = TRUE
    /\ op' = [op EXCEPT ![Sched] = Idle]
    /\ UNCHANGED <<age, requested, believed, mode, nvml, driver, stolen, stranded>>

\* GetGpuInfoFull arms the override, then has the blocking pool run a pass.
GetGpuInfoFull(c) ==
    /\ ~Busy(c)
    /\ op' = [op EXCEPT ![c] = [Idle EXCEPT !.pc = "start", !.job = "full"]]
    /\ requested' = TRUE
    /\ stolen' = stolen \ {c}
    /\ UNCHANGED <<gpu, quiet, age, believed, sysVars, stranded>>

BeginFull(c) ==
    /\ op[c].pc = "start"
    /\ StartPass(c, "full")
    /\ UNCHANGED <<gpu, quiet, age, requested, believed, sysVars, stolen, stranded>>

Done(a, res, seen) ==
    [Idle EXCEPT !.pc = "done", !.job = op[a].job, !.res = res, !.seen = seen]

\* The driver has no device: an empty list, before the override is looked at.
FindsNoDevice(a) ==
    /\ op[a].pc = "decide" /\ op[a].saw = "none"
    /\ op' = [op EXCEPT ![a] = Done(a, "absent", "none")]
    /\ stranded' = (stranded \/ requested)
    /\ UNCHANGED <<gpu, quiet, age, requested, believed, sysVars, stolen>>

\* All NVIDIA GPUs are suspended and nobody asked: a stub from the metadata.
ServeStub(a) ==
    /\ op[a].pc = "decide" /\ op[a].saw = "suspended" /\ ~requested
    /\ op' = [op EXCEPT ![a] = Done(a, "stub", "none")]
    /\ UNCHANGED <<gpu, quiet, age, requested, believed, sysVars, stolen, stranded>>

\* The idle tier: every active GPU has a fresh snapshot.
MayServeSnapshot == Fresh

\* Last-known values are served and NVML is left alone.
ServeSnapshot(a) ==
    /\ op[a].pc = "decide" /\ op[a].saw = "active" /\ ~requested
    /\ MayServeSnapshot
    /\ op' = [op EXCEPT ![a] = Done(a, "cached", "none")]
    /\ UNCHANGED <<gpu, quiet, age, requested, believed, sysVars, stolen, stranded>>

\* Mutant: a pass consumes the override when it looks at it.
LoadSwaps == requested' = FALSE

\* The override is only loaded before the pass.
Load == UNCHANGED requested

\* A full pass, forced or because no snapshot is fresh.
BeginQuery(a) ==
    /\ op[a].pc = "decide" /\ op[a].saw # "none"
    /\ requested \/ (op[a].saw = "active" /\ ~MayServeSnapshot)
    /\ op' = [op EXCEPT ![a] = [@ EXCEPT !.pc = "query", !.full = requested]]
    /\ Load
    /\ UNCHANGED <<gpu, quiet, age, believed, sysVars, stolen, stranded>>

\* get_nvml()? ends the pass before its GPUs are listed and before the override
\* is taken back; get_gpu_info drops the error.
NvmlMissing(a) ==
    /\ op[a].pc = "query" /\ ~nvml
    /\ op' = [op EXCEPT ![a] = Done(a, "absent", "none")]
    /\ stranded' = (stranded \/ requested)
    /\ UNCHANGED <<gpu, quiet, age, requested, believed, sysVars, stolen>>

\* Mutant: the snapshot of a pass is not stored over an older one.
SnapshotOnce == age' = age

\* Every full pass stores a snapshot with the time of the pass.
Snapshot == age' = 0

\* device.performance_state() and the polls.  Of a GPU that sysfs called
\* suspended no metric is polled although the pass has just woken it; the
\* snapshot is stored all the same.
Query(a) ==
    /\ op[a].pc = "query"
    /\ Touch
    /\ Snapshot
    /\ op' = [op EXCEPT ![a] = [@ EXCEPT !.pc = "clear", !.saw = "none",
                 !.res = IF op[a].saw = "active" THEN "live" ELSE "blind",
                 !.seen = Awake]]
    /\ UNCHANGED <<requested, believed, sysVars, stolen, stranded>>

\* device_count or device_by_index fails: the GPU is left out of the list.
DeviceRefused(a) ==
    /\ op[a].pc = "query" /\ nvml
    /\ op' = [op EXCEPT ![a] =
                 [@ EXCEPT !.pc = "clear", !.saw = "none", !.res = "absent"]]
    /\ UNCHANGED <<gpu, quiet, age, requested, believed, sysVars, stolen, stranded>>

\* Mutant: only a pass that served live values takes the override back.
ConsumedWhenLive(a) == op[a].full /\ op[a].res = "live"

\* The end of a full pass takes the override back if it was forced by one,
\* whoever asked for it and however often it was armed since.
Consumed(a) == op[a].full

Clear(a) ==
    /\ op[a].pc = "clear"
    /\ op' = [op EXCEPT ![a] = Done(a, @.res, @.seen)]
    /\ requested' = (requested /\ ~Consumed(a))
    /\ stolen' = IF Consumed(a)
                   THEN stolen \cup {c \in Callers : op[c].pc \in {"start", "decide"}}
                   ELSE stolen
    /\ stranded' = (stranded /\ ~Consumed(a))
    /\ UNCHANGED <<gpu, quiet, age, believed, sysVars>>

\* get_all_fan_info calls NVML unless the GPU is suspended or its snapshot
\* fresh.
FansNeedNvml == nvml /\ driver /\ gpu # "suspended" /\ ~Fresh

\* refresh_hardware_cache goes on to get_all_fan_info.
ReadFans ==
    /\ op[Sched].pc = "done" /\ op[Sched].job = "monitor"
    /\ op' = [op EXCEPT ![Sched] = Idle]
    /\ IF FansNeedNvml THEN Touch ELSE UNCHANGED <<gpu, quiet>>
    /\ UNCHANGED <<age, requested, believed, sysVars, stolen, stranded>>

ReplyFull(c) ==
    /\ op[c].pc = "done"
    /\ op' = [op EXCEPT ![c] = Idle]
    /\ stolen' = stolen \ {c}
    /\ UNCHANGED <<gpu, quiet, age, requested, believed, sysVars, stranded>>

\* Mutant: any status lets the job act.
WritesAnyStatus(o) == believed # o.seen

\* apply_gpu_overclocking acts only on a status that names a P-state, and
\* writes only an offset that it does not believe to be set.
Writes(o) == o.res \in {"live", "blind"} /\ believed # o.seen

JobActs ==
    LET o == op[Sched] IN
    /\ o.pc = "done" /\ o.job = "overclock"
    /\ op' = [op EXCEPT ![Sched] = Idle]
    /\ \/ Writes(o) /\ Touch /\ believed' = o.seen /\ cleared' \in BOOLEAN
       \/ UNCHANGED <<gpu, quiet, believed, cleared>>  \* no need, or NVML refuses
    /\ UNCHANGED <<age, requested, mode, nvml, driver, stolen, stranded>>

-----------------------------------------------------------------------------
(* Clients that write *)

\* ApplyProfile stores the profile's GPU settings, then writes some of them.
ApplyProfile(c) ==
    /\ ~Busy(c)
    /\ mode' \in {"dynamic", "off", "other"}
    /\ op' = [op EXCEPT ![c] = [Idle EXCEPT !.pc = "write", !.job = "set"]]
    /\ UNCHANGED <<gpu, quiet, age, requested, believed, cleared, nvml, driver,
                   stolen, stranded>>

\* The calls that set one thing or read one through NVML.
CallNvml(c) ==
    /\ ~Busy(c)
    /\ op' = [op EXCEPT ![c] = [Idle EXCEPT !.pc = "write", !.job = "set"]]
    /\ UNCHANGED <<gpu, quiet, age, requested, believed, sysVars, stolen, stranded>>

\* One NVML call of either; an offset that is set goes into the map.
Write(c) ==
    /\ op[c].pc = "write"
    /\ Touch /\ cleared' \in BOOLEAN
    /\ UNCHANGED <<age, requested, believed, op, mode, nvml, driver, stolen, stranded>>

EndWrites(c) ==
    /\ op[c].pc = "write"
    /\ op' = [op EXCEPT ![c] = Idle]
    /\ UNCHANGED <<gpu, quiet, age, requested, believed, sysVars, stolen, stranded>>

-----------------------------------------------------------------------------
(* The hardware *)

\* Programs start and stop using the GPU.
Work ==
    /\ driver
    /\ gpu' = IF gpu = "busy" THEN "idle" ELSE "busy"
    /\ quiet' = 0
    /\ UNCHANGED <<age, requested, believed, op, sysVars, stolen, stranded>>

\* The driver is bound to the GPU, at boot or after a switch of the graphics mode.
\* It keeps it: the daemon's NVML session holds the device open.
Bind ==
    /\ ~driver
    /\ driver' = TRUE
    /\ UNCHANGED <<gpu, quiet, age, requested, believed, op, mode, cleared, nvml,
                   stolen, stranded>>

Drowsy == driver /\ gpu = "idle"

Older == IF age < Ttl THEN age + 1 ELSE Ttl

\* Time passes; the kernel suspends an idle GPU whose timer ran out.  A pass of
\* a job is over within a tick, one of a call may take longer.
Tick ==
    /\ ~Busy(Sched)
    /\ IF Drowsy /\ quiet + 1 >= Autosuspend
         THEN gpu' = "suspended" /\ quiet' = 0
         ELSE gpu' = gpu /\ quiet' = (IF Drowsy THEN quiet + 1 ELSE 0)
    /\ age' = Older
    /\ UNCHANGED <<requested, believed, op, sysVars, stolen, stranded>>

-----------------------------------------------------------------------------

Pass(a) ==
    \/ FindsNoDevice(a) \/ ServeStub(a) \/ ServeSnapshot(a) \/ BeginQuery(a)
    \/ NvmlMissing(a) \/ Query(a) \/ DeviceRefused(a) \/ Clear(a)

SchedProgress == Pass(Sched) \/ ReadFans \/ JobActs \/ ResetOffsets

CallProgress(c) == BeginFull(c) \/ Pass(c) \/ ReplyFull(c) \/ EndWrites(c)

Calls(c) == GetGpuInfoFull(c) \/ ApplyProfile(c) \/ CallNvml(c) \/ Write(c)

Next ==
    \/ Monitor \/ Overclock \/ Forget \/ SchedProgress
    \/ \E c \in Callers : Calls(c) \/ CallProgress(c)
    \/ Work \/ Bind \/ Tick

\* The scheduler runs both of its jobs again and again (PollScheduler), NVML
\* does not refuse for ever, calls end, and time passes.
Fairness ==
    /\ SF_vars(Monitor) /\ SF_vars(Overclock \/ Forget)
    /\ WF_vars(SchedProgress) /\ SF_vars(Query(Sched))
    /\ \A c \in Callers : WF_vars(CallProgress(c))
    /\ SF_vars(Tick)

Spec == Init /\ [][Next]_vars /\ Fairness

-----------------------------------------------------------------------------
(* Properties *)

TypeOK ==
    /\ gpu \in {"suspended", "idle", "busy"}
    /\ quiet \in 0 .. (Autosuspend - 1) /\ age \in 0 .. Ttl
    /\ requested \in BOOLEAN
    /\ believed \in {None, "idle", "busy"}
    /\ op \in [Actors ->
          [pc : {"idle", "start", "decide", "query", "clear", "done", "reset", "write"},
           job : {"none", "monitor", "overclock", "full", "set"},
           saw : {"none", "suspended", "active"}, full : BOOLEAN,
           res : Results, seen : {"none", "idle", "busy"}]]
    /\ mode \in {"dynamic", "off", "other"}
    /\ cleared \in BOOLEAN /\ nvml \in BOOLEAN /\ driver \in BOOLEAN
    /\ stolen \subseteq Callers /\ stranded \in BOOLEAN

\* GetGpuInfoFull answers with values it read itself, except of a GPU that was
\* suspended, missing or refused, or when another pass consumed the override between
\* its arming and its pass.
FullIsLiveUnless ==
    \A c \in Callers :
        op[c].pc = "done" =>
            op[c].res \in {"live", "blind", "absent"} \/ c \in stolen

\* The override is consumed by the pass that reaches the devices: it is armed only
\* while a call is on its way to its pass, while a full pass runs, or after a pass
\* that found no device or no NVML left it so.
OverrideEnds ==
    requested =>
        \/ stranded
        \/ \E a \in Actors :
              \/ op[a].pc \in {"query", "clear"} /\ op[a].full
              \/ op[a].pc \in {"start", "decide"} /\ op[a].job = "full"

\* Detection and dynamic overclocking wake no GPU: one that is suspended is woken
\* by a client's write, by the reset of offsets when manual clocks are off, by a
\* forced pass, or by a pass that had looked at its status before it fell asleep.
SuspendedStays ==
    [][gpu = "suspended" /\ gpu' = "idle" =>
          \E a \in Actors :
              \/ op[a].pc = "query" /\ (op[a].full \/ op[a].saw = "active")
              \/ op[a].pc = "write" \/ op[a].pc = "reset"]_vars

\* The idle tier's purpose: a GPU that nobody uses gets to sleep and stays
\* asleep, although the monitor and the overclocking job keep polling and the
\* latter may have offsets to reset first.
IdleGpuSuspends ==
    <>[](gpu # "busy" /\ driver /\ \A c \in Callers : ~Busy(c))
        => <>[](gpu = "suspended")

\* dbus_interface.rs and hardware_detection.rs promise that the override wakes
\* a suspended GPU and serves live values of it.
FullWakesAndServesLive ==
    \A c \in Callers : op[c].pc = "done" => op[c].res # "blind"
=============================================================================
