---------------------------- MODULE GpuOverclock ----------------------------
(* The clock offsets of the discrete GPU: the gpu_overclock job, the setters *)
(* that D-Bus calls reach, and the four globals that say what is set:        *)
(* GPU_DAEMON_STATE, LAST_APPLIED_OFFSET, MANUAL_GPU_OFFSETS and             *)
(* CURRENT_GPU_OVERCLOCK_STATS.                                              *)
(*                                                                           *)
(* What the job's detection pass finds (GpuDetection) is any P-state, with   *)
(* any offset computed from it, or none.  A step is one NVML call or one     *)
(* access to a global.                                                       *)
EXTENDS Naturals

CONSTANTS
    Callers,        \* D-Bus calls that can be in progress together
    Offsets,        \* core clock offsets, 0 among them
    MemOffsets,     \* memory clock offsets, 0 among them
    Profiles,       \* GPU settings of the profiles that clients apply
    None            \* model value: no value

OverclockConstants ==
    /\ "sched" \notin Callers
    /\ 0 \in Offsets /\ 0 \in MemOffsets /\ None \notin Offsets \cup MemOffsets
    /\ None \notin Profiles
    /\ Profiles \subseteq [advanced : BOOLEAN, manual : BOOLEAN,
                           core : Offsets, mem : MemOffsets]

VARIABLES
    inForce,    \* the offsets in force on the GPU
    settings,   \* GPU_DAEMON_STATE
    last,       \* LAST_APPLIED_OFFSET
    map,        \* MANUAL_GPU_OFFSETS[0]
    stats,      \* total_offset of CURRENT_GPU_OVERCLOCK_STATS
    doing,      \* what each actor is doing
    ghost       \* history that the properties need

vars == <<inForce, settings, last, map, stats, doing, ghost>>

Sched == "sched"
Actors == Callers \cup {Sched}

NoEntry == [core |-> None, mem |-> None]
\* core and mem are the offsets an actor has still to write.
Idle == [pc |-> "idle", job |-> "none", core |-> None, mem |-> None]

Init ==
    \* The offsets of an earlier run of the daemon may still be in force.
    /\ inForce \in [core : Offsets, mem : {0}]
    /\ settings = None /\ last = None /\ map = NoEntry /\ stats = None
    /\ doing = [a \in Actors |-> Idle]
    /\ ghost = [outside |-> FALSE, lost |-> TRUE, asked |-> None]

Busy(a) == doing[a].pc # "idle"
Quiescent == \A a \in Actors : ~Busy(a)
\* a has an offset on its way to the GPU or to the map.
Writing(a) == doing[a].pc \in {"write", "map", "insert"}
Crossing(a) == \E b \in Actors \ {a} : Writing(b)

Dynamic == settings # None /\ settings.manual /\ settings.advanced
Static == settings # None /\ settings.manual /\ ~settings.advanced
Off == settings # None /\ ~settings.manual

-----------------------------------------------------------------------------
(* Writing offsets *)

Writer(job, core, mem) == [pc |-> "write", job |-> job, core |-> core, mem |-> mem]

Core(a) == doing[a].core # None

\* What follows a write of actor a, core before memory.
AfterWrite(a) ==
    LET o == IF Core(a) THEN [doing[a] EXCEPT !.core = None]
                        ELSE [doing[a] EXCEPT !.mem = None]
        more == o.core # None \/ o.mem # None IN
    IF more THEN [o EXCEPT !.pc = "write"]
    ELSE IF o.job = "reset" THEN [o EXCEPT !.pc = "insert"]
    ELSE Idle

\* The job works from a clone of settings that were replaced since.
Outdated(a) ==
    \/ doing[a].job \in {"dynamic", "leave_p0"} /\ ~Dynamic
    \/ doing[a].job = "reset" /\ ~Off

\* set_gpu_core_offset and set_gpu_memory_offset: NVML first.
WriteOffset(a) ==
    /\ doing[a].pc = "write"
    /\ inForce' = IF Core(a) THEN [inForce EXCEPT !.core = doing[a].core]
                             ELSE [inForce EXCEPT !.mem = doing[a].mem]
    /\ doing' = [doing EXCEPT ![a] = [@ EXCEPT !.pc = "map"]]
    /\ ghost' = [ghost EXCEPT
          !.outside = IF Core(a) THEN a # Sched ELSE @,
          !.asked = IF Crossing(a) \/ Outdated(a) THEN None ELSE @,
          !.lost = @ \/ Crossing(a)]
    /\ UNCHANGED <<settings, last, map, stats>>

\* Mutant: the entry is replaced instead of changed in one half.
EntryReplaced(a) ==
    IF Core(a) THEN [core |-> doing[a].core, mem |-> 0]
               ELSE [core |-> 0, mem |-> doing[a].mem]

\* Mutant: a new entry is not filled with zeros first.
EntryUnfilled(a) ==
    IF Core(a) THEN [map EXCEPT !.core = doing[a].core]
               ELSE [map EXCEPT !.mem = doing[a].mem]

\* The map entry is created with zeros, then changed in the half written.
Entry(a) ==
    LET e == IF map = NoEntry THEN [core |-> 0, mem |-> 0] ELSE map IN
    IF Core(a) THEN [e EXCEPT !.core = doing[a].core]
               ELSE [e EXCEPT !.mem = doing[a].mem]

\* Nobody writes any more, and map and GPU agree: what was lost is mended.
Agrees == map' = inForce /\ \A a \in Actors : doing'[a].pc \in {"idle", "pass"}

\* ... then the map; the job then remembers the offset and shows it.
MapOffset(a) ==
    /\ doing[a].pc = "map"
    /\ map' = Entry(a)
    /\ IF doing[a].job = "dynamic"
         THEN last' = doing[a].core /\ stats' = doing[a].core
         ELSE IF doing[a].job = "leave_p0"
         THEN last' = 0 /\ stats' = None
         ELSE UNCHANGED <<last, stats>>
    /\ doing' = [doing EXCEPT ![a] = AfterWrite(a)]
    /\ ghost' = [ghost EXCEPT
          !.lost = (@ \/ Crossing(a)) /\ ~Agrees]
    /\ UNCHANGED <<inForce, settings>>

\* Mutant: the offset is remembered before the write is known to be good.
BelieveAtOnce(a) ==
    last' = IF doing[a].job = "dynamic" THEN doing[a].core ELSE last

Believe(a) == UNCHANGED last

\* NVML refuses.  The job gives up the poll with `?`; the reset and the stages
\* of apply_profile go on with what is left to write.
WriteFails(a) ==
    /\ doing[a].pc = "write"
    /\ doing' = [doing EXCEPT ![a] =
                 IF doing[a].job \in {"dynamic", "leave_p0"} THEN Idle ELSE AfterWrite(a)]
    /\ Believe(a)
    /\ ghost' = [ghost EXCEPT
          !.asked = IF Core(a) /\ a # Sched THEN None ELSE @,
          !.lost = @ \/ doing[a].job = "reset"]
    /\ UNCHANGED <<inForce, settings, map, stats>>

-----------------------------------------------------------------------------
(* The gpu_overclock job *)

\* Mutant: only the core offset is looked at.
NeedsClearCore == map.core # 0

\* An entry that was never made counts as not cleared.
NeedsClear == map.core # 0 \/ map.mem # 0

\* Without settings, or with dynamic control off, the job forgets its offset;
\* with manual clocks off it also resets what the map says is set.
JobOff ==
    /\ ~Busy(Sched) /\ ~Dynamic
    /\ last' = None /\ stats' = None
    /\ doing' = IF Off /\ NeedsClear
               THEN [doing EXCEPT ![Sched] = Writer("reset", 0, 0)]
               ELSE doing
    /\ ghost' = [ghost EXCEPT !.outside = FALSE]
    /\ UNCHANGED <<inForce, settings, map>>

\* The reset ends with zeros in the map, whatever became of its writes.
InsertZeros ==
    /\ doing[Sched].pc = "insert"
    /\ map' = [core |-> 0, mem |-> 0]
    /\ doing' = [doing EXCEPT ![Sched] = Idle]
    /\ ghost' = [ghost EXCEPT !.lost = (@ \/ Crossing(Sched)) /\ ~Agrees]
    /\ UNCHANGED <<inForce, settings, last, stats>>

\* With dynamic control on it starts with a detection pass ...
JobOn ==
    /\ ~Busy(Sched) /\ Dynamic
    /\ doing' = [doing EXCEPT ![Sched] = [Idle EXCEPT !.pc = "pass", !.job = "dynamic"]]
    /\ UNCHANGED <<inForce, settings, last, map, stats, ghost>>

\* ... which may find no P-state: nothing is done.
FindsNothing ==
    /\ doing[Sched].pc = "pass"
    /\ doing' = [doing EXCEPT ![Sched] = Idle]
    /\ UNCHANGED <<inForce, settings, last, map, stats, ghost>>

\* In P0 the computed offset is written unless it is believed to be set.
FindsP0 ==
    \E offset \in Offsets :
        /\ doing[Sched].pc = "pass"
        /\ IF last = offset
             THEN /\ doing' = [doing EXCEPT ![Sched] = Idle]
                  /\ stats' = offset
             ELSE /\ doing' = [doing EXCEPT ![Sched] = Writer("dynamic", offset, None)]
                  /\ UNCHANGED stats
        /\ UNCHANGED <<inForce, settings, last, map, ghost>>

\* Below P0 the offset is cleared unless it is believed to be.
LeavesP0 ==
    /\ doing[Sched].pc = "pass"
    /\ IF last = 0
         THEN /\ doing' = [doing EXCEPT ![Sched] = Idle]
              /\ stats' = None
         ELSE /\ doing' = [doing EXCEPT ![Sched] = Writer("leave_p0", 0, None)]
              /\ UNCHANGED stats
    /\ UNCHANGED <<inForce, settings, last, map, ghost>>

-----------------------------------------------------------------------------
(* Calls *)

\* Mutant: an offset of zero is taken for none.
ProfileOffsetsNonZero(p) ==
    Writer("set", IF p.core = 0 THEN None ELSE p.core, p.mem)

\* The part of apply_profile that sets the offsets, each as best it can.
ProfileOffsets(p) == Writer("set", p.core, p.mem)

\* ApplyProfile replaces the settings of the job; a profile that is the last
\* one applied goes no further.
ApplyProfile(c, p) ==
    /\ ~Busy(c)
    /\ settings' = p
    /\ \/ /\ settings = p
          /\ UNCHANGED <<doing, ghost>>
       \/ /\ doing' = [doing EXCEPT ![c] = ProfileOffsets(p)]
          /\ ghost' = [ghost EXCEPT !.asked =
                IF p.manual /\ ~p.advanced /\ ~Crossing(c) THEN p.core ELSE None]
    /\ UNCHANGED <<inForce, last, map, stats>>

SetGpuCoreOffset(c, v) ==
    /\ ~Busy(c)
    /\ doing' = [doing EXCEPT ![c] = Writer("set", v, None)]
    /\ ghost' = [ghost EXCEPT !.asked = IF Static /\ ~Crossing(c) THEN v ELSE None]
    /\ UNCHANGED <<inForce, settings, last, map, stats>>

SetGpuMemoryOffset(c, v) ==
    /\ ~Busy(c)
    /\ doing' = [doing EXCEPT ![c] = Writer("set", None, v)]
    /\ UNCHANGED <<inForce, settings, last, map, stats, ghost>>

-----------------------------------------------------------------------------

Writes(a) == WriteOffset(a) \/ MapOffset(a) \/ WriteFails(a)

Job == JobOff \/ JobOn

JobProgress ==
    Writes(Sched) \/ InsertZeros \/ FindsNothing \/ FindsP0 \/ LeavesP0

Call(c) ==
    \/ \E p \in Profiles : ApplyProfile(c, p)
    \/ \E v \in Offsets : SetGpuCoreOffset(c, v)
    \/ \E v \in MemOffsets : SetGpuMemoryOffset(c, v)

Next == Job \/ JobProgress \/ \E c \in Callers : Call(c) \/ Writes(c)

\* The scheduler runs the job again and again (PollScheduler) and what was
\* begun is ended.
Fairness ==
    /\ SF_vars(JobOff \/ JobOn)
    /\ WF_vars(JobProgress)
    /\ \A c \in Callers : WF_vars(Writes(c))

Spec == Init /\ [][Next]_vars /\ Fairness

-----------------------------------------------------------------------------
(* Properties *)

TypeOK ==
    /\ inForce \in [core : Offsets, mem : MemOffsets]
    /\ settings \in Profiles \cup {None}
    /\ last \in Offsets \cup {None}
    /\ map \in {NoEntry} \cup [core : Offsets, mem : MemOffsets]
    /\ stats \in Offsets \cup {None}
    /\ doing \in [Actors ->
          [pc : {"idle", "pass", "write", "map", "insert"},
           job : {"none", "dynamic", "leave_p0", "reset", "set"},
           core : Offsets \cup {None}, mem : MemOffsets \cup {None}]]
    /\ ghost \in [outside : BOOLEAN, lost : BOOLEAN, asked : Offsets \cup {None}]

\* The job skips a write because it believes that its offset is set.  With the
\* job between two polls the belief is wrong only because a client wrote the
\* core offset after the job did; what the GUI is shown is what is believed.
BeliefBrokenOnlyOutside ==
    ~Busy(Sched) =>
        /\ last # None /\ ~ghost.outside => inForce.core = last
        /\ stats # None => stats = last

\* MANUAL_GPU_OFFSETS is what the daemon takes for the GPU's offsets.  At rest
\* it is right, unless two writers crossed, a reset failed or the GPU had
\* offsets when the daemon started.
MapMirrorsGpu == ~ghost.lost => map = inForce

\* With manual clocks and no dynamic control the GPU keeps the core offset that
\* was asked for last, unless a write was refused, two writers crossed or the
\* job wrote for settings that had been replaced.
StaticOffsetHolds == Static /\ ghost.asked # None => inForce.core = ghost.asked

\* Once every call has ended and the job rests, the GPU has the offsets that the
\* daemon believes and the client asked for.
OffsetsAsTold == Quiescent => MapMirrorsGpu /\ StaticOffsetHolds

\* With manual clocks off the offsets end up cleared, with the same exceptions
\* as the map.
ManualOffClears ==
    <>[](Off /\ \A c \in Callers : ~Busy(c))
        => <>[](ghost.lost \/ (inForce.core = 0 /\ inForce.mem = 0))
=============================================================================
