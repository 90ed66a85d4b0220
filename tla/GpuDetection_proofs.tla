------------------------- MODULE GpuDetection_proofs -------------------------
(* Proofs of the safety properties of GpuDetection, for any number of D-Bus *)
(* calls, any autosuspend delay and any lifetime of a snapshot.             *)
(*                                                                          *)
(* The three properties speak of the end of a pass; what makes them true is *)
(* what a pass knows at each of its labels, which IInv adds:                *)
(*   Armed     a call that has yet to look at the override finds it armed,  *)
(*             or another pass consumed it meanwhile;                       *)
(*   Answered  a full pass ends with a result of its own;                   *)
(*   Forced    a full pass was forced, or saw the GPU active;               *)
(*   KeptAwake from its NVML call on, the job's pass has an awake GPU.      *)
EXTENDS GpuDetection, TLAPS

OpType ==
    [pc : {"idle", "start", "decide", "query", "clear", "done", "reset", "write"},
     job : {"none", "monitor", "overclock", "full", "set"},
     saw : {"none", "suspended", "active"}, full : BOOLEAN,
     res : Results, seen : {"none", "idle", "busy"}]

\* A pass that read values knows in which state it found the GPU.
PassType ==
    {o \in OpType : o.res \in {"live", "blind"} => o.seen # "none"}

Armed ==
    \A c \in Callers :
        op[c].pc \in {"start", "decide"} => requested \/ c \in stolen

Answered ==
    \A a \in Actors :
        op[a].pc = "clear" => op[a].res \in {"live", "blind", "absent"}

Forced ==
    \A a \in Actors : op[a].pc = "query" => op[a].full \/ op[a].saw = "active"

KeptAwake ==
    op[Sched].pc \in {"clear", "done"} /\ op[Sched].res \in {"live", "blind"}
        => gpu # "suspended"

IInv ==
    /\ TypeOK /\ op \in [Actors -> PassType]
    /\ Armed /\ Answered /\ Forced /\ KeptAwake
    /\ OverrideEnds /\ FullIsLiveUnless

-----------------------------------------------------------------------------
(* Lemmas *)

\* The scheduler is an actor, and none of the calls.
LEMMA ActorFacts ==
    /\ Sched \in Actors /\ Sched \notin Callers
    /\ \A c \in Callers : c \in Actors
BY GpuAssumption DEF Actors, Sched

\* The idle record is an operation, and so is what StartPass makes of it.
LEMMA IdleFacts ==
    Idle \in PassType /\ Idle.pc = "idle" /\ ~Idle.full
BY DEF PassType, OpType, Idle, Results

\* What StartPass makes of it.
LEMMA BegunFacts ==
    ASSUME NEW job \in {"monitor", "overclock", "full"},
           NEW saw \in {"none", "suspended", "active"},
           NEW o, o = [Idle EXCEPT !.pc = "decide", !.job = job, !.saw = saw]
    PROVE  o \in PassType /\ o.pc = "decide" /\ o.job = job
BY DEF PassType, OpType, Idle, Results

\* What a call makes of it, and a job that resets the offsets.
LEMMA AskedFacts ==
    ASSUME NEW pc \in {"start", "reset", "write"},
           NEW job \in {"full", "overclock", "set"},
           NEW o, o = [Idle EXCEPT !.pc = pc, !.job = job]
    PROVE  o \in PassType /\ o.pc = pc /\ o.job = job /\ ~o.full
BY DEF PassType, OpType, Idle, Results

\* One operation changes.
LEMMA ChangeFacts ==
    ASSUME op \in [Actors -> PassType], NEW a \in Actors, NEW o \in PassType,
           op' = [op EXCEPT ![a] = o]
    PROVE  /\ op' \in [Actors -> PassType] /\ op'[a] = o
           /\ \A b \in Actors \ {a} : op'[b] = op[b]
OBVIOUS

\* Typed operations make TypeOK's conjunct about op.
LEMMA OpTyped ==
    op \in [Actors -> PassType] => op \in [Actors -> OpType]
BY DEF PassType

LEMMA OpTypedNext ==
    op' \in [Actors -> PassType] => op' \in [Actors -> OpType]
BY DEF PassType

\* What Done makes of an operation.
LEMMA DoneFacts ==
    ASSUME NEW a \in Actors, op[a] \in PassType, NEW res \in Results,
           NEW seen \in {"none", "idle", "busy"},
           res \in {"live", "blind"} => seen # "none"
    PROVE  /\ Done(a, res, seen) \in PassType
           /\ Done(a, res, seen).pc = "done" /\ Done(a, res, seen).res = res
<1> DEFINE d == Done(a, res, seen)
<1>1. op[a] \in OpType
  BY DEF PassType
<1>2. d \in OpType
  BY ZenonT(60), <1>1 DEF OpType, Idle, Results, Done
<1>3. d.pc = "done" /\ d.res = res /\ d.seen = seen
  BY <1>1 DEF OpType, Idle, Done
<1> HIDE DEF d
<1> QED
  BY <1>2, <1>3 DEF PassType, d

\* An NVML call leaves a GPU that is awake, with its timer restarted.
LEMMA TouchFacts ==
    ASSUME TypeOK, Touch
    PROVE  gpu' \in {"idle", "busy"} /\ quiet' \in 0 .. (Autosuspend - 1)
BY GpuAssumption DEF TypeOK, Touch, Awake

LEMMA TryTouchFacts ==
    ASSUME TypeOK, TryTouch
    PROVE  /\ gpu' \in {"suspended", "idle", "busy"}
           /\ quiet' \in 0 .. (Autosuspend - 1)
           /\ gpu # "suspended" => gpu' # "suspended"
BY TouchFacts DEF TryTouch, TypeOK

-----------------------------------------------------------------------------
(* The invariant *)

\* The invariant holds in every initial state.
LEMMA InitHolds == Init => IInv
<1> SUFFICES ASSUME Init PROVE IInv
  OBVIOUS
<1>1. op \in [Actors -> PassType] /\ \A a \in Actors : op[a].pc = "idle"
  BY IdleFacts DEF Init
<1>2. TypeOK
  <2>1. quiet \in 0 .. (Autosuspend - 1) /\ age \in 0 .. Ttl
    BY GpuAssumption DEF Init
  <2> QED
    BY <1>1, <2>1, OpTyped DEF Init, TypeOK, OpType
<1>3. Answered /\ Forced /\ KeptAwake /\ FullIsLiveUnless
  BY <1>1, ActorFacts DEF Answered, Forced, KeptAwake, FullIsLiveUnless
<1>4. Armed /\ OverrideEnds
  BY <1>1, ActorFacts DEF Init, Armed, OverrideEnds
<1> QED
  BY <1>1, <1>2, <1>3, <1>4 DEF IInv

\* A job's pass begins.
LEMMA StartStep ==
    ASSUME IInv, Monitor \/ Overclock
    PROVE  IInv'
<1>1. PICK job \in {"monitor", "overclock"} :
          /\ StartPass(Sched, job) /\ ~Busy(Sched)
          /\ UNCHANGED <<gpu, quiet, age, requested, believed, sysVars, stolen, stranded>>
  BY DEF Monitor, Overclock
<1> DEFINE new == op'[Sched]
<1>2. /\ op' \in [Actors -> PassType]
      /\ new.pc = "decide" /\ new.job = job
      /\ \A b \in Actors \ {Sched} : op'[b] = op[b]
  <2> DEFINE o == [Idle EXCEPT !.pc = "decide", !.job = job, !.saw = Seen]
  <2>1. op' = [op EXCEPT ![Sched] = o]
    BY <1>1 DEF StartPass
  <2>2. o \in PassType /\ o.pc = "decide" /\ o.job = job
    <3>1. /\ job \in {"monitor", "overclock", "full"}
          /\ Seen \in {"none", "suspended", "active"}
      BY <1>1 DEF Seen
    <3> QED
      BY ZenonT(60), <3>1, BegunFacts
  <2> QED
    BY <2>1, <2>2, ChangeFacts, ActorFacts DEF IInv
<1> HIDE DEF new
<1>3. TypeOK'
  BY OpTypedNext, <1>1, <1>2 DEF IInv, TypeOK, OpType, sysVars
<1>4. op[Sched].pc = "idle"
  BY <1>1 DEF Busy
<1>5. OverrideEnds'
  BY <1>1, <1>2, <1>4, ActorFacts DEF IInv, OverrideEnds
<1> QED
  BY <1>1, <1>2, <1>3, <1>5, ActorFacts
     DEF IInv, new, Armed, Answered, Forced, KeptAwake, FullIsLiveUnless

\* The job without dynamic control, and its reset of the offsets.
LEMMA ForgetStep ==
    ASSUME IInv, Forget \/ ResetOffsets
    PROVE  IInv'
<1>1. /\ op[Sched].pc \in {"idle", "reset"}
      /\ UNCHANGED <<age, requested, mode, nvml, driver, stolen, stranded>>
      /\ believed' \in {believed, None} /\ cleared' \in {cleared, TRUE}
  BY DEF Forget, ResetOffsets, Busy, sysVars
<1>2. /\ op' \in [Actors -> PassType]
      /\ op'[Sched].pc \in {"idle", "reset"}
      /\ \A b \in Actors \ {Sched} : op'[b] = op[b]
  <2>1. CASE op' = op
    BY <1>1, <2>1, ActorFacts DEF IInv
  <2>2. CASE op' = [op EXCEPT ![Sched] = Idle]
    BY <2>2, IdleFacts, ChangeFacts, ActorFacts DEF IInv
  <2>3. CASE op' = [op EXCEPT ![Sched] =
                       [Idle EXCEPT !.pc = "reset", !.job = "overclock"]]
    <3> DEFINE o == [Idle EXCEPT !.pc = "reset", !.job = "overclock"]
    <3>1. o \in PassType /\ o.pc = "reset"
      BY AskedFacts
    <3> QED
      BY <2>3, <3>1, ChangeFacts, ActorFacts DEF IInv
  <2> QED
    BY <2>1, <2>2, <2>3 DEF Forget, ResetOffsets
<1>3. /\ gpu' \in {"suspended", "idle", "busy"}
      /\ quiet' \in 0 .. (Autosuspend - 1)
      /\ gpu # "suspended" => gpu' # "suspended"
  BY TryTouchFacts DEF Forget, ResetOffsets, IInv, TypeOK
<1>4. TypeOK'
  BY OpTypedNext, <1>1, <1>2, <1>3 DEF IInv, TypeOK, OpType
<1>5. OverrideEnds'
  BY <1>1, <1>2, ActorFacts DEF IInv, OverrideEnds
<1> QED
  BY <1>1, <1>2, <1>3, <1>4, <1>5, ActorFacts
     DEF IInv, Armed, Answered, Forced, KeptAwake, FullIsLiveUnless

\* A client that writes begins, writes, or ends.
LEMMA ClientStep ==
    ASSUME IInv, NEW c \in Callers,
           ApplyProfile(c) \/ CallNvml(c) \/ Write(c) \/ EndWrites(c)
    PROVE  IInv'
<1>1. /\ op[c].pc \in {"idle", "write"}
      /\ UNCHANGED <<age, requested, believed, nvml, driver, stolen, stranded>>
      /\ mode' \in {mode, "dynamic", "off", "other"}
      /\ cleared' \in BOOLEAN
  BY DEF ApplyProfile, CallNvml, Write, EndWrites, Busy, sysVars, IInv, TypeOK
<1>2. /\ op' \in [Actors -> PassType]
      /\ op'[c].pc \in {"idle", "write"}
      /\ \A b \in Actors \ {c} : op'[b] = op[b]
  <2>1. CASE op' = op
    BY <1>1, <2>1, ActorFacts DEF IInv
  <2>2. CASE op' = [op EXCEPT ![c] = Idle]
    BY <2>2, IdleFacts, ChangeFacts, ActorFacts DEF IInv
  <2>3. CASE op' = [op EXCEPT ![c] = [Idle EXCEPT !.pc = "write", !.job = "set"]]
    <3> DEFINE o == [Idle EXCEPT !.pc = "write", !.job = "set"]
    <3>1. o \in PassType /\ o.pc = "write"
      BY AskedFacts
    <3> QED
      BY <2>3, <3>1, ChangeFacts, ActorFacts DEF IInv
  <2> QED
    BY <2>1, <2>2, <2>3 DEF ApplyProfile, CallNvml, Write, EndWrites
<1>3. /\ gpu' \in {"suspended", "idle", "busy"}
      /\ quiet' \in 0 .. (Autosuspend - 1)
      /\ gpu # "suspended" => gpu' # "suspended"
  BY TouchFacts DEF ApplyProfile, CallNvml, Write, EndWrites, IInv, TypeOK
<1>4. TypeOK'
  BY OpTypedNext, <1>1, <1>2, <1>3 DEF IInv, TypeOK, OpType
<1>5. OverrideEnds'
  BY <1>1, <1>2, ActorFacts DEF IInv, OverrideEnds
<1> QED
  BY <1>1, <1>2, <1>3, <1>4, <1>5, ActorFacts
     DEF IInv, Armed, Answered, Forced, KeptAwake, FullIsLiveUnless

\* GetGpuInfoFull arms the override.
LEMMA RequestStep ==
    ASSUME IInv, NEW c \in Callers, GetGpuInfoFull(c)
    PROVE  IInv'
<1>1. /\ op' \in [Actors -> PassType]
      /\ op'[c].pc = "start" /\ op'[c].job = "full"
      /\ \A b \in Actors \ {c} : op'[b] = op[b]
  <2> DEFINE o == [Idle EXCEPT !.pc = "start", !.job = "full"]
  <2>1. op' = [op EXCEPT ![c] = o]
    BY DEF GetGpuInfoFull
  <2>2. o \in PassType /\ o.pc = "start" /\ o.job = "full"
    BY AskedFacts
  <2> QED
    BY <2>1, <2>2, ChangeFacts, ActorFacts DEF IInv
<1>2. TypeOK'
  BY OpTypedNext, <1>1 DEF GetGpuInfoFull, IInv, TypeOK, OpType, sysVars
<1> QED
  BY <1>1, <1>2, ActorFacts
     DEF GetGpuInfoFull, IInv, Armed, Answered, Forced, KeptAwake, OverrideEnds,
         FullIsLiveUnless

\* The blocking pool begins the pass of a call.
LEMMA BeginFullStep ==
    ASSUME IInv, NEW c \in Callers, BeginFull(c)
    PROVE  IInv'
<1>1. /\ op' \in [Actors -> PassType]
      /\ op'[c].pc = "decide" /\ op'[c].job = "full"
      /\ \A b \in Actors \ {c} : op'[b] = op[b]
  <2> DEFINE o == [Idle EXCEPT !.pc = "decide", !.job = "full", !.saw = Seen]
  <2>1. op' = [op EXCEPT ![c] = o]
    BY DEF BeginFull, StartPass
  <2>2. o \in PassType /\ o.pc = "decide" /\ o.job = "full"
    <3>1. Seen \in {"none", "suspended", "active"}
      BY DEF Seen
    <3> QED
      BY ZenonT(60), <3>1, BegunFacts
  <2> QED
    BY <2>1, <2>2, ChangeFacts, ActorFacts DEF IInv
<1>2. TypeOK'
  BY OpTypedNext, <1>1 DEF BeginFull, IInv, TypeOK, OpType, sysVars
<1>3. Armed'
  BY <1>1, ActorFacts DEF BeginFull, IInv, Armed
<1>4. OverrideEnds'
  BY <1>1, ActorFacts DEF BeginFull, IInv, OverrideEnds
<1> QED
  BY <1>1, <1>2, <1>3, <1>4, ActorFacts
     DEF BeginFull, IInv, Answered, Forced, KeptAwake, FullIsLiveUnless

\* A pass ends without a query: a stub or a snapshot is served when nobody had
\* armed the override, or there is nothing to query.
LEMMA ServeStep ==
    ASSUME IInv, NEW a \in Actors,
           ServeStub(a) \/ ServeSnapshot(a) \/ FindsNoDevice(a) \/ NvmlMissing(a)
    PROVE  IInv'
<1>1. PICK res \in {"stub", "cached", "absent"} :
          /\ op' = [op EXCEPT ![a] = Done(a, res, "none")]
          /\ res # "absent" => op[a].pc = "decide" /\ ~requested
          /\ UNCHANGED <<gpu, quiet, age, requested, believed, sysVars, stolen>>
          /\ stranded' \in {stranded, TRUE}
          /\ res = "absent" => stranded' = (stranded \/ requested)
  BY DEF ServeStub, ServeSnapshot, FindsNoDevice, NvmlMissing, IInv, TypeOK
<1>2. /\ op' \in [Actors -> PassType]
      /\ op'[a].pc = "done" /\ op'[a].res = res
      /\ \A b \in Actors \ {a} : op'[b] = op[b]
  <2>1. op[a] \in PassType /\ res \in Results
    BY DEF IInv, Results
  <2>2. Done(a, res, "none") \in PassType /\ Done(a, res, "none").pc = "done"
        /\ Done(a, res, "none").res = res
    BY <2>1, DoneFacts
  <2> HIDE DEF Done
  <2> QED
    BY <1>1, <2>2, ChangeFacts DEF IInv
<1>3. TypeOK'
  BY OpTypedNext, <1>1, <1>2 DEF IInv, TypeOK, OpType, sysVars
<1>4. FullIsLiveUnless'
  <2>1. a \in Callers => a \in stolen \/ res = "absent"
    BY <1>1 DEF IInv, Armed
  <2> QED
    BY <1>1, <1>2, <2>1, ActorFacts DEF IInv, FullIsLiveUnless
<1>5. OverrideEnds'
  BY <1>1, <1>2 DEF IInv, OverrideEnds
<1>6. KeptAwake'
  BY <1>1, <1>2, ActorFacts DEF IInv, KeptAwake
<1> QED
  BY <1>1, <1>2, <1>3, <1>4, <1>5, <1>6, ActorFacts
     DEF IInv, Armed, Answered, Forced

\* A full pass is decided on.
LEMMA BeginQueryStep ==
    ASSUME IInv, NEW a \in Actors, BeginQuery(a)
    PROVE  IInv'
<1>1. /\ op' \in [Actors -> PassType]
      /\ op'[a].pc = "query" /\ op'[a].full = requested /\ op'[a].saw = op[a].saw
      /\ \A b \in Actors \ {a} : op'[b] = op[b]
  <2> DEFINE o == [op[a] EXCEPT !.pc = "query", !.full = requested]
  <2>1. op[a] \in PassType /\ requested \in BOOLEAN
    BY DEF IInv, TypeOK
  <2>2. op' = [op EXCEPT ![a] = o]
    BY DEF BeginQuery
  <2>3. o \in PassType /\ o.pc = "query" /\ o.full = requested /\ o.saw = op[a].saw
    BY <2>1 DEF PassType, OpType
  <2> QED
    BY <2>2, <2>3, ChangeFacts DEF IInv
<1>2. TypeOK'
  BY OpTypedNext, <1>1 DEF BeginQuery, Load, IInv, TypeOK, OpType, sysVars
<1>3. Forced'
  BY <1>1 DEF BeginQuery, IInv, Forced
<1>4. OverrideEnds'
  BY <1>1 DEF BeginQuery, Load, OverrideEnds
<1> QED
  BY <1>1, <1>2, <1>3, <1>4, ActorFacts
     DEF BeginQuery, Load, IInv, Armed, Answered, KeptAwake, FullIsLiveUnless

\* The NVML calls of a full pass, and their failure.
LEMMA QueryStep ==
    ASSUME IInv, NEW a \in Actors, Query(a) \/ DeviceRefused(a)
    PROVE  IInv'
<1>1. /\ op[a].pc = "query"
      /\ UNCHANGED <<requested, believed, sysVars, stolen, stranded>>
  BY DEF Query, DeviceRefused
<1>2. /\ op' \in [Actors -> PassType]
      /\ op'[a].pc = "clear" /\ op'[a].full = op[a].full
      /\ op'[a].res \in {"live", "blind", "absent"}
      /\ gpu' # "suspended" \/ op'[a].res = "absent"
      /\ \A b \in Actors \ {a} : op'[b] = op[b]
  <2>1. Awake \in {"idle", "busy"}
    BY DEF Awake, IInv, TypeOK
  <2>t. op[a] \in PassType
    BY DEF IInv
  <2>2. CASE Query(a)
    <3> DEFINE o == [op[a] EXCEPT !.pc = "clear", !.saw = "none",
                        !.res = IF op[a].saw = "active" THEN "live" ELSE "blind",
                        !.seen = Awake]
    <3>1. op' = [op EXCEPT ![a] = o]
      BY <2>2 DEF Query
    <3>2. /\ o \in PassType /\ o.pc = "clear" /\ o.full = op[a].full
          /\ o.res \in {"live", "blind", "absent"}
      <4>1. op[a] \in OpType
        BY <2>t DEF PassType
      <4>2. o \in OpType
        BY ZenonT(60), <2>1, <4>1 DEF OpType, Results
      <4>3. /\ o.pc = "clear" /\ o.full = op[a].full /\ o.seen = Awake
            /\ o.res \in {"live", "blind", "absent"}
        BY <4>1 DEF OpType
      <4> HIDE DEF o
      <4>4. o.seen # "none"
        BY <2>1, <4>3
      <4> QED
        BY <4>2, <4>3, <4>4 DEF PassType
    <3>3. gpu' # "suspended"
      BY <2>2, TouchFacts DEF Query, IInv
    <3> QED
      BY <3>1, <3>2, <3>3, ChangeFacts DEF IInv
  <2>3. CASE DeviceRefused(a)
    <3> DEFINE o == [op[a] EXCEPT !.pc = "clear", !.saw = "none", !.res = "absent"]
    <3>1. op' = [op EXCEPT ![a] = o]
      BY <2>3 DEF DeviceRefused
    <3>2. /\ o \in PassType /\ o.pc = "clear" /\ o.full = op[a].full
          /\ o.res = "absent"
      <4>1. op[a] \in OpType
        BY <2>t DEF PassType
      <4>2. o \in OpType
        BY <4>1 DEF OpType, Results
      <4>3. o.pc = "clear" /\ o.full = op[a].full /\ o.res = "absent"
        BY <4>1 DEF OpType
      <4> HIDE DEF o
      <4> QED
        BY <4>2, <4>3 DEF PassType
    <3> QED
      BY <3>1, <3>2, ChangeFacts DEF IInv
  <2> QED
    BY <2>2, <2>3
<1>3. TypeOK'
  <2>1. /\ gpu' \in {"suspended", "idle", "busy"}
        /\ quiet' \in 0 .. (Autosuspend - 1) /\ age' \in 0 .. Ttl
    BY TouchFacts, GpuAssumption DEF Query, DeviceRefused, Snapshot, IInv, TypeOK
  <2> QED
    BY OpTypedNext, <1>1, <1>2, <2>1 DEF IInv, TypeOK, OpType, sysVars
<1>4. OverrideEnds'
  BY <1>1, <1>2 DEF IInv, OverrideEnds
<1>5. KeptAwake'
  <2>1. gpu # "suspended" => gpu' # "suspended"
    BY TouchFacts DEF Query, DeviceRefused, IInv
  <2> QED
    BY <1>2, <2>1, ActorFacts DEF IInv, KeptAwake
<1> QED
  BY <1>1, <1>2, <1>3, <1>4, <1>5, ActorFacts
     DEF IInv, Armed, Answered, Forced, FullIsLiveUnless

\* The end of a full pass.
LEMMA ClearStep ==
    ASSUME IInv, NEW a \in Actors, Clear(a)
    PROVE  IInv'
<1>1. /\ op' \in [Actors -> PassType]
      /\ op[a].pc = "clear"
      /\ op'[a].pc = "done" /\ op'[a].res = op[a].res
      /\ \A b \in Actors \ {a} : op'[b] = op[b]
  <2> DEFINE o == Done(a, op[a].res, op[a].seen)
  <2>1. op[a] \in PassType
    BY DEF IInv
  <2>2. /\ op[a].res \in Results /\ op[a].seen \in {"none", "idle", "busy"}
        /\ op[a].res \in {"live", "blind"} => op[a].seen # "none"
    BY <2>1 DEF PassType, OpType
  <2>3. o \in PassType /\ o.pc = "done" /\ o.res = op[a].res
    BY <2>1, <2>2, DoneFacts
  <2>4. op' = [op EXCEPT ![a] = o] /\ op[a].pc = "clear"
    BY DEF Clear
  <2> QED
    BY <2>3, <2>4, ChangeFacts DEF IInv
<1>2. TypeOK'
  BY OpTypedNext, <1>1 DEF Clear, IInv, TypeOK, OpType, sysVars
<1>3. Armed'
  BY <1>1, ActorFacts DEF Clear, IInv, Armed
<1>4. OverrideEnds'
  <2> SUFFICES ASSUME requested' PROVE OverrideEnds'
    BY DEF OverrideEnds
  <2>1. requested /\ ~op[a].full /\ stranded' = stranded
    BY DEF Clear, Consumed, IInv, TypeOK
  <2> QED
    BY <1>1, <2>1 DEF IInv, OverrideEnds
<1>5. FullIsLiveUnless'
  <2>1. op[a].res \in {"live", "blind", "absent"}
    BY <1>1 DEF IInv, Answered
  <2>2. stolen \subseteq stolen'
    BY DEF Clear
  <2> QED
    BY <1>1, <2>1, <2>2, ActorFacts DEF IInv, FullIsLiveUnless
<1> QED
  BY <1>1, <1>2, <1>3, <1>4, <1>5, ActorFacts
     DEF Clear, IInv, Answered, Forced, KeptAwake

\* The job goes on after its pass: the fans are read, or the offset is set.
LEMMA JobStep ==
    ASSUME IInv, ReadFans \/ JobActs
    PROVE  IInv'
<1>1. /\ op[Sched].pc = "done"
      /\ op' = [op EXCEPT ![Sched] = Idle]
      /\ UNCHANGED <<age, requested, mode, nvml, driver, stolen, stranded>>
      /\ cleared' \in BOOLEAN
  BY DEF ReadFans, JobActs, sysVars, IInv, TypeOK
<1>2. /\ op' \in [Actors -> PassType]
      /\ op'[Sched].pc = "idle" /\ ~op'[Sched].full
      /\ \A b \in Actors \ {Sched} : op'[b] = op[b]
  BY <1>1, IdleFacts, DoneFacts, ActorFacts DEF IInv, TypeOK, OpType
<1>3. /\ gpu' \in {"suspended", "idle", "busy"}
      /\ quiet' \in 0 .. (Autosuspend - 1)
  BY TouchFacts DEF ReadFans, JobActs, IInv, TypeOK
<1>4. believed' \in {None, "idle", "busy"}
  <2>1. CASE ReadFans
    BY <2>1 DEF ReadFans, IInv, TypeOK
  <2>2. CASE JobActs
    <3>1. Writes(op[Sched]) => op[Sched].res \in {"live", "blind"}
      BY DEF Writes
    <3>2. /\ op[Sched].seen \in {"none", "idle", "busy"}
          /\ Writes(op[Sched]) => op[Sched].seen # "none"
      BY <3>1, ActorFacts DEF IInv, PassType, OpType
    <3> QED
      BY <2>2, <3>2 DEF JobActs, IInv, TypeOK
  <2> QED
    BY <2>1, <2>2
<1>5. TypeOK'
  BY OpTypedNext, <1>1, <1>2, <1>3, <1>4 DEF IInv, TypeOK, OpType
<1>6. OverrideEnds'
  BY <1>1, <1>2, ActorFacts DEF IInv, OverrideEnds
<1> QED
  BY <1>1, <1>2, <1>5, <1>6, ActorFacts
     DEF IInv, Armed, Answered, Forced, KeptAwake, FullIsLiveUnless

\* GetGpuInfoFull replies.
LEMMA ReplyStep ==
    ASSUME IInv, NEW c \in Callers, ReplyFull(c)
    PROVE  IInv'
<1>1. /\ op' \in [Actors -> PassType]
      /\ op[c].pc = "done" /\ op'[c].pc = "idle"
      /\ \A b \in Actors \ {c} : op'[b] = op[b]
  BY IdleFacts, DoneFacts, ActorFacts DEF IInv, TypeOK, OpType, ReplyFull
<1>2. TypeOK'
  BY OpTypedNext, <1>1 DEF ReplyFull, IInv, TypeOK, OpType, sysVars
<1>3. OverrideEnds'
  BY <1>1 DEF ReplyFull, IInv, OverrideEnds
<1> QED
  BY <1>1, <1>2, <1>3, ActorFacts
     DEF ReplyFull, IInv, Armed, Answered, Forced, KeptAwake, FullIsLiveUnless

\* The hardware: programs come and go, time passes.
LEMMA HardwareStep ==
    ASSUME IInv, Work \/ Bind \/ Tick
    PROVE  IInv'
<1>1. UNCHANGED <<requested, believed, op, mode, cleared, nvml, stolen, stranded>>
  BY DEF Work, Bind, Tick, sysVars
<1>2. TypeOK'
  <2>1. gpu' \in {"suspended", "idle", "busy"}
    BY DEF Work, Bind, Tick, IInv, TypeOK
  <2>2. quiet' \in 0 .. (Autosuspend - 1) /\ age' \in 0 .. Ttl
    BY GpuAssumption DEF Work, Bind, Tick, Older, IInv, TypeOK
  <2>3. driver' \in BOOLEAN
    BY DEF Work, Bind, Tick, sysVars, IInv, TypeOK
  <2> QED
    BY <1>1, <2>1, <2>2, <2>3 DEF IInv, TypeOK
<1>3. KeptAwake'
  BY <1>1 DEF Work, Bind, Tick, Busy, IInv, KeptAwake
<1> QED
  BY <1>1, <1>2, <1>3
     DEF IInv, Armed, Answered, Forced, OverrideEnds, FullIsLiveUnless

\* Every step, of whatever actor, keeps the invariant.
LEMMA InductiveStep == IInv /\ [Next]_vars => IInv'
<1> SUFFICES ASSUME IInv, [Next]_vars PROVE IInv'
  OBVIOUS
<1>1. CASE UNCHANGED vars
  BY <1>1 DEF vars, sysVars, IInv, TypeOK, Armed, Answered, Forced, KeptAwake,
              OverrideEnds, FullIsLiveUnless
<1>2. ASSUME NEW a \in Actors, Pass(a) PROVE IInv'
  BY <1>2, ServeStep, BeginQueryStep, QueryStep, ClearStep DEF Pass
<1>3. CASE SchedProgress
  BY <1>2, <1>3, JobStep, ForgetStep, ActorFacts DEF SchedProgress
<1>4. ASSUME NEW c \in Callers, CallProgress(c) PROVE IInv'
  BY <1>2, <1>4, BeginFullStep, ReplyStep, ClientStep, ActorFacts DEF CallProgress
<1>5. ASSUME NEW c \in Callers, Calls(c) PROVE IInv'
  BY <1>5, RequestStep, ClientStep DEF Calls
<1> QED
  BY <1>1, <1>3, <1>4, <1>5, StartStep, ForgetStep, HardwareStep DEF Next

\* The invariant holds in every reachable state.
LEMMA Invariance == Spec => []IInv
BY InitHolds, InductiveStep, PTL DEF Spec

-----------------------------------------------------------------------------
(* The theorems *)

\* Every variable of the detection keeps its type: the timers stay within their
\* delays and a pass within its labels.
THEOREM TypeCorrect == Spec => []TypeOK
<1>1. IInv => TypeOK
  BY DEF IInv
<1> QED
  BY Invariance, <1>1, PTL

\* GetGpuInfoFull answers with what its own pass read, unless another pass
\* consumed its one-shot override first.
THEOREM LiveTheorem == Spec => []FullIsLiveUnless
<1>1. IInv => FullIsLiveUnless
  BY DEF IInv
<1> QED
  BY Invariance, <1>1, PTL

\* A pass that reaches the devices takes the override back: it stays armed without
\* a pass in progress only after one that found no device or no NVML.
THEOREM OverrideTheorem == Spec => []OverrideEnds
<1>1. IInv => OverrideEnds
  BY DEF IInv
<1> QED
  BY Invariance, <1>1, PTL

\* Detection and dynamic overclocking wake no suspended GPU: only a client's write,
\* the reset of offsets with manual clocks off, a forced pass, or a pass that had
\* seen the GPU active does.
THEOREM SleepTheorem == Spec => SuspendedStays
<1> DEFINE Wakes == gpu = "suspended" /\ gpu' = "idle"
           Excused == \E a \in Actors :
                         \/ op[a].pc = "query" /\ (op[a].full \/ op[a].saw = "active")
                         \/ op[a].pc = "write" \/ op[a].pc = "reset"
<1>1. ASSUME IInv, Next, Wakes PROVE Excused
  <2>1. ASSUME NEW a \in Actors, Query(a) PROVE Excused
    BY <1>1, <2>1 DEF Query, IInv, Forced
  <2>2. ASSUME NEW a \in Actors, Pass(a), ~Query(a) PROVE FALSE
    BY <1>1, <2>2
       DEF Pass, FindsNoDevice, ServeStub, ServeSnapshot, BeginQuery, NvmlMissing,
           DeviceRefused, Clear
  <2>3. ~ReadFans
    BY <1>1 DEF ReadFans, FansNeedNvml
  <2>4. ~JobActs
    BY <1>1 DEF JobActs, Writes, IInv, KeptAwake
  <2>5. ResetOffsets => Excused
    BY ActorFacts DEF ResetOffsets
  <2>6. ASSUME NEW c \in Callers,
               \/ GetGpuInfoFull(c) \/ BeginFull(c) \/ ReplyFull(c)
               \/ ApplyProfile(c) \/ CallNvml(c) \/ EndWrites(c)
        PROVE  FALSE
    BY <1>1, <2>6 DEF GetGpuInfoFull, BeginFull, ReplyFull, ApplyProfile, CallNvml,
                      EndWrites
  <2>7. ASSUME NEW c \in Callers, Write(c) PROVE Excused
    BY <2>7, ActorFacts DEF Write
  <2>8. ~Monitor /\ ~Overclock /\ ~Forget /\ ~Work /\ ~Bind /\ ~Tick
    BY <1>1 DEF Monitor, Overclock, Forget, Work, Bind, Tick
  <2>9. ASSUME SchedProgress PROVE Excused
    BY <2>1, <2>2, <2>3, <2>4, <2>5, <2>9, ActorFacts DEF SchedProgress
  <2>10. ASSUME NEW c \in Callers, Calls(c) \/ CallProgress(c) PROVE Excused
    BY <2>1, <2>2, <2>6, <2>7, <2>10, ActorFacts DEF Calls, CallProgress
  <2> QED
    BY <1>1, <2>8, <2>9, <2>10 DEF Next
<1>2. IInv /\ [Next]_vars => [Wakes => Excused]_vars
  BY <1>1
<1> QED
  BY Invariance, <1>2, PTL DEF Spec, SuspendedStays
=============================================================================
