-------------------------- MODULE DaemonGpu_proofs --------------------------
(* Proofs of the safety properties of DaemonGpu, for any number of callers  *)
(* and refreshing threads, any offsets, profiles, counters and bounds that  *)
(* satisfy the assumptions.                                                 *)
(*                                                                          *)
(* Every part keeps an invariant of its own, which the other parts' steps   *)
(* leave alone: IInv (GpuDetection_proofs), and                             *)
(*   ClockInv   the types, with what an actor holds at each of its steps;   *)
(*              the offset that the job remembers is in force or            *)
(*              overwritten; while nothing was lost, the map equals the GPU *)
(*              up to the one write that is on its way from the GPU to the  *)
(*              map; the core offset that was asked for last is in force,   *)
(*              or its write is the only one to come;                       *)
(*   TeleInv    of any two readings of a counter that are kept or under     *)
(*              way, the later one gained no more than what passed between  *)
(*              them, and of two readings of the CPU's ticks one is the     *)
(*              earlier in every kind of tick.                              *)
EXTENDS DaemonGpu, GpuDetection_proofs

-----------------------------------------------------------------------------
(* The clock offsets: GpuOverclock *)

ClockDoingType ==
    [pc : {"idle", "pass", "write", "map", "insert"},
     job : {"none", "dynamic", "leave_p0", "reset", "set"},
     core : Offsets \cup {None}, mem : MemOffsets \cup {None}]

\* What the job can have in hand: a dynamic offset is the core's, a reset
\* writes zeros, the memory's last, and then has nothing left.
ClockSchedShape(d) ==
    /\ d.job # "set"
    /\ d.pc = "pass" => d.job = "dynamic"
    /\ d.pc \in {"pass", "insert"} => d.core = None /\ d.mem = None
    /\ d.pc = "insert" => d.job = "reset"
    /\ d.pc \in {"write", "map"} =>
          \/ d.job = "dynamic" /\ d.core # None /\ d.mem = None
          \/ d.job = "leave_p0" /\ d.core = 0 /\ d.mem = None
          \/ d.job = "reset" /\ d.core \in {0, None} /\ d.mem = 0

\* What an actor can.
ClockShape(a, d) ==
    /\ d.pc = "idle" => d = O!Idle
    /\ d.pc \in {"write", "map"} => d.core # None \/ d.mem # None
    /\ a = O!Sched => ClockSchedShape(d)
    /\ a # O!Sched => d.pc \in {"idle", "write", "map"} /\ d.job \in {"none", "set"}

ClockTypes ==
    /\ O!OverclockConstants
    /\ inForce \in [core : Offsets, mem : MemOffsets]
    /\ settings \in Profiles \cup {None}
    /\ last \in Offsets \cup {None}
    /\ map \in {O!NoEntry} \cup [core : Offsets, mem : MemOffsets]
    /\ stats \in Offsets \cup {None}
    /\ doing \in [O!Actors -> ClockDoingType]
    /\ ghost \in [outside : BOOLEAN, lost : BOOLEAN, asked : Offsets \cup {None}]
    /\ \A a \in O!Actors : ClockShape(a, doing[a])

\* Before its write, and while it does something else, the job's belief is
\* true or overwritten; after the write the same goes for what it wrote; a
\* reset believes nothing.
ClockBelief ==
    /\ stats # None => stats = last
    /\ doing[O!Sched].job # "reset" /\ doing[O!Sched].pc # "map" =>
          (last # None /\ ~ghost.outside => inForce.core = last)
    /\ doing[O!Sched].job # "reset" /\ doing[O!Sched].pc = "map" =>
          (~ghost.outside => inForce.core = doing[O!Sched].core)
    /\ doing[O!Sched].job = "reset" => last = None /\ stats = None

\* What the map will be when a has written its half.
ClockMapped(a) ==
    IF O!Core(a) THEN [map EXCEPT !.core = doing[a].core]
               ELSE [map EXCEPT !.mem = doing[a].mem]

ClockMirror ==
    ~ghost.lost =>
        /\ map # O!NoEntry
        /\ (\A a \in O!Actors : doing[a].pc # "map") => map = inForce
        /\ \A a \in O!Actors : doing[a].pc = "map" =>
              /\ ClockMapped(a) = inForce
              /\ \A b \in O!Actors : doing[b].pc = "map" => b = a
        /\ doing[O!Sched].job = "reset" /\ doing[O!Sched].core = None => inForce.core = 0
        /\ doing[O!Sched].pc = "insert" => inForce.mem = 0

\* Calls that still have a core offset to write.
ClockPending == {c \in Callers : doing[c].pc = "write" /\ O!Core(c)}

ClockAskedInv ==
    ghost.asked # None =>
        /\ O!Static
        /\ \/ ClockPending = {} /\ inForce.core = ghost.asked
           \/ \E c \in Callers : ClockPending = {c} /\ doing[c].core = ghost.asked

-----------------------------------------------------------------------------
(* What a step does to its actor *)

\* The job is not a caller, and None is no offset.
LEMMA ClockNameFacts ==
    ASSUME O!OverclockConstants
    PROVE  /\ O!Sched \in O!Actors /\ O!Sched \notin Callers
           /\ \A c \in Callers : c \in O!Actors /\ c # O!Sched
           /\ \A a \in O!Actors : a \in Callers \/ a = O!Sched
           /\ 0 \in Offsets /\ 0 \in MemOffsets
           /\ None \notin Offsets /\ None \notin MemOffsets /\ None # 0
           /\ O!Idle \in ClockDoingType /\ O!Idle.pc = "idle" /\ O!Idle.job = "none"
           /\ O!Idle.core = None /\ O!Idle.mem = None
           /\ \A p \in Profiles :
                 p.core \in Offsets /\ p.mem \in MemOffsets /\ p # None
BY DEF O!OverclockConstants, O!Sched, O!Actors, O!Idle, ClockDoingType

LEMMA ClockActorFacts ==
    ASSUME O!OverclockConstants, ClockTypes, NEW a \in O!Actors
    PROVE  doing[a] \in ClockDoingType /\ ClockShape(a, doing[a])
BY DEF ClockTypes

\* What is left after a write.
LEMMA ClockAfterFacts ==
    ASSUME O!OverclockConstants, ClockTypes, NEW a \in O!Actors, doing[a].pc \in {"write", "map"}
    PROVE  LET o == O!AfterWrite(a)
               d == doing[a]
           IN  /\ o \in ClockDoingType /\ ClockShape(a, o)
               /\ o.pc \notin {"map", "pass"}
               /\ \/ /\ O!Core(a) /\ d.mem # None /\ o.pc = "write"
                     /\ o.job = d.job /\ o.core = None /\ o.mem = d.mem
                  \/ /\ ~(O!Core(a) /\ d.mem # None) /\ d.job = "reset"
                     /\ o.pc = "insert" /\ o.job = "reset"
                     /\ o.core = None /\ o.mem = None
                  \/ ~(O!Core(a) /\ d.mem # None) /\ d.job # "reset" /\ o = O!Idle
<1> DEFINE d == doing[a]
<1>1. d \in ClockDoingType /\ ClockShape(a, d)
  BY ClockActorFacts
<1>2. CASE d.core # None /\ d.mem # None
  <2> DEFINE o == [d EXCEPT !.core = None]
             w == [o EXCEPT !.pc = "write"]
  <2>1. /\ o \in ClockDoingType /\ o.core = None /\ o.mem = d.mem /\ o.job = d.job
    BY <1>1 DEF ClockDoingType
  <2>2. O!AfterWrite(a) = w
    BY <1>2, <2>1 DEF O!AfterWrite, O!Core
  <2>3. /\ w \in ClockDoingType /\ w.core = None /\ w.mem = d.mem /\ w.job = d.job
        /\ w.pc = "write"
    BY <2>1 DEF ClockDoingType
  <2> HIDE DEF o, w
  <2>4. ClockShape(a, w)
    BY <1>1, <1>2, <2>3 DEF ClockShape, ClockSchedShape
  <2> QED
    BY <1>2, <2>2, <2>3, <2>4 DEF O!Core
<1>3. CASE ~(d.core # None /\ d.mem # None)
  <2> DEFINE o == IF O!Core(a) THEN [d EXCEPT !.core = None] ELSE [d EXCEPT !.mem = None]
             w == [o EXCEPT !.pc = "insert"]
  <2>1. o \in ClockDoingType /\ o.core = None /\ o.mem = None /\ o.job = d.job
    BY <1>1, <1>3 DEF ClockDoingType, O!Core
  <2>2. O!AfterWrite(a) = IF d.job = "reset" THEN w ELSE O!Idle
    BY <2>1 DEF O!AfterWrite
  <2>3. /\ w \in ClockDoingType /\ w.core = None /\ w.mem = None /\ w.job = d.job
        /\ w.pc = "insert"
    BY <2>1 DEF ClockDoingType
  <2> HIDE DEF o, w
  <2>4. ClockShape(a, O!Idle)
    BY ClockNameFacts DEF ClockShape, ClockSchedShape
  <2>5. d.job = "reset" => ClockShape(a, w)
    BY <1>1, <2>3 DEF ClockShape, ClockSchedShape
  <2> QED
    BY <1>3, <2>2, <2>3, <2>4, <2>5, ClockNameFacts DEF O!Core
<1> QED
  BY <1>2, <1>3

\* One actor goes on, as its shape allows.
LEMMA ClockDoingStep ==
    ASSUME O!OverclockConstants, ClockTypes, NEW a \in O!Actors, NEW o \in ClockDoingType, ClockShape(a, o),
           doing' = [doing EXCEPT ![a] = o]
    PROVE  /\ doing' \in [O!Actors -> ClockDoingType]
           /\ \A b \in O!Actors : ClockShape(b, doing'[b])
           /\ doing'[a] = o /\ \A b \in O!Actors \ {a} : doing'[b] = doing[b]
BY DEF ClockTypes

\* The offset has been written to the GPU.
LEMMA ClockWriteFacts ==
    ASSUME O!OverclockConstants, ClockTypes, NEW a \in O!Actors, O!WriteOffset(a)
    PROVE  /\ doing' \in [O!Actors -> ClockDoingType]
           /\ \A b \in O!Actors : ClockShape(b, doing'[b])
           /\ \A b \in O!Actors \ {a} : doing'[b] = doing[b]
           /\ doing'[a].pc = "map" /\ doing'[a].job = doing[a].job
           /\ doing'[a].core = doing[a].core /\ doing'[a].mem = doing[a].mem
<1> DEFINE o == [doing[a] EXCEPT !.pc = "map"]
<1>1. doing[a] \in ClockDoingType /\ ClockShape(a, doing[a]) /\ doing[a].pc = "write"
  BY ClockActorFacts DEF O!WriteOffset
<1>2. /\ o \in ClockDoingType /\ o.pc = "map" /\ o.job = doing[a].job
      /\ o.core = doing[a].core /\ o.mem = doing[a].mem
  BY <1>1 DEF ClockDoingType
<1>3. doing' = [doing EXCEPT ![a] = o]
  BY DEF O!WriteOffset
<1> HIDE DEF o
<1>4. ClockShape(a, o)
  BY <1>1, <1>2 DEF ClockShape, ClockSchedShape
<1> QED
  BY <1>2, <1>3, <1>4, ClockDoingStep

\* A writer that begins.
LEMMA ClockWriterFacts ==
    ASSUME NEW j \in {"dynamic", "leave_p0", "reset", "set"},
           NEW c \in Offsets \cup {None}, NEW m \in MemOffsets \cup {None}
    PROVE  LET w == O!Writer(j, c, m)
           IN  /\ w \in ClockDoingType
               /\ w.pc = "write" /\ w.job = j /\ w.core = c /\ w.mem = m
BY DEF O!Writer, ClockDoingType

-----------------------------------------------------------------------------
(* The types *)

LEMMA ClockInitTypes == O!OverclockConstants /\ O!Init => ClockTypes
<1> SUFFICES ASSUME O!OverclockConstants, O!Init PROVE ClockTypes
  OBVIOUS
<1>1. inForce \in [core : Offsets, mem : MemOffsets]
  BY ClockNameFacts DEF O!Init
<1>2. \A a \in O!Actors : doing[a] = O!Idle /\ ClockShape(a, O!Idle)
  BY ClockNameFacts DEF O!Init, ClockShape, ClockSchedShape
<1>3. doing \in [O!Actors -> ClockDoingType]
  BY ClockNameFacts DEF O!Init
<1>4. ghost \in [outside : BOOLEAN, lost : BOOLEAN, asked : Offsets \cup {None}]
  BY DEF O!Init
<1> QED
  BY <1>1, <1>2, <1>3, <1>4 DEF O!Init, ClockTypes

\* A write to the GPU, to the map, or one that fails.
LEMMA ClockWritesTypes ==
    ASSUME O!OverclockConstants, ClockTypes, NEW a \in O!Actors, O!Writes(a)
    PROVE  ClockTypes'
<1>1. doing[a] \in ClockDoingType /\ ClockShape(a, doing[a])
  BY ClockActorFacts
<1>2. CASE O!WriteOffset(a)
  <2>1. inForce' \in [core : Offsets, mem : MemOffsets]
    BY <1>1, <1>2 DEF O!WriteOffset, ClockTypes, ClockShape, O!Core, ClockDoingType
  <2>2. ghost' \in [outside : BOOLEAN, lost : BOOLEAN, asked : Offsets \cup {None}]
    BY <1>2 DEF O!WriteOffset, ClockTypes, O!Crossing
  <2> QED
    BY <1>2, <2>1, <2>2, ClockWriteFacts DEF O!WriteOffset, ClockTypes
<1>3. CASE O!MapOffset(a)
  <2>1. doing[a].pc = "map" /\ doing' = [doing EXCEPT ![a] = O!AfterWrite(a)]
    BY <1>3 DEF O!MapOffset
  <2>2. doing' \in [O!Actors -> ClockDoingType] /\ \A b \in O!Actors : ClockShape(b, doing'[b])
    BY <2>1, ClockAfterFacts, ClockDoingStep
  <2>3. map' \in [core : Offsets, mem : MemOffsets]
    BY <1>1, <1>3, <2>1, ClockNameFacts
       DEF O!MapOffset, O!Entry, ClockTypes, ClockShape, O!Core, ClockDoingType,
           O!NoEntry
  <2>4. last' \in Offsets \cup {None} /\ stats' \in Offsets \cup {None}
    BY <1>1, <1>3, ClockNameFacts DEF O!MapOffset, ClockTypes, ClockDoingType
  <2>5. ghost' \in [outside : BOOLEAN, lost : BOOLEAN, asked : Offsets \cup {None}]
    BY <1>3 DEF O!MapOffset, ClockTypes, O!Crossing, O!Agrees
  <2> QED
    BY <1>3, <2>2, <2>3, <2>4, <2>5 DEF O!MapOffset, ClockTypes
<1>4. CASE O!WriteFails(a)
  <2> DEFINE o == IF doing[a].job \in {"dynamic", "leave_p0"} THEN O!Idle ELSE O!AfterWrite(a)
  <2>1. doing[a].pc = "write" /\ doing' = [doing EXCEPT ![a] = o]
    BY <1>4 DEF O!WriteFails
  <2>2. o \in ClockDoingType /\ ClockShape(a, o)
    BY <2>1, ClockAfterFacts, ClockNameFacts DEF ClockShape, ClockSchedShape
  <2> HIDE DEF o
  <2>3. doing' \in [O!Actors -> ClockDoingType] /\ \A b \in O!Actors : ClockShape(b, doing'[b])
    BY <2>1, <2>2, ClockDoingStep
  <2>4. ghost' \in [outside : BOOLEAN, lost : BOOLEAN, asked : Offsets \cup {None}]
    BY <1>4 DEF O!WriteFails, ClockTypes, O!Crossing
  <2> QED
    BY <1>4, <2>3, <2>4 DEF O!WriteFails, O!Believe, ClockTypes
<1> QED
  BY <1>2, <1>3, <1>4 DEF O!Writes

\* A step of the job that is no write.
LEMMA ClockJobFacts ==
    ASSUME O!OverclockConstants, ClockTypes,
           O!Job \/ O!InsertZeros \/ O!FindsNothing \/ O!FindsP0 \/ O!LeavesP0
    PROVE  /\ ClockTypes'
           /\ \A c \in Callers : doing'[c] = doing[c]
           /\ UNCHANGED <<inForce, settings>> /\ ghost'.asked = ghost.asked
<1>1. O!Sched \in O!Actors /\ doing[O!Sched] \in ClockDoingType /\ ClockShape(O!Sched, doing[O!Sched])
  BY ClockActorFacts, ClockNameFacts
<1>2. PICK o \in ClockDoingType :
         ClockShape(O!Sched, o) /\ doing' = [doing EXCEPT ![O!Sched] = o]
  <2>1. CASE doing' = [doing EXCEPT ![O!Sched] = O!Idle]
    BY <2>1, ClockNameFacts DEF ClockShape, ClockSchedShape
  <2>2. CASE doing' = doing
    <3>1. doing' = [doing EXCEPT ![O!Sched] = doing[O!Sched]]
      BY <2>2 DEF ClockTypes
    <3> QED
      BY <1>1, <3>1
  <2>3. CASE doing' = [doing EXCEPT ![O!Sched] = O!Writer("reset", 0, 0)]
    <3> DEFINE w == O!Writer("reset", 0, 0)
    <3>1. w \in ClockDoingType /\ w.pc = "write" /\ w.job = "reset"
          /\ w.core = 0 /\ w.mem = 0
      BY ClockWriterFacts, ClockNameFacts
    <3> HIDE DEF w
    <3>2. ClockShape(O!Sched, w)
      BY <3>1, ClockNameFacts DEF ClockShape, ClockSchedShape
    <3> QED
      BY <2>3, <3>1, <3>2 DEF w
  <2>4. CASE doing' = [doing EXCEPT ![O!Sched] = O!Writer("leave_p0", 0, None)]
    <3> DEFINE w == O!Writer("leave_p0", 0, None)
    <3>1. w \in ClockDoingType /\ w.pc = "write" /\ w.job = "leave_p0"
          /\ w.core = 0 /\ w.mem = None
      BY ClockWriterFacts, ClockNameFacts
    <3> HIDE DEF w
    <3>2. ClockShape(O!Sched, w)
      BY <3>1, ClockNameFacts DEF ClockShape, ClockSchedShape
    <3> QED
      BY <2>4, <3>1, <3>2 DEF w
  <2>5. CASE \E offset \in Offsets :
                doing' = [doing EXCEPT ![O!Sched] = O!Writer("dynamic", offset, None)]
    <3>0. PICK offset \in Offsets : doing' = [doing EXCEPT ![O!Sched] = O!Writer("dynamic", offset, None)]
      BY <2>5
    <3> DEFINE w == O!Writer("dynamic", offset, None)
    <3>1. w \in ClockDoingType /\ w.pc = "write" /\ w.job = "dynamic"
          /\ w.core = offset /\ w.mem = None
      BY ClockWriterFacts, ClockNameFacts
    <3> HIDE DEF w
    <3>2. ClockShape(O!Sched, w)
      BY <3>1, ClockNameFacts DEF ClockShape, ClockSchedShape
    <3> QED
      BY <3>0, <3>1, <3>2 DEF w
  <2>6. CASE O!JobOn
    <3> DEFINE p == [O!Idle EXCEPT !.pc = "pass", !.job = "dynamic"]
    <3>1. /\ p \in ClockDoingType /\ p.pc = "pass" /\ p.job = "dynamic"
          /\ p.core = None /\ p.mem = None
      BY DEF O!Idle, ClockDoingType
    <3>2. doing' = [doing EXCEPT ![O!Sched] = p]
      BY <2>6 DEF O!JobOn
    <3> HIDE DEF p
    <3> QED
      BY <3>1, <3>2 DEF ClockShape, ClockSchedShape
  <2> QED
    BY <2>1, <2>2, <2>3, <2>4, <2>5, <2>6
       DEF O!Job, O!JobOff, O!InsertZeros, O!FindsNothing, O!FindsP0, O!LeavesP0
<1>3. /\ doing' \in [O!Actors -> ClockDoingType] /\ \A b \in O!Actors : ClockShape(b, doing'[b])
      /\ \A b \in O!Actors \ {O!Sched} : doing'[b] = doing[b]
  BY <1>1, <1>2, ClockDoingStep
<1>4. /\ last' \in Offsets \cup {None} /\ stats' \in Offsets \cup {None}
      /\ UNCHANGED <<inForce, settings>>
  BY DEF O!Job, O!JobOff, O!JobOn, O!InsertZeros, O!FindsNothing, O!FindsP0,
         O!LeavesP0, ClockTypes
<1>5. map' \in {O!NoEntry} \cup [core : Offsets, mem : MemOffsets]
  BY ClockNameFacts DEF O!Job, O!JobOff, O!JobOn, O!InsertZeros, O!FindsNothing,
                        O!FindsP0, O!LeavesP0, ClockTypes
<1>6. /\ ghost' \in [outside : BOOLEAN, lost : BOOLEAN, asked : Offsets \cup {None}]
      /\ ghost'.asked = ghost.asked
  BY DEF O!Job, O!JobOff, O!JobOn, O!InsertZeros, O!FindsNothing, O!FindsP0,
         O!LeavesP0, ClockTypes,
         O!Crossing, O!Agrees
<1> QED
  BY <1>3, <1>4, <1>5, <1>6, ClockNameFacts DEF ClockTypes

\* A call begins: nothing but its plan and, with a profile, the settings change.
LEMMA ClockCallFacts ==
    ASSUME O!OverclockConstants, ClockTypes, NEW c \in Callers, O!Call(c)
    PROVE  /\ ClockTypes'
           /\ doing[c].pc = "idle" /\ doing'[c].pc \in {"idle", "write"}
           /\ doing'[c].core \in Offsets \cup {None}
           /\ \A b \in O!Actors \ {c} : doing'[b] = doing[b]
           /\ UNCHANGED <<inForce, last, map, stats>>
           /\ ghost'.outside = ghost.outside /\ ghost'.lost = ghost.lost
<1>1. /\ c \in O!Actors /\ c # O!Sched /\ doing[c] \in ClockDoingType /\ ClockShape(c, doing[c])
      /\ doing[c].pc = "idle"
  BY ClockActorFacts, ClockNameFacts DEF O!Call, O!ApplyProfile, O!SetGpuCoreOffset,
                               O!SetGpuMemoryOffset, O!Busy
<1>2. PICK o \in ClockDoingType :
         /\ ClockShape(c, o) /\ doing' = [doing EXCEPT ![c] = o]
         /\ o.pc \in {"idle", "write"}
  <2>1. CASE doing' = doing
    <3>1. doing' = [doing EXCEPT ![c] = doing[c]]
      BY <2>1 DEF ClockTypes
    <3> QED
      BY <1>1, <3>1
  <2>2. CASE \E p \in Profiles : doing' = [doing EXCEPT ![c] = O!ProfileOffsets(p)]
    <3>1. PICK p \in Profiles : doing' = [doing EXCEPT ![c] = O!Writer("set", p.core, p.mem)]
      BY <2>2 DEF O!ProfileOffsets
    <3>2. p.core \in Offsets /\ p.mem \in MemOffsets
      BY ClockNameFacts
    <3> DEFINE w == O!Writer("set", p.core, p.mem)
    <3>3. w \in ClockDoingType /\ w.pc = "write" /\ w.job = "set"
          /\ w.core = p.core /\ w.mem = p.mem
      BY <3>2, ClockWriterFacts
    <3> HIDE DEF w
    <3>4. ClockShape(c, w)
      BY <1>1, <3>2, <3>3, ClockNameFacts DEF ClockShape
    <3> QED
      BY <3>1, <3>3, <3>4 DEF w
  <2>3. CASE \E v \in Offsets : doing' = [doing EXCEPT ![c] = O!Writer("set", v, None)]
    <3>0. PICK v \in Offsets : doing' = [doing EXCEPT ![c] = O!Writer("set", v, None)]
      BY <2>3
    <3> DEFINE w == O!Writer("set", v, None)
    <3>1. w \in ClockDoingType /\ w.pc = "write" /\ w.job = "set"
          /\ w.core = v /\ w.mem = None
      BY ClockWriterFacts, ClockNameFacts
    <3> HIDE DEF w
    <3>2. ClockShape(c, w)
      BY <1>1, <3>1, ClockNameFacts DEF ClockShape
    <3> QED
      BY <3>0, <3>1, <3>2 DEF w
  <2>4. CASE \E v \in MemOffsets : doing' = [doing EXCEPT ![c] = O!Writer("set", None, v)]
    <3>0. PICK v \in MemOffsets : doing' = [doing EXCEPT ![c] = O!Writer("set", None, v)]
      BY <2>4
    <3> DEFINE w == O!Writer("set", None, v)
    <3>1. w \in ClockDoingType /\ w.pc = "write" /\ w.job = "set"
          /\ w.core = None /\ w.mem = v
      BY ClockWriterFacts, ClockNameFacts
    <3> HIDE DEF w
    <3>2. ClockShape(c, w)
      BY <1>1, <3>1, ClockNameFacts DEF ClockShape
    <3> QED
      BY <3>0, <3>1, <3>2 DEF w
  <2> QED
    BY <2>1, <2>2, <2>3, <2>4
       DEF O!Call, O!ApplyProfile, O!SetGpuCoreOffset, O!SetGpuMemoryOffset
<1>3. /\ doing' \in [O!Actors -> ClockDoingType] /\ \A b \in O!Actors : ClockShape(b, doing'[b])
      /\ doing'[c] = o /\ \A b \in O!Actors \ {c} : doing'[b] = doing[b]
  BY <1>1, <1>2, ClockDoingStep
<1>4. settings' \in Profiles \cup {None} /\ UNCHANGED <<inForce, last, map, stats>>
  BY DEF O!Call, O!ApplyProfile, O!SetGpuCoreOffset, O!SetGpuMemoryOffset, ClockTypes
<1>5. /\ ghost' \in [outside : BOOLEAN, lost : BOOLEAN, asked : Offsets \cup {None}]
      /\ ghost'.outside = ghost.outside /\ ghost'.lost = ghost.lost
  BY ClockNameFacts
     DEF O!Call, O!ApplyProfile, O!SetGpuCoreOffset, O!SetGpuMemoryOffset, ClockTypes
<1> QED
  BY <1>1, <1>2, <1>3, <1>4, <1>5 DEF ClockTypes, ClockDoingType

LEMMA ClockStepTypes == ClockTypes /\ [O!Next]_(O!vars) => ClockTypes'
<1> SUFFICES ASSUME ClockTypes, [O!Next]_(O!vars) PROVE ClockTypes'
  OBVIOUS
<1>0. O!OverclockConstants
  BY DEF ClockTypes
<1>1. CASE UNCHANGED O!vars
  BY <1>1 DEF O!vars, ClockTypes
<1>2. CASE O!Next
  BY <1>0, <1>2, ClockWritesTypes, ClockJobFacts, ClockCallFacts, ClockNameFacts
     DEF O!Next, O!JobProgress
<1> QED
  BY <1>1, <1>2

\* Every variable keeps its type.
LEMMA ClockTypesSafe == ClockTypes => O!TypeOK
BY DEF ClockTypes, O!TypeOK, ClockDoingType

-----------------------------------------------------------------------------
(* What the job believes *)

LEMMA ClockInitBelief == O!OverclockConstants /\ O!Init => ClockBelief
BY ClockNameFacts DEF O!Init, ClockBelief

\* Another actor's step may write the core offset, which is then known.
LEMMA ClockOthersBelief ==
    ASSUME O!OverclockConstants, ClockTypes, ClockBelief, UNCHANGED <<last, stats>>,
           doing'[O!Sched] = doing[O!Sched],
           \/ UNCHANGED <<inForce>> /\ ghost'.outside = ghost.outside
           \/ inForce'.core = inForce.core /\ ghost'.outside = ghost.outside
           \/ ghost'.outside
    PROVE  ClockBelief'
BY DEF ClockBelief

LEMMA ClockStepBelief ==
    ASSUME O!OverclockConstants, ClockTypes, ClockBelief, [O!Next]_(O!vars)
    PROVE  ClockBelief'
<1> DEFINE d == doing[O!Sched]
<1>1. O!Sched \in O!Actors /\ d \in ClockDoingType /\ ClockShape(O!Sched, d)
  BY ClockActorFacts, ClockNameFacts
<1>2. ASSUME NEW c \in Callers, O!Call(c) PROVE ClockBelief'
  <2>1. doing'[O!Sched] = doing[O!Sched]
    BY <1>2, ClockCallFacts, ClockNameFacts
  <2> QED
    BY <1>2, <2>1, ClockCallFacts, ClockOthersBelief
<1>3. ASSUME NEW c \in Callers, O!Writes(c) PROVE ClockBelief'
  <2>1. c \in O!Actors /\ c # O!Sched /\ doing[c].job \notin {"dynamic", "leave_p0", "reset"}
        /\ ClockShape(c, doing[c])
    BY ClockActorFacts, ClockNameFacts DEF ClockShape
  <2>2. doing'[O!Sched] = doing[O!Sched]
    <3>1. CASE O!WriteOffset(c)
      BY <2>1, <3>1, ClockWriteFacts, ClockNameFacts
    <3>2. CASE O!MapOffset(c) \/ O!WriteFails(c)
      <4>1. PICK o : doing' = [doing EXCEPT ![c] = o]
        BY <3>2 DEF O!MapOffset, O!WriteFails
      <4> QED
        BY <2>1, <4>1, ClockNameFacts DEF ClockTypes
    <3> QED
      BY <1>3, <3>1, <3>2 DEF O!Writes
  <2>3. UNCHANGED <<last, stats>>
    BY <1>3, <2>1 DEF O!Writes, O!WriteOffset, O!MapOffset, O!WriteFails, O!Believe
  <2>4. CASE O!WriteOffset(c) /\ O!Core(c)
    <3>1. ghost'.outside
      BY <2>1, <2>4 DEF O!WriteOffset, ClockTypes
    <3> QED
      BY <2>2, <2>3, <3>1, ClockOthersBelief
  <2>5. CASE ~(O!WriteOffset(c) /\ O!Core(c))
    <3>1. inForce'.core = inForce.core /\ ghost'.outside = ghost.outside
      BY <1>3, <2>5 DEF O!Writes, O!WriteOffset, O!MapOffset, O!WriteFails, ClockTypes
    <3> QED
      BY <2>2, <2>3, <3>1, ClockOthersBelief
  <2> QED
    BY <2>4, <2>5
<1>4. CASE O!WriteOffset(O!Sched)
  <2>1. /\ doing'[O!Sched].pc = "map" /\ doing'[O!Sched].job = d.job
        /\ doing'[O!Sched].core = d.core /\ d.pc = "write"
        /\ UNCHANGED <<last, stats>>
    BY <1>1, <1>4, ClockWriteFacts DEF O!WriteOffset
  <2>2. CASE d.job = "reset"
    BY <2>1, <2>2 DEF ClockBelief
  <2>3. CASE d.job # "reset"
    <3>1. O!Core(O!Sched)
      BY <1>1, <2>1, <2>3, ClockNameFacts DEF ClockShape, ClockSchedShape, O!Core
    <3>2. inForce'.core = d.core
      BY <1>4, <3>1 DEF O!WriteOffset, ClockTypes
    <3> QED
      BY <2>1, <2>3, <3>2 DEF ClockBelief
  <2> QED
    BY <2>2, <2>3
<1>5. CASE O!MapOffset(O!Sched)
  <2>1. /\ d.pc = "map" /\ UNCHANGED inForce /\ ghost'.outside = ghost.outside
    BY <1>5 DEF O!MapOffset, ClockTypes
  <2>2. /\ doing'[O!Sched] = O!AfterWrite(O!Sched)
    BY <1>1, <1>5 DEF O!MapOffset, ClockTypes
  <2>3. CASE d.job = "reset"
    <3>1. doing'[O!Sched].job \in {"reset", "none"} /\ doing'[O!Sched].pc # "map"
      BY <1>1, <2>1, <2>2, <2>3, ClockAfterFacts, ClockNameFacts
    <3>2. UNCHANGED <<last, stats>> /\ last = None /\ stats = None
      BY <1>5, <2>3 DEF O!MapOffset, ClockBelief
    <3> QED
      BY <3>1, <3>2 DEF ClockBelief
  <2>4. CASE d.job # "reset"
    <3>1. d.job = "dynamic" \/ (d.job = "leave_p0" /\ d.core = 0)
      BY <1>1, <2>1, <2>4 DEF ClockShape, ClockSchedShape
    <3>2. d.core # None /\ d.mem = None
      BY <1>1, <2>1, <2>4, ClockNameFacts DEF ClockShape, ClockSchedShape
    <3>3. doing'[O!Sched] = O!Idle
      BY <1>1, <2>1, <2>2, <2>4, <3>2, ClockAfterFacts
    <3>4. last' = d.core /\ (stats' = None \/ stats' = last')
      BY <1>5, <3>1 DEF O!MapOffset
    <3> QED
      BY <2>1, <2>4, <3>3, <3>4, ClockNameFacts DEF ClockBelief
  <2> QED
    BY <2>3, <2>4
<1>6. CASE O!WriteFails(O!Sched)
  <2>1. /\ d.pc = "write" /\ UNCHANGED <<inForce, last, stats>>
        /\ ghost'.outside = ghost.outside
    BY <1>6 DEF O!WriteFails, O!Believe, ClockTypes
  <2>2. doing'[O!Sched] = IF d.job \in {"dynamic", "leave_p0"} THEN O!Idle
                        ELSE O!AfterWrite(O!Sched)
    BY <1>1, <1>6 DEF O!WriteFails, ClockTypes
  <2>3. doing'[O!Sched].pc # "map" /\ (doing'[O!Sched].job = "reset" => d.job = "reset")
    BY <1>1, <2>1, <2>2, ClockAfterFacts, ClockNameFacts
  <2>4. d.job = "reset" => last = None /\ stats = None
    BY DEF ClockBelief
  <2> QED
    BY <2>1, <2>3, <2>4 DEF ClockBelief
<1>7. CASE O!JobOff
  <2>1. last' = None /\ stats' = None /\ d = O!Idle
    BY <1>1, <1>7 DEF O!JobOff, O!Busy, ClockShape
  <2>2. doing'[O!Sched] = O!Idle \/ doing'[O!Sched] = O!Writer("reset", 0, 0)
    BY <1>1, <1>7, <2>1 DEF O!JobOff, ClockTypes
  <2>3. doing'[O!Sched].pc # "map"
    BY <2>2, ClockWriterFacts, ClockNameFacts
  <2> QED
    BY <2>1, <2>3 DEF ClockBelief
<1>8. CASE O!JobOn \/ O!FindsNothing \/ O!FindsP0 \/ O!LeavesP0
  <2>1. d.job # "reset" /\ d.pc # "map"
    BY <1>1, <1>8, ClockNameFacts
       DEF O!JobOn, O!FindsNothing, O!FindsP0, O!LeavesP0, O!Busy, ClockShape,
           ClockSchedShape
  <2>2. UNCHANGED <<inForce, last, ghost>>
    BY <1>8 DEF O!JobOn, O!FindsNothing, O!FindsP0, O!LeavesP0
  <2>3. stats' # None => stats' = last
    BY <1>8 DEF O!JobOn, O!FindsNothing, O!FindsP0, O!LeavesP0, ClockBelief
  <2>4. doing'[O!Sched].pc # "map" /\ doing'[O!Sched].job # "reset"
    <3>1. CASE O!JobOn
      BY <1>1, <3>1 DEF O!JobOn, ClockTypes, O!Idle
    <3>2. CASE doing' = [doing EXCEPT ![O!Sched] = O!Idle]
      BY <1>1, <3>2, ClockNameFacts DEF ClockTypes
    <3>3. CASE O!LeavesP0 /\ doing' = [doing EXCEPT ![O!Sched] = O!Writer("leave_p0", 0, None)]
      BY <1>1, <3>3 DEF ClockTypes, O!Writer
    <3>4. CASE \E offset \in Offsets :
                  doing' = [doing EXCEPT ![O!Sched] = O!Writer("dynamic", offset, None)]
      BY <1>1, <3>4 DEF ClockTypes, O!Writer
    <3> QED
      BY <1>8, <3>1, <3>2, <3>3, <3>4 DEF O!FindsNothing, O!FindsP0, O!LeavesP0
  <2> QED
    BY <2>1, <2>2, <2>3, <2>4 DEF ClockBelief
<1>9. CASE O!InsertZeros
  <2>1. /\ d.job = "reset" /\ UNCHANGED <<inForce, last, stats>>
        /\ ghost'.outside = ghost.outside /\ doing'[O!Sched] = O!Idle
    BY <1>1, <1>9 DEF O!InsertZeros, ClockShape, ClockSchedShape, ClockTypes
  <2> QED
    BY <2>1, ClockNameFacts DEF ClockBelief
<1>10. CASE UNCHANGED O!vars
  BY <1>10 DEF O!vars, ClockBelief
<1> QED
  BY <1>2, <1>3, <1>4, <1>5, <1>6, <1>7, <1>8, <1>9, <1>10
     DEF O!Next, O!Job, O!JobProgress, O!Writes

\* The job skips a write only for an offset that is in force, or that a client
\* has replaced since; the GUI is shown what the job believes.
LEMMA ClockBeliefSafe == ClockTypes /\ ClockBelief => O!BeliefBrokenOnlyOutside
<1> SUFFICES ASSUME ClockTypes, ClockBelief, ~O!Busy(O!Sched) PROVE O!BeliefBrokenOnlyOutside
  BY DEF O!BeliefBrokenOnlyOutside
<1>1. O!OverclockConstants
  BY DEF ClockTypes
<1>2. doing[O!Sched] = O!Idle
  BY <1>1, ClockActorFacts, ClockNameFacts DEF O!Busy, ClockShape
<1> QED
  BY <1>1, <1>2, ClockNameFacts DEF ClockBelief, O!BeliefBrokenOnlyOutside

-----------------------------------------------------------------------------
(* The map and the GPU *)

LEMMA ClockInitMirror == O!Init => ClockMirror
BY DEF O!Init, ClockMirror

\* Offsets are no missing entry.
LEMMA ClockEntryFacts ==
    ASSUME O!OverclockConstants, NEW e \in [core : Offsets, mem : MemOffsets]
    PROVE  e # O!NoEntry
BY ClockNameFacts DEF O!NoEntry

\* What Shape says of a job that writes nothing.
LEMMA ClockRestingSched ==
    ASSUME O!OverclockConstants, ClockTypes, ~O!Writing(O!Sched)
    PROVE  doing[O!Sched].job # "reset" /\ doing[O!Sched].pc \notin {"write", "map", "insert"}
BY ClockActorFacts, ClockNameFacts DEF O!Writing, ClockShape, ClockSchedShape,
                                       ClockDoingType

\* No offset moves, and nobody gets to a write of the map or away from one.
LEMMA ClockSameMirror ==
    ASSUME ClockTypes, ClockMirror, ~ghost.lost, UNCHANGED <<inForce, map>>,
           \A a \in O!Actors : doing[a].pc = "map" \/ doing'[a].pc = "map"
                                => doing'[a] = doing[a],
           doing'[O!Sched].job = "reset" /\ doing'[O!Sched].core = None =>
              doing[O!Sched].job = "reset" /\ doing[O!Sched].core = None,
           doing'[O!Sched].pc = "insert" => doing[O!Sched].pc = "insert"
    PROVE  ClockMirror'
<1>1. \A a \in O!Actors : doing'[a].pc = "map" => doing[a].pc = "map" /\ ClockMapped(a)' = ClockMapped(a)
  BY DEF ClockMapped, O!Core
<1>2. \A a \in O!Actors : doing[a].pc = "map" => doing'[a].pc = "map"
  OBVIOUS
<1> QED
  BY <1>1, <1>2 DEF ClockMirror

\* An offset reaches the GPU.
LEMMA ClockWriteMirror ==
    ASSUME O!OverclockConstants, ClockTypes, ClockMirror, NEW a \in O!Actors, O!WriteOffset(a),
           ~ghost'.lost
    PROVE  ClockMirror'
<1>1. ~ghost.lost /\ ~O!Crossing(a) /\ UNCHANGED map /\ doing[a].pc = "write"
  BY DEF O!WriteOffset, ClockTypes, O!Crossing
<1>2. \A b \in O!Actors \ {a} : ~O!Writing(b) /\ doing'[b] = doing[b]
  BY <1>1, ClockWriteFacts DEF O!Crossing
<1>3. /\ doing'[a].pc = "map" /\ doing'[a].job = doing[a].job
      /\ doing'[a].core = doing[a].core /\ doing'[a].mem = doing[a].mem
  BY ClockWriteFacts
<1>4. /\ map = inForce /\ map # O!NoEntry
      /\ doing[O!Sched].job = "reset" /\ doing[O!Sched].core = None => inForce.core = 0
  <2>1. \A b \in O!Actors : doing[b].pc # "map"
    BY <1>1, <1>2 DEF O!Writing
  <2> QED
    BY <1>1, <2>1 DEF ClockMirror
<1>5. ClockMapped(a)' = inForce'
  <2>1. O!Core(a)' = O!Core(a)
    BY <1>3 DEF O!Core
  <2>2. CASE O!Core(a)
    BY <1>1, <1>3, <1>4, <2>1, <2>2 DEF ClockMapped, O!WriteOffset
  <2>3. CASE ~O!Core(a)
    BY <1>1, <1>3, <1>4, <2>1, <2>3 DEF ClockMapped, O!WriteOffset
  <2> QED
    BY <2>2, <2>3
<1>6. \A b \in O!Actors : doing'[b].pc = "map" => b = a
  BY <1>2 DEF O!Writing
<1>7. /\ doing'[O!Sched].job = "reset" /\ doing'[O!Sched].core = None => inForce'.core = 0
      /\ doing'[O!Sched].pc # "insert"
  <2>1. CASE a = O!Sched
    <3>1. doing[O!Sched].core = None => inForce'.core = inForce.core
      BY <2>1 DEF O!WriteOffset, O!Core, ClockTypes
    <3> QED
      BY <1>3, <1>4, <2>1, <3>1
  <2>2. CASE a # O!Sched
    BY <1>2, <2>2, ClockRestingSched, ClockNameFacts
  <2> QED
    BY <2>1, <2>2
<1> QED
  BY <1>1, <1>3, <1>4, <1>5, <1>6, <1>7 DEF ClockMirror

\* It reaches the map.
LEMMA ClockMapMirror ==
    ASSUME O!OverclockConstants, ClockTypes, ClockTypes', ClockMirror, NEW a \in O!Actors, O!MapOffset(a),
           ~ghost'.lost
    PROVE  ClockMirror'
<1>1. /\ doing[a].pc = "map" /\ map' = O!Entry(a) /\ UNCHANGED inForce
      /\ (~ghost.lost /\ ~O!Crossing(a)) \/ O!Agrees
  BY DEF O!MapOffset, ClockTypes, O!Crossing, O!Agrees
<1>2. /\ doing'[a] = O!AfterWrite(a) /\ doing'[a].pc # "map"
      /\ \A b \in O!Actors \ {a} : doing'[b] = doing[b]
  BY ClockAfterFacts DEF O!MapOffset, ClockTypes
<1>3. CASE O!Agrees
  <2>1. map' = inForce' /\ map' # O!NoEntry
    BY <1>1, <1>3, ClockEntryFacts DEF O!Agrees, ClockTypes
  <2>2. \A b \in O!Actors : doing'[b].pc \in {"idle", "pass"}
    BY <1>3 DEF O!Agrees
  <2>3. ClockShape(O!Sched, doing'[O!Sched])
    BY ClockNameFacts DEF ClockTypes
  <2>4. doing'[O!Sched].job # "reset"
    BY <2>2, <2>3, ClockNameFacts DEF ClockShape, ClockSchedShape
  <2>5. /\ \A b \in O!Actors : doing'[b].pc # "map"
        /\ doing'[O!Sched].pc # "insert"
    BY <2>2, ClockNameFacts
  <2> QED
    BY <2>1, <2>4, <2>5 DEF ClockMirror
<1>4. CASE ~ghost.lost /\ ~O!Crossing(a)
  <2>1. \A b \in O!Actors \ {a} : ~O!Writing(b) /\ doing'[b].pc # "map"
    BY <1>2, <1>4 DEF O!Crossing, O!Writing
  <2>2. map # O!NoEntry /\ ClockMapped(a) = inForce
    BY <1>1, <1>4 DEF ClockMirror
  <2>3. O!Entry(a) = ClockMapped(a)
    BY <2>2 DEF O!Entry, ClockMapped
  <2>4. map' = inForce' /\ map' # O!NoEntry
    BY <1>1, <2>2, <2>3, ClockEntryFacts DEF ClockTypes
  <2>5. /\ doing'[O!Sched].job = "reset" /\ doing'[O!Sched].core = None => inForce.core = 0
        /\ doing'[O!Sched].pc = "insert" => inForce.mem = 0
    <3>1. CASE a # O!Sched
      BY <1>2, <2>1, <3>1, ClockRestingSched, ClockNameFacts
    <3>2. CASE a = O!Sched /\ doing[a].job # "reset"
      BY <1>1, <1>2, <3>2, ClockAfterFacts, ClockNameFacts
    <3>3. CASE a = O!Sched /\ doing[a].job = "reset"
      <4>1. doing[a].core \in {0, None} /\ doing[a].mem = 0
        BY <1>1, <3>3, ClockActorFacts DEF ClockShape, ClockSchedShape
      <4>2. CASE doing[a].core = 0
        <5>1. O!Core(a) /\ inForce.core = 0
          BY <2>2, <4>2, ClockNameFacts DEF O!Core, ClockMapped, ClockTypes, O!NoEntry
        <5>2. doing'[a].pc # "insert"
          BY <1>1, <1>2, <4>1, <5>1, ClockAfterFacts, ClockNameFacts
        <5> QED
          BY <3>3, <5>1, <5>2
      <4>3. CASE doing[a].core = None
        <5>1. inForce.mem = 0
          BY <2>2, <4>1, <4>3 DEF O!Core, ClockMapped, ClockTypes, O!NoEntry
        <5>2. inForce.core = 0
          BY <1>4, <3>3, <4>3 DEF ClockMirror
        <5> QED
          BY <5>1, <5>2
      <4> QED
        BY <4>1, <4>2, <4>3
    <3> QED
      BY <3>1, <3>2, <3>3
  <2>6. \A b \in O!Actors : doing'[b].pc # "map"
    BY <1>2, <2>1
  <2> QED
    BY <1>1, <2>4, <2>5, <2>6 DEF ClockMirror
<1> QED
  BY <1>1, <1>3, <1>4

\* It reaches neither.
LEMMA ClockFailMirror ==
    ASSUME O!OverclockConstants, ClockTypes, ClockMirror, NEW a \in O!Actors, O!WriteFails(a),
           ~ghost'.lost
    PROVE  ClockMirror'
<1>1. /\ ~ghost.lost /\ doing[a].job # "reset" /\ doing[a].pc = "write"
      /\ UNCHANGED <<inForce, map>>
  BY DEF O!WriteFails, ClockTypes
<1>2. /\ doing'[a] = O!AfterWrite(a) \/ doing'[a] = O!Idle
      /\ \A b \in O!Actors \ {a} : doing'[b] = doing[b]
  BY DEF O!WriteFails, ClockTypes
<1>3. doing'[a].pc \notin {"map", "insert"} /\ doing'[a].job # "reset"
  BY <1>1, <1>2, ClockAfterFacts, ClockNameFacts
<1>4. \A b \in O!Actors : doing[b].pc = "map" \/ doing'[b].pc = "map"
                           => doing'[b] = doing[b]
  BY <1>1, <1>2, <1>3
<1>5. \/ doing'[O!Sched] = doing[O!Sched]
      \/ doing'[O!Sched].job # "reset" /\ doing'[O!Sched].pc # "insert"
  BY <1>2, <1>3, ClockNameFacts
<1> QED
  BY <1>1, <1>4, <1>5, ClockSameMirror

\* The job does something else than to write.
LEMMA ClockJobMirror ==
    ASSUME O!OverclockConstants, ClockTypes, ClockTypes', ClockMirror, ~ghost'.lost,
           O!Job \/ O!InsertZeros \/ O!FindsNothing \/ O!FindsP0 \/ O!LeavesP0
    PROVE  ClockMirror'
<1>1. /\ O!Sched \in O!Actors /\ ClockShape(O!Sched, doing[O!Sched])
      /\ \A b \in O!Actors \ {O!Sched} : doing'[b] = doing[b]
      /\ UNCHANGED inForce
  BY ClockJobFacts, ClockActorFacts, ClockNameFacts
<1>2. CASE O!InsertZeros
  <2>1. /\ doing[O!Sched].pc = "insert" /\ doing[O!Sched].job = "reset"
        /\ doing[O!Sched].core = None
        /\ map' = [core |-> 0, mem |-> 0] /\ doing'[O!Sched] = O!Idle
        /\ (~ghost.lost /\ ~O!Crossing(O!Sched)) \/ O!Agrees
    BY <1>1, <1>2 DEF O!InsertZeros, ClockShape, ClockSchedShape, ClockTypes,
                      O!Crossing, O!Agrees
  <2>2. map' # O!NoEntry
    BY <2>1, ClockNameFacts, ClockEntryFacts
  <2>3. map' = inForce' /\ \A b \in O!Actors : doing'[b].pc # "map"
    <3>1. CASE O!Agrees
      BY <1>1, <3>1 DEF O!Agrees
    <3>2. CASE ~ghost.lost /\ ~O!Crossing(O!Sched)
      <4>1. inForce.core = 0 /\ inForce.mem = 0
        BY <2>1, <3>2 DEF ClockMirror
      <4>2. inForce = [core |-> 0, mem |-> 0]
        BY <4>1 DEF ClockTypes
      <4>3. \A b \in O!Actors \ {O!Sched} : doing'[b].pc # "map"
        BY <1>1, <3>2 DEF O!Crossing, O!Writing
      <4> QED
        BY <1>1, <2>1, <4>2, <4>3, ClockNameFacts
    <3> QED
      BY <2>1, <3>1, <3>2
  <2> QED
    BY <2>1, <2>2, <2>3, ClockNameFacts DEF ClockMirror
<1>3. CASE O!Job \/ O!FindsNothing \/ O!FindsP0 \/ O!LeavesP0
  <2>1. ~ghost.lost /\ UNCHANGED map
    BY <1>3 DEF O!Job, O!JobOff, O!JobOn, O!FindsNothing, O!FindsP0, O!LeavesP0,
                ClockTypes
  <2>2. doing[O!Sched].pc \in {"idle", "pass"}
    BY <1>3 DEF O!Job, O!JobOff, O!JobOn, O!FindsNothing, O!FindsP0, O!LeavesP0, O!Busy
  <2>3. /\ doing'[O!Sched].pc \notin {"map", "insert"}
        /\ doing'[O!Sched].job = "reset" => doing'[O!Sched].core # None
    <3>1. CASE doing' = doing
      BY <1>1, <2>2, <3>1, ClockNameFacts DEF ClockShape, ClockSchedShape
    <3>2. CASE O!JobOn
      BY <1>1, <3>2 DEF O!JobOn, ClockTypes, O!Idle
    <3>3. CASE doing' = [doing EXCEPT ![O!Sched] = O!Idle]
      BY <1>1, <3>3, ClockNameFacts DEF ClockTypes
    <3>4. CASE doing' = [doing EXCEPT ![O!Sched] = O!Writer("leave_p0", 0, None)]
      BY <1>1, <3>4 DEF ClockTypes, O!Writer
    <3>5. CASE \E offset \in Offsets :
                  doing' = [doing EXCEPT ![O!Sched] = O!Writer("dynamic", offset, None)]
      BY <1>1, <3>5 DEF ClockTypes, O!Writer
    <3>6. CASE doing' = [doing EXCEPT ![O!Sched] = O!Writer("reset", 0, 0)]
      BY <1>1, <3>6, ClockNameFacts DEF ClockTypes, O!Writer
    <3> QED
      BY <1>3, <3>1, <3>2, <3>3, <3>4, <3>5, <3>6
         DEF O!Job, O!JobOff, O!FindsNothing, O!FindsP0, O!LeavesP0
  <2>4. \A b \in O!Actors : doing[b].pc = "map" \/ doing'[b].pc = "map"
                             => doing'[b] = doing[b]
    BY <1>1, <2>2, <2>3
  <2> QED
    BY <1>1, <2>1, <2>3, <2>4, ClockSameMirror
<1> QED
  BY <1>2, <1>3

LEMMA ClockStepMirror ==
    ASSUME O!OverclockConstants, ClockTypes, ClockTypes', ClockMirror, [O!Next]_(O!vars)
    PROVE  ClockMirror'
<1> SUFFICES ASSUME ~ghost'.lost PROVE ClockMirror'
  BY DEF ClockMirror
<1>1. ASSUME NEW c \in Callers, O!Call(c) PROVE ClockMirror'
  <2>1. /\ ~ghost.lost /\ UNCHANGED <<inForce, map>>
        /\ doing[c].pc = "idle" /\ doing'[c].pc \in {"idle", "write"}
        /\ \A b \in O!Actors \ {c} : doing'[b] = doing[b]
    BY <1>1, ClockCallFacts
  <2>2. doing'[O!Sched] = doing[O!Sched]
    BY <2>1, ClockNameFacts
  <2>3. \A b \in O!Actors : doing[b].pc = "map" \/ doing'[b].pc = "map"
                             => doing'[b] = doing[b]
    BY <2>1
  <2> QED
    BY <2>1, <2>2, <2>3, ClockSameMirror
<1>2. ASSUME NEW a \in O!Actors, O!Writes(a) PROVE ClockMirror'
  BY <1>2, ClockWriteMirror, ClockMapMirror, ClockFailMirror DEF O!Writes
<1>3. CASE O!Job \/ O!InsertZeros \/ O!FindsNothing \/ O!FindsP0 \/ O!LeavesP0
  BY <1>3, ClockJobMirror
<1>4. CASE UNCHANGED O!vars
  <2>1. \A a \in O!Actors : ClockMapped(a)' = ClockMapped(a)
    BY <1>4 DEF O!vars, ClockMapped, O!Core
  <2> QED
    BY <1>4, <2>1 DEF O!vars, ClockMirror
<1> QED
  BY <1>1, <1>2, <1>3, <1>4, ClockNameFacts DEF O!Next, O!JobProgress

-----------------------------------------------------------------------------
(* What was asked for *)

LEMMA ClockInitAsked == O!Init => ClockAskedInv
BY DEF O!Init, ClockAskedInv

\* The offset in force, the request and the calls that have a core offset to
\* write stay.
LEMMA ClockSameAsked ==
    ASSUME ClockAskedInv, inForce'.core = inForce.core, UNCHANGED settings,
           ghost'.asked \in {ghost.asked, None},
           \A c \in Callers :
              /\ doing'[c].pc = "write" /\ doing'[c].core # None <=>
                    doing[c].pc = "write" /\ doing[c].core # None
              /\ doing[c].pc = "write" /\ doing[c].core # None =>
                    doing'[c].core = doing[c].core
    PROVE  ClockAskedInv'
<1> SUFFICES ASSUME ghost'.asked # None PROVE ClockAskedInv'
  BY DEF ClockAskedInv
<1>1. ghost'.asked = ghost.asked /\ O!Static' /\ ClockPending' = ClockPending
  BY DEF ClockAskedInv, O!Static, ClockPending, O!Core
<1>2. CASE ClockPending = {} /\ inForce.core = ghost.asked
  BY <1>1, <1>2 DEF ClockAskedInv
<1>3. ASSUME NEW c \in Callers, ClockPending = {c}, doing[c].core = ghost.asked
      PROVE  ClockAskedInv'
  <2>1. doing'[c].core = ghost.asked
    BY <1>3 DEF ClockPending, O!Core
  <2> QED
    BY <1>1, <1>3, <2>1 DEF ClockAskedInv
<1> QED
  BY <1>1, <1>2, <1>3 DEF ClockAskedInv

\* A call that begins is the only one with a core offset to write, if what it
\* asks for is remembered.
LEMMA ClockNewAsked ==
    ASSUME O!OverclockConstants, ClockTypes, NEW c \in Callers, ~O!Crossing(c), NEW v,
           v # None, doing'[c].pc = "write", doing'[c].core = v, ghost'.asked = v,
           \A b \in O!Actors \ {c} : doing'[b] = doing[b], O!Static'
    PROVE  ClockAskedInv'
<1>1. \A b \in Callers \ {c} : doing'[b].pc # "write"
  BY ClockNameFacts DEF O!Crossing, O!Writing
<1>2. ClockPending' = {c}
  BY <1>1 DEF ClockPending, O!Core
<1> QED
  BY <1>2 DEF ClockAskedInv

LEMMA ClockCallAsked ==
    ASSUME O!OverclockConstants, ClockTypes, ClockAskedInv, NEW c \in Callers, O!Call(c)
    PROVE  ClockAskedInv'
<1>1. /\ doing[c].pc = "idle" /\ UNCHANGED inForce
      /\ \A b \in O!Actors \ {c} : doing'[b] = doing[b]
      /\ c \in O!Actors
  BY ClockCallFacts, ClockNameFacts
<1>2. \A b \in Callers \ {c} : doing'[b] = doing[b]
  BY <1>1, ClockNameFacts
<1>3. ASSUME NEW v \in Offsets, O!SetGpuCoreOffset(c, v) PROVE ClockAskedInv'
  <2>1. doing'[c].pc = "write" /\ doing'[c].core = v
    BY <1>1, <1>3 DEF O!SetGpuCoreOffset, O!Writer, ClockTypes
  <2>2. CASE O!Static /\ ~O!Crossing(c)
    <3>1. ghost'.asked = v /\ O!Static'
      BY <1>3, <2>2 DEF O!SetGpuCoreOffset, ClockTypes, O!Static
    <3> QED
      BY <1>1, <2>1, <2>2, <3>1, ClockNewAsked, ClockNameFacts
  <2>3. CASE ~(O!Static /\ ~O!Crossing(c))
    <3>1. ghost'.asked = None
      BY <1>3, <2>3 DEF O!SetGpuCoreOffset, ClockTypes
    <3> QED
      BY <3>1 DEF ClockAskedInv
  <2> QED
    BY <2>2, <2>3
<1>4. ASSUME NEW v \in MemOffsets, O!SetGpuMemoryOffset(c, v) PROVE ClockAskedInv'
  <2>1. doing'[c].core = None
    BY <1>1, <1>4 DEF O!SetGpuMemoryOffset, O!Writer, ClockTypes
  <2>2. UNCHANGED <<settings, ghost>>
    BY <1>4 DEF O!SetGpuMemoryOffset
  <2> QED
    BY <1>1, <1>2, <2>1, <2>2, ClockSameAsked
<1>5. ASSUME NEW p \in Profiles, O!ApplyProfile(c, p) PROVE ClockAskedInv'
  <2>1. CASE settings = p /\ UNCHANGED <<doing, ghost>>
    <3>1. UNCHANGED settings
      BY <1>5, <2>1 DEF O!ApplyProfile
    <3> QED
      BY <1>1, <2>1, <3>1, ClockSameAsked
  <2>2. CASE ~(settings = p /\ UNCHANGED <<doing, ghost>>)
    <3>1. /\ settings' = p /\ doing' = [doing EXCEPT ![c] = O!ProfileOffsets(p)]
          /\ ghost' = [ghost EXCEPT !.asked =
                IF p.manual /\ ~p.advanced /\ ~O!Crossing(c) THEN p.core ELSE None]
      BY <1>5, <2>2 DEF O!ApplyProfile
    <3>2. doing'[c].pc = "write" /\ doing'[c].core = p.core
      BY <1>1, <3>1 DEF O!ProfileOffsets, O!Writer, ClockTypes
    <3>3. CASE p.manual /\ ~p.advanced /\ ~O!Crossing(c)
      <4>1. ghost'.asked = p.core /\ O!Static' /\ p.core # None
        BY <3>1, <3>3, ClockNameFacts DEF ClockTypes, O!Static
      <4> QED
        BY <1>1, <3>2, <3>3, <4>1, ClockNewAsked
    <3>4. CASE ~(p.manual /\ ~p.advanced /\ ~O!Crossing(c))
      <4>1. ghost'.asked = None
        BY <3>1, <3>4 DEF ClockTypes
      <4> QED
        BY <4>1 DEF ClockAskedInv
    <3> QED
      BY <3>3, <3>4
  <2> QED
    BY <2>1, <2>2
<1> QED
  BY <1>3, <1>4, <1>5 DEF O!Call

\* The only write of a core offset that leaves the request remembered is that
\* of the call that made it.
LEMMA ClockWriteAsked ==
    ASSUME O!OverclockConstants, ClockTypes, ClockAskedInv, NEW a \in O!Actors, O!WriteOffset(a)
    PROVE  ClockAskedInv'
<1>1. /\ doing[a].pc = "write" /\ UNCHANGED settings
      /\ ghost'.asked = IF O!Crossing(a) \/ O!Outdated(a) THEN None ELSE ghost.asked
  BY DEF O!WriteOffset, ClockTypes
<1>2. /\ doing'[a].pc = "map"
      /\ \A b \in O!Actors \ {a} : doing'[b] = doing[b]
  BY ClockWriteFacts
<1> SUFFICES ASSUME ghost'.asked # None PROVE ClockAskedInv'
  BY DEF ClockAskedInv
<1>3. ghost'.asked = ghost.asked /\ ~O!Crossing(a) /\ ~O!Outdated(a) /\ O!Static
  BY <1>1 DEF ClockAskedInv
<1>4. a \in Callers
  <2>1. SUFFICES ASSUME a = O!Sched PROVE FALSE
    BY ClockNameFacts
  <2>2. doing[a].job \in {"dynamic", "leave_p0", "reset"}
    BY <1>1, <2>1, ClockActorFacts DEF ClockShape, ClockSchedShape
  <2>3. O!Dynamic \/ O!Off
    BY <1>3, <2>2 DEF O!Outdated
  <2> QED
    BY <1>3, <2>3 DEF O!Dynamic, O!Off, O!Static
<1>5. CASE O!Core(a)
  <2>1. a \in ClockPending
    BY <1>1, <1>4, <1>5 DEF ClockPending
  <2>2. doing[a].core = ghost.asked /\ ClockPending = {a}
    BY <1>3, <2>1 DEF ClockAskedInv
  <2>3. inForce'.core = ghost.asked
    BY <1>5, <2>2 DEF O!WriteOffset, ClockTypes
  <2>4. ClockPending' = {}
    BY <1>2, <2>2, ClockNameFacts DEF ClockPending, O!Core
  <2>5. O!Static'
    BY <1>1, <1>3 DEF O!Static
  <2> QED
    BY <1>3, <2>3, <2>4, <2>5 DEF ClockAskedInv
<1>6. CASE ~O!Core(a)
  <2>1. inForce'.core = inForce.core
    BY <1>6 DEF O!WriteOffset, ClockTypes
  <2>2. \A c \in Callers : doing'[c] = doing[c] \/ (c = a /\ doing[c].core = None)
    BY <1>2, <1>6, ClockNameFacts DEF O!Core
  <2> QED
    BY <1>1, <1>2, <1>3, <2>1, <2>2, ClockSameAsked
<1> QED
  BY <1>5, <1>6

\* The other half of a write, or a write that fails.
LEMMA ClockAfterAsked ==
    ASSUME O!OverclockConstants, ClockTypes, ClockAskedInv, NEW a \in O!Actors,
           O!MapOffset(a) \/ O!WriteFails(a)
    PROVE  ClockAskedInv'
<1>1. /\ UNCHANGED <<inForce, settings>>
      /\ doing'[a] = O!AfterWrite(a) \/ doing'[a] = O!Idle
      /\ \A b \in O!Actors \ {a} : doing'[b] = doing[b]
      /\ doing[a].pc \in {"write", "map"}
  BY DEF O!MapOffset, O!WriteFails, ClockTypes
<1>2. doing'[a].core = None
  BY <1>1, ClockAfterFacts, ClockNameFacts
<1>3. CASE a \in Callers /\ O!WriteFails(a) /\ O!Core(a)
  <2>1. ghost'.asked = None
    BY <1>3, ClockNameFacts DEF O!WriteFails, ClockTypes
  <2> QED
    BY <2>1 DEF ClockAskedInv
<1>4. CASE ~(a \in Callers /\ O!WriteFails(a) /\ O!Core(a))
  <2>1. ghost'.asked = ghost.asked
    BY <1>4, ClockNameFacts DEF O!MapOffset, O!WriteFails, ClockTypes
  <2>2. \A c \in Callers :
          \/ doing'[c] = doing[c]
          \/ doing'[c].core = None /\ (doing[c].pc # "write" \/ doing[c].core = None)
    BY <1>1, <1>2, <1>4, ClockNameFacts DEF O!MapOffset, O!Core
  <2> QED
    BY <1>1, <2>1, <2>2, ClockSameAsked
<1> QED
  BY <1>3, <1>4

LEMMA ClockStepAsked ==
    ASSUME O!OverclockConstants, ClockTypes, ClockAskedInv, [O!Next]_(O!vars)
    PROVE  ClockAskedInv'
<1>1. CASE O!Job \/ O!InsertZeros \/ O!FindsNothing \/ O!FindsP0 \/ O!LeavesP0
  BY <1>1, ClockJobFacts, ClockSameAsked
<1>2. CASE UNCHANGED O!vars
  BY <1>2, ClockSameAsked DEF O!vars
<1> QED
  BY <1>1, <1>2, ClockCallAsked, ClockWriteAsked, ClockAfterAsked, ClockNameFacts
     DEF O!Next, O!JobProgress, O!Writes

\* Once every call has ended and the job rests, the map is what the GPU has,
\* unless writers crossed, a reset failed or the GPU had offsets at the start;
\* and with manual clocks the core offset is the one asked for last.
LEMMA ClockOffsetsSafe == ClockTypes /\ ClockMirror /\ ClockAskedInv => O!OffsetsAsTold
<1> SUFFICES ASSUME ClockTypes, ClockMirror, ClockAskedInv, O!Quiescent
             PROVE  O!MapMirrorsGpu /\ O!StaticOffsetHolds
  BY DEF O!OffsetsAsTold
<1>1. O!OverclockConstants /\ \A a \in O!Actors : doing[a].pc = "idle"
  BY DEF ClockTypes, O!Quiescent, O!Busy
<1>2. O!MapMirrorsGpu
  BY <1>1 DEF ClockMirror, O!MapMirrorsGpu
<1>3. ClockPending = {}
  BY <1>1, ClockNameFacts DEF ClockPending
<1>4. O!StaticOffsetHolds
  BY <1>3 DEF ClockAskedInv, O!StaticOffsetHolds
<1> QED
  BY <1>2, <1>4

\* The invariant of the offsets, and what the composition needs of it.
ClockInv == ClockTypes /\ ClockBelief /\ ClockMirror /\ ClockAskedInv

LEMMA ClockInit == O!OverclockConstants /\ O!Init => ClockInv
BY ClockInitTypes, ClockInitBelief, ClockInitMirror, ClockInitAsked DEF ClockInv

LEMMA ClockStep == ClockInv /\ [O!Next]_(O!vars) => ClockInv'
<1> SUFFICES ASSUME ClockInv, [O!Next]_(O!vars) PROVE ClockInv'
  OBVIOUS
<1>1. O!OverclockConstants /\ ClockTypes /\ ClockBelief /\ ClockMirror /\ ClockAskedInv
  BY DEF ClockInv, ClockTypes
<1>2. ClockTypes'
  BY <1>1, ClockStepTypes
<1>3. ClockBelief'
  BY <1>1, ClockStepBelief
<1>4. ClockMirror'
  BY <1>1, <1>2, ClockStepMirror
<1>5. ClockAskedInv'
  BY <1>1, <1>2, ClockStepAsked
<1> QED
  BY <1>2, <1>3, <1>4, <1>5 DEF ClockInv

LEMMA ClockSafe ==
    ClockInv => O!TypeOK /\ O!BeliefBrokenOnlyOutside /\ O!OffsetsAsTold
BY ClockTypesSafe, ClockBeliefSafe, ClockOffsetsSafe DEF ClockInv

-----------------------------------------------------------------------------
(* The rates: Telemetry *)

TeleCpuSample == [user : 0 .. MaxEvents, irq : 0 .. MaxEvents, idle : 0 .. MaxEvents]
TeleRateSample == [value : 0 .. MaxEvents, passed : 0 .. MaxEvents, at : 0 .. MaxEvents]
TeleWifiSample == [value : 0 .. MaxEvents, source : {"iw", "sysfs", "none"},
               passed : 0 .. MaxEvents, at : 0 .. MaxEvents]

TeleSampleType(k) ==
    CASE k = "cpu" -> TeleCpuSample [] k = "wifi" -> TeleWifiSample [] OTHER -> TeleRateSample

TeleType ==
    /\ present \subseteq T!Counters
    /\ events \in 0 .. MaxEvents
    /\ cpu \in [user : 0 .. events, irq : 0 .. events, idle : 0 .. events]
    /\ energy \in [counter : 0 .. events, spent : 0 .. events] /\ energy.counter < Wrap
    /\ wifi \in [iw : 0 .. events, sysfs : 0 .. events, associated : BOOLEAN]
    /\ disk \in [sectors : 0 .. events, moved : 0 .. events]
    /\ DOMAIN prev = T!Counters
    /\ \A k \in T!Counters : prev[k] = None \/ prev[k] \in TeleSampleType(k)
    /\ DOMAIN reading = Refreshers
    /\ \A a \in Refreshers :
          /\ reading[a].pc \in {"idle"} \cup T!Counters
          /\ \A k \in T!Counters : T!At(a, k) => reading[a].sample \in TeleSampleType(k)
    /\ DOMAIN shown = T!Counters
    /\ \A k \in T!Counters \ {"cpu"} :
          shown[k].amount = None \/ shown[k].amount \in 0 .. MaxEvents

\* A reading of counter k that is kept or under way
TeleKept(k, s) ==
    \/ prev[k] # None /\ s = prev[k]
    \/ \E a \in Refreshers : T!At(a, k) /\ s = reading[a].sample

\* What a reading of counter k would find now
TeleSource(k, s) == IF k = "wifi" THEN s.source ELSE "kernel"
TeleNow(k, source) ==
    CASE k = "rapl" -> energy.counter
      [] k = "disk" -> disk.sectors
      [] k = "wifi" /\ source = "iw" -> wifi.iw
      [] k = "wifi" /\ source = "sysfs" -> wifi.sysfs
      [] OTHER -> 0
TelePassed(k) ==
    CASE k = "rapl" -> energy.spent [] k = "disk" -> disk.moved [] OTHER -> wifi.sysfs

\* From reading s to a value and to what had passed then, the counter gained no
\* more than what passed.
TeleGains(s, value, passed) == s.passed <= passed /\ value - s.value <= passed - s.passed

\* Ticks only grow: of two readings one is the earlier in every kind of tick.
TeleBefore(s, t) == s.user <= t.user /\ s.irq <= t.irq /\ s.idle <= t.idle

TeleCpuKept ==
    /\ \A s \in TeleCpuSample : TeleKept("cpu", s) => TeleBefore(s, cpu)
    /\ \A s, t \in TeleCpuSample : TeleKept("cpu", s) /\ TeleKept("cpu", t) => TeleBefore(s, t) \/ TeleBefore(t, s)

TeleRateKept(k) ==
    /\ \A s \in TeleSampleType(k) : TeleKept(k, s) =>
          /\ s.at <= events
          /\ TeleGains(s, TeleNow(k, TeleSource(k, s)), TelePassed(k))
          /\ s.at = events => s.value = TeleNow(k, TeleSource(k, s)) /\ s.passed = TelePassed(k)
    /\ \A s, t \in TeleSampleType(k) :
          TeleKept(k, s) /\ TeleKept(k, t) /\ s.at <= t.at /\ TeleSource(k, s) = TeleSource(k, t) =>
              TeleGains(s, t.value, t.passed)

TeleRate == {"rapl", "wifi", "disk"}

TeleInv ==
    /\ T!TelemetryConstants /\ TeleType /\ TeleCpuKept /\ \A k \in TeleRate : TeleRateKept(k)
    /\ T!RateIsTraffic

-----------------------------------------------------------------------------
(* Rates *)

LEMMA TeleCountFacts ==
    ASSUME T!TelemetryConstants, TeleType
    PROVE  /\ MaxEvents \in Nat /\ events \in Nat /\ events <= MaxEvents
           /\ cpu \in TeleCpuSample
           /\ \A k \in TeleRate : TelePassed(k) \in 0 .. events
           /\ \A k \in TeleRate : \A source : TeleNow(k, source) \in 0 .. events
           /\ TeleRate \subseteq T!Counters /\ "cpu" \in T!Counters
<1>1. MaxEvents \in Nat /\ events \in 0 .. MaxEvents
  BY DEF T!TelemetryConstants, TeleType
<1>2. /\ energy.counter \in 0 .. events /\ energy.spent \in 0 .. events
      /\ wifi.iw \in 0 .. events /\ wifi.sysfs \in 0 .. events
      /\ disk.sectors \in 0 .. events /\ disk.moved \in 0 .. events
      /\ cpu \in [user : 0 .. events, irq : 0 .. events, idle : 0 .. events]
  BY DEF TeleType
<1>3. cpu \in TeleCpuSample
  BY <1>1, <1>2 DEF TeleCpuSample
<1>4. \A k \in TeleRate : TelePassed(k) \in 0 .. events
  BY <1>2 DEF TelePassed, TeleRate
<1>5. \A k \in TeleRate : \A source : TeleNow(k, source) \in 0 .. events
  BY <1>1, <1>2 DEF TeleNow, TeleRate
<1> QED
  BY <1>1, <1>3, <1>4, <1>5 DEF TeleRate, T!Counters

\* Each refresher keeps its type when one of them goes on.
LEMMA TeleGoFacts ==
    ASSUME TeleType, NEW a \in Refreshers, NEW pc \in {"idle"} \cup T!Counters, NEW sample,
           pc \in T!Counters => sample \in TeleSampleType(pc), T!Go(a, pc, sample)
    PROVE  /\ DOMAIN reading' = Refreshers
           /\ reading'[a].pc = pc /\ reading'[a].sample = sample
           /\ \A b \in Refreshers \ {a} : reading'[b] = reading[b]
           /\ \A b \in Refreshers :
                 /\ reading'[b].pc \in {"idle"} \cup T!Counters
                 /\ \A k \in T!Counters : T!At(b, k)' => reading'[b].sample \in TeleSampleType(k)
<1> DEFINE new == [pc |-> pc, sample |-> sample]
<1>1. new.pc = pc /\ new.sample = sample /\ "idle" \notin T!Counters
  BY DEF T!Counters
<1>2. DOMAIN reading = Refreshers /\ reading' = [reading EXCEPT ![a] = new]
  BY DEF TeleType, T!Go
<1> HIDE DEF new
<1>3. /\ DOMAIN reading' = Refreshers /\ reading'[a] = new
      /\ \A b \in Refreshers \ {a} : reading'[b] = reading[b]
  BY <1>2
<1>4. \A k : TeleSampleType(k)' = TeleSampleType(k)
  BY DEF TeleSampleType, TeleCpuSample, TeleWifiSample, TeleRateSample
<1>5. ASSUME NEW b \in Refreshers
      PROVE  /\ reading'[b].pc \in {"idle"} \cup T!Counters
             /\ \A k \in T!Counters : T!At(b, k)' => reading'[b].sample \in TeleSampleType(k)
  <2>1. CASE b = a
    BY <1>1, <1>3, <2>1 DEF T!At
  <2>2. CASE b # a
    BY <1>3, <2>2 DEF T!At, TeleType
  <2> QED
    BY <2>1, <2>2
<1> QED
  BY <1>1, <1>3, <1>5

\* The readings kept or under way after a step that reads counter k ...
LEMMA TeleKeptRead ==
    ASSUME TeleType, NEW a \in Refreshers, NEW k \in T!Counters, NEW s \in TeleSampleType(k),
           T!Go(a, k, s), UNCHANGED prev
    PROVE  \A j \in T!Counters : \A t : TeleKept(j, t)' => TeleKept(j, t) \/ (j = k /\ t = s)
<1>1. /\ reading'[a].pc = k /\ reading'[a].sample = s
      /\ \A b \in Refreshers \ {a} : reading'[b] = reading[b]
  BY TeleGoFacts
<1> QED
  BY <1>1 DEF TeleKept, T!At

\* ... and after one that stores a reading.
LEMMA TeleKeptStore ==
    ASSUME TeleType, NEW a \in Refreshers, NEW k \in T!Counters, T!At(a, k), T!Go(a, "idle", None),
           UNCHANGED prev \/ prev' = [prev EXCEPT ![k] = reading[a].sample]
    PROVE  /\ \A j \in T!Counters : \A t : TeleKept(j, t)' => TeleKept(j, t)
           /\ DOMAIN prev' = T!Counters
           /\ \A j \in T!Counters : prev'[j] = None \/ prev'[j] \in TeleSampleType(j)
           /\ reading[a].sample \in TeleSampleType(k) /\ TeleKept(k, reading[a].sample)
<1>1. /\ reading'[a].pc = "idle"
      /\ \A b \in Refreshers \ {a} : reading'[b] = reading[b]
      /\ "idle" \notin T!Counters
  BY TeleGoFacts DEF T!Counters
<1>2. reading[a].sample \in TeleSampleType(k) /\ TeleKept(k, reading[a].sample)
  BY DEF TeleType, TeleKept
<1>3. /\ DOMAIN prev = T!Counters
      /\ \A j \in T!Counters : prev[j] = None \/ prev[j] \in TeleSampleType(j)
  BY DEF TeleType
<1>4. /\ DOMAIN prev' = T!Counters
      /\ \A j \in T!Counters : prev'[j] = prev[j] \/ (j = k /\ prev'[j] = reading[a].sample)
  BY <1>3
<1>5. ASSUME NEW j \in T!Counters, NEW t, TeleKept(j, t)'
      PROVE  TeleKept(j, t)
  <2>1. CASE prev'[j] # None /\ t = prev'[j]
    BY <1>2, <1>4, <2>1 DEF TeleKept
  <2>2. CASE \E b \in Refreshers : T!At(b, j)' /\ t = reading'[b].sample
    BY <1>1, <2>2 DEF TeleKept, T!At
  <2> QED
    BY <1>5, <2>1, <2>2 DEF TeleKept
<1> QED
  BY <1>2, <1>3, <1>4, <1>5

LEMMA TeleKeptSame ==
    ASSUME UNCHANGED <<prev, reading>>
    PROVE  \A j, t : TeleKept(j, t)' <=> TeleKept(j, t)
BY DEF TeleKept, T!At

\* A reading's numbers
LEMMA TeleSampleFacts ==
    ASSUME MaxEvents \in Nat, NEW k \in TeleRate, NEW t \in TeleSampleType(k)
    PROVE  t.value \in Nat /\ t.passed \in Nat /\ t.at \in Nat
<1>1. CASE k = "wifi"
  <2>1. t \in TeleWifiSample
    BY <1>1 DEF TeleSampleType
  <2> QED
    BY <2>1 DEF TeleWifiSample
<1>2. CASE k # "wifi"
  <2>1. t \in TeleRateSample
    BY <1>2 DEF TeleSampleType, TeleRate
  <2> QED
    BY <2>1 DEF TeleRateSample
<1> QED
  BY <1>1, <1>2

\* The counter stands still.
LEMMA TeleSameRate ==
    ASSUME NEW k \in TeleRate, TeleRateKept(k), UNCHANGED events, TelePassed(k)' = TelePassed(k),
           \A source : TeleNow(k, source)' = TeleNow(k, source),
           \A t : TeleKept(k, t)' => TeleKept(k, t)
    PROVE  TeleRateKept(k)'
<1>1. TeleSampleType(k)' = TeleSampleType(k)
  BY DEF TeleSampleType, TeleCpuSample, TeleWifiSample, TeleRateSample
<1> QED
  BY <1>1 DEF TeleRateKept, TeleGains, TeleSource

\* The counter is read.
LEMMA TeleReadRate ==
    ASSUME T!TelemetryConstants, TeleType,
           NEW k \in TeleRate, TeleRateKept(k), UNCHANGED events, TelePassed(k)' = TelePassed(k),
           \A source : TeleNow(k, source)' = TeleNow(k, source),
           NEW s, s.at = events, s.passed = TelePassed(k), s.value = TeleNow(k, TeleSource(k, s)),
           \A t : TeleKept(k, t)' => TeleKept(k, t) \/ t = s
    PROVE  TeleRateKept(k)'
<1>1. TeleSampleType(k)' = TeleSampleType(k)
  BY DEF TeleSampleType, TeleCpuSample, TeleWifiSample, TeleRateSample
<1>2. /\ events \in Nat /\ MaxEvents \in Nat /\ TelePassed(k) \in 0 .. events
      /\ TeleNow(k, TeleSource(k, s)) \in 0 .. events
  BY TeleCountFacts
<1>3. \A t \in TeleSampleType(k) : t.value \in Nat /\ t.passed \in Nat /\ t.at \in Nat
  BY <1>2, TeleSampleFacts
<1>4. ASSUME NEW t \in TeleSampleType(k), TeleKept(k, t)'
      PROVE  /\ t.at <= events
             /\ TeleGains(t, TeleNow(k, TeleSource(k, t)), TelePassed(k))
             /\ t.at = events => t.value = TeleNow(k, TeleSource(k, t)) /\ t.passed = TelePassed(k)
  <2>1. CASE TeleKept(k, t)
    BY <2>1 DEF TeleRateKept
  <2>2. CASE t = s
    BY <1>2, <2>2 DEF TeleGains
  <2> QED
    BY <1>4, <2>1, <2>2
<1>5. ASSUME NEW t \in TeleSampleType(k), NEW u \in TeleSampleType(k), TeleKept(k, t)', TeleKept(k, u)',
             t.at <= u.at, TeleSource(k, t) = TeleSource(k, u)
      PROVE  TeleGains(t, u.value, u.passed)
  <2>1. CASE u = s
    BY <1>4, <1>5, <2>1
  <2>2. CASE t = s
    <3>1. u.at = events
      BY <1>2, <1>3, <1>4, <1>5, <2>2
    <3>2. u.value = s.value /\ u.passed = s.passed
      BY <1>4, <1>5, <2>2, <3>1
    <3> QED
      BY <1>3, <2>2, <3>2 DEF TeleGains
  <2>3. CASE TeleKept(k, t) /\ TeleKept(k, u)
    BY <1>5, <2>3 DEF TeleRateKept
  <2> QED
    BY <1>5, <2>1, <2>2, <2>3
<1> QED
  BY <1>1, <1>4, <1>5 DEF TeleRateKept, TeleGains, TeleSource

\* Something happens: the counter gains no more than what passes.
LEMMA TeleEventRate ==
    ASSUME T!TelemetryConstants, TeleType, TeleType', UNCHANGED <<prev, reading>>,
           NEW k \in TeleRate, TeleRateKept(k), events' = events + 1, TelePassed(k) <= TelePassed(k)',
           \A source : TeleNow(k, source)' - TeleNow(k, source) <= TelePassed(k)' - TelePassed(k)
    PROVE  TeleRateKept(k)'
<1>1. TeleSampleType(k)' = TeleSampleType(k)
  BY DEF TeleSampleType, TeleCpuSample, TeleWifiSample, TeleRateSample
<1>2. /\ events \in Nat /\ MaxEvents \in Nat /\ TelePassed(k) \in Nat /\ TelePassed(k)' \in Nat
      /\ \A source : TeleNow(k, source) \in Nat /\ TeleNow(k, source)' \in Nat
  <2>1. events \in Nat /\ MaxEvents \in Nat /\ TelePassed(k) \in 0 .. events
        /\ \A source : TeleNow(k, source) \in 0 .. events
    BY TeleCountFacts
  <2>2. TelePassed(k)' \in 0 .. events' /\ \A source : TeleNow(k, source)' \in 0 .. events'
    <3>1. /\ energy'.counter \in 0 .. events' /\ energy'.spent \in 0 .. events'
          /\ wifi'.iw \in 0 .. events' /\ wifi'.sysfs \in 0 .. events'
          /\ disk'.sectors \in 0 .. events' /\ disk'.moved \in 0 .. events'
          /\ 0 \in 0 .. events'
      BY <2>1 DEF TeleType
    <3> QED
      BY <3>1 DEF TelePassed, TeleNow, TeleRate
  <2> QED
    BY <2>1, <2>2
<1>3. \A t \in TeleSampleType(k) : t.value \in Nat /\ t.passed \in Nat /\ t.at \in Nat
  BY <1>2, TeleSampleFacts
<1>4. \A t : TeleKept(k, t)' <=> TeleKept(k, t)
  BY TeleKeptSame
<1>5. ASSUME NEW t \in TeleSampleType(k), TeleKept(k, t)
      PROVE  /\ t.at <= events' /\ t.at # events'
             /\ TeleGains(t, TeleNow(k, TeleSource(k, t))', TelePassed(k)')
  <2>1. t.at <= events /\ TeleGains(t, TeleNow(k, TeleSource(k, t)), TelePassed(k))
    BY <1>5 DEF TeleRateKept
  <2> DEFINE source == TeleSource(k, t)
  <2>2. TeleNow(k, source)' - TeleNow(k, source) <= TelePassed(k)' - TelePassed(k)
    OBVIOUS
  <2> HIDE DEF source
  <2>3. /\ TeleNow(k, source) \in Nat /\ TeleNow(k, source)' \in Nat
        /\ TeleGains(t, TeleNow(k, source), TelePassed(k))
    BY <1>2, <2>1 DEF source
  <2>4. TeleGains(t, TeleNow(k, source)', TelePassed(k)')
    BY <1>2, <1>3, <2>2, <2>3 DEF TeleGains
  <2> QED
    BY <1>2, <1>3, <2>1, <2>4 DEF source
<1> QED
  BY <1>1, <1>4, <1>5 DEF TeleRateKept, TeleGains, TeleSource

\* u64::saturating_sub
LEMMA TeleSaturatingFacts ==
    \A x, y \in Nat : /\ T!Saturating(x, y) \in 0 .. x
                      /\ (x >= y => T!Saturating(x, y) = x - y)
                      /\ (x <= y => T!Saturating(x, y) = 0)
BY DEF T!Saturating

\* The rate between two readings that were stored in the order they were taken.
LEMMA TeleRateFacts ==
    ASSUME T!TelemetryConstants, TeleType, NEW k \in TeleRate, TeleRateKept(k),
           NEW s \in TeleSampleType(k), NEW t \in TeleSampleType(k), TeleKept(k, s), TeleKept(k, t),
           s.at <= t.at, TeleSource(k, s) = TeleSource(k, t)
    PROVE  T!Saturating(t.value, s.value) <= T!Saturating(t.passed, s.passed)
<1>1. s.passed <= t.passed /\ t.value - s.value <= t.passed - s.passed
  BY DEF TeleRateKept, TeleGains
<1>2. /\ s.value \in Nat /\ s.passed \in Nat /\ t.value \in Nat /\ t.passed \in Nat
  BY TeleSampleFacts, TeleCountFacts
<1> QED
  BY <1>1, <1>2 DEF T!Saturating

LEMMA TeleInit ==
    ASSUME T!TelemetryConstants, T!Init
    PROVE  TeleInv
<1>1. /\ present \subseteq T!Counters /\ events = 0 /\ MaxEvents \in Nat
      /\ cpu = [user |-> 0, irq |-> 0, idle |-> 0]
      /\ energy = [counter |-> 0, spent |-> 0]
      /\ disk = [sectors |-> 0, moved |-> 0]
      /\ prev = [cpu |-> None, rapl |-> None, wifi |-> None, disk |-> None]
      /\ reading = [a \in Refreshers |-> T!Idle]
      /\ shown = [cpu |-> [work |-> 0, total |-> 0], rapl |-> T!NoRate, wifi |-> T!NoRate,
                  disk |-> T!NoRate]
  BY DEF T!Init, T!TelemetryConstants
<1>2. PICK b \in BOOLEAN : wifi = [iw |-> 0, sysfs |-> 0, associated |-> b]
  BY DEF T!Init
<1>3. T!Idle.pc = "idle" /\ T!NoRate.amount = None /\ Wrap \in Nat \ {0}
  BY DEF T!Idle, T!NoRate, T!TelemetryConstants
<1>4. /\ \A k \in T!Counters : prev[k] = None
      /\ \A a \in Refreshers : reading[a].pc = "idle"
      /\ shown["cpu"] = [work |-> 0, total |-> 0]
      /\ \A k \in T!Counters \ {"cpu"} : shown[k] = T!NoRate
  BY <1>1, <1>3 DEF T!Counters
<1>5. \A k \in T!Counters : \A s : ~TeleKept(k, s)
  BY <1>4 DEF TeleKept, T!At, T!Counters
<1>6. TeleType
  <2>1. cpu \in [user : 0 .. events, irq : 0 .. events, idle : 0 .. events]
    BY <1>1
  <2>2. energy \in [counter : 0 .. events, spent : 0 .. events] /\ energy.counter < Wrap
    BY <1>1, <1>3
  <2>3. wifi \in [iw : 0 .. events, sysfs : 0 .. events, associated : BOOLEAN]
    BY <1>1, <1>2
  <2>4. disk \in [sectors : 0 .. events, moved : 0 .. events]
    BY <1>1
  <2>5. DOMAIN prev = T!Counters /\ DOMAIN shown = T!Counters /\ DOMAIN reading = Refreshers
    BY <1>1 DEF T!Counters
  <2>6. \A a \in Refreshers :
          /\ reading[a].pc \in {"idle"} \cup T!Counters
          /\ \A k \in T!Counters : T!At(a, k) => reading[a].sample \in TeleSampleType(k)
    BY <1>4 DEF T!At, T!Counters
  <2> QED
    BY <1>1, <1>3, <1>4, <2>1, <2>2, <2>3, <2>4, <2>5, <2>6 DEF TeleType
<1>7. TeleCpuKept
  BY <1>5 DEF TeleCpuKept, T!Counters
<1>8. \A k \in TeleRate : TeleRateKept(k)
  BY <1>5 DEF TeleRateKept, TeleRate, T!Counters
<1>9. T!RateIsTraffic
  <2>1. shown.cpu.work = 0 /\ shown.cpu.total = 0
        /\ shown.rapl.amount = None /\ shown.wifi.amount = None /\ shown.disk.amount = None
    BY <1>3, <1>4 DEF T!Counters
  <2> QED
    BY <2>1 DEF T!RateIsTraffic
<1> QED
  BY <1>6, <1>7, <1>8, <1>9 DEF TeleInv

\* Nothing moves but the readings.
LEMMA TeleReadType ==
    ASSUME T!TelemetryConstants, TeleType, NEW a \in Refreshers, NEW k \in T!Counters,
           NEW s \in TeleSampleType(k), T!Go(a, k, s),
           UNCHANGED <<present, events, cpu, energy, wifi, disk, prev, shown>>
    PROVE  TeleType'
<1>1. /\ DOMAIN reading' = Refreshers
      /\ \A b \in Refreshers :
            /\ reading'[b].pc \in {"idle"} \cup T!Counters
            /\ \A j \in T!Counters : T!At(b, j)' => reading'[b].sample \in TeleSampleType(j)
  BY TeleGoFacts
<1> QED
  BY <1>1 DEF TeleType

LEMMA TeleStandStill ==
    ASSUME UNCHANGED <<energy, wifi, disk>>
    PROVE  /\ \A k : TelePassed(k)' = TelePassed(k)
           /\ \A k, source : TeleNow(k, source)' = TeleNow(k, source)
BY DEF TelePassed, TeleNow

LEMMA TeleReadStep ==
    ASSUME TeleInv, NEW a \in Refreshers,
           T!ReadCpu(a) \/ T!ReadRapl(a) \/ T!ReadWifi(a) \/ T!ReadStorage(a)
    PROVE  TeleInv'
<1>1. /\ T!TelemetryConstants /\ TeleType /\ TeleCpuKept /\ \A k \in TeleRate : TeleRateKept(k)
      /\ T!RateIsTraffic
  BY DEF TeleInv
<1>2. UNCHANGED <<present, events, cpu, energy, wifi, disk, prev, shown>>
  BY DEF T!ReadCpu, T!ReadRapl, T!ReadWifi, T!ReadStorage
<1>3. /\ MaxEvents \in Nat /\ events \in Nat /\ events <= MaxEvents /\ cpu \in TeleCpuSample
      /\ \A k \in TeleRate : TelePassed(k) \in 0 .. events
      /\ \A k \in TeleRate : \A source : TeleNow(k, source) \in 0 .. events
      /\ TeleRate \subseteq T!Counters /\ "cpu" \in T!Counters
  BY <1>1, TeleCountFacts
<1>4. /\ \A k : TelePassed(k)' = TelePassed(k)
      /\ \A k, source : TeleNow(k, source)' = TeleNow(k, source)
  BY <1>2, TeleStandStill
<1>5. T!RateIsTraffic'
  BY <1>1, <1>2 DEF T!RateIsTraffic
<1>6. CASE T!ReadCpu(a)
  <2>1. T!Go(a, "cpu", cpu) /\ cpu \in TeleSampleType("cpu")
    BY <1>3, <1>6 DEF T!ReadCpu, TeleSampleType
  <2>2. TeleType'
    BY <1>1, <1>2, <1>3, <2>1, TeleReadType
  <2>3. \A j \in T!Counters : \A t : TeleKept(j, t)' => TeleKept(j, t) \/ (j = "cpu" /\ t = cpu)
    BY <1>1, <1>2, <1>3, <2>1, TeleKeptRead
  <2>4. \A k \in TeleRate : TeleRateKept(k)'
    <3>1. \A k \in TeleRate : k \in T!Counters /\ k # "cpu"
      BY DEF TeleRate, T!Counters
    <3> QED
      BY <1>1, <1>2, <1>4, <2>3, <3>1, TeleSameRate
  <2>5. TeleCpuKept'
    <3>1. TeleBefore(cpu, cpu)
      BY <1>3 DEF TeleBefore, TeleCpuSample
    <3>2. TeleCpuSample' = TeleCpuSample
      BY DEF TeleCpuSample
    <3> QED
      BY <1>1, <1>2, <1>3, <2>3, <3>1, <3>2 DEF TeleCpuKept, TeleBefore
  <2> QED
    BY <1>1, <1>5, <2>2, <2>4, <2>5 DEF TeleInv
<1>7. ASSUME NEW k \in TeleRate, NEW s \in TeleSampleType(k), T!Go(a, k, s), s.at = events,
             s.passed = TelePassed(k), s.value = TeleNow(k, TeleSource(k, s))
      PROVE  TeleInv'
  <2>1. TeleType'
    BY <1>1, <1>2, <1>3, <1>7, TeleReadType
  <2>2. \A j \in T!Counters : \A t : TeleKept(j, t)' => TeleKept(j, t) \/ (j = k /\ t = s)
    BY <1>1, <1>2, <1>3, <1>7, TeleKeptRead
  <2>3. TeleRateKept(k)'
    BY <1>1, <1>2, <1>3, <1>4, <1>7, <2>2, TeleReadRate
  <2>4. \A j \in TeleRate \ {k} : TeleRateKept(j)'
    BY <1>1, <1>2, <1>3, <1>4, <2>2, TeleSameRate
  <2>5. TeleCpuKept'
    <3>1. TeleCpuSample' = TeleCpuSample /\ k # "cpu"
      BY DEF TeleCpuSample, TeleRate
    <3> QED
      BY <1>1, <1>2, <1>3, <2>2, <3>1 DEF TeleCpuKept, TeleBefore
  <2> QED
    BY <1>1, <1>5, <2>1, <2>3, <2>4, <2>5 DEF TeleInv
<1>8. CASE T!ReadRapl(a)
  <2> DEFINE s == [value |-> energy.counter, passed |-> energy.spent, at |-> events]
  <2>1. T!Go(a, "rapl", s)
    BY <1>8 DEF T!ReadRapl
  <2>2. /\ s.at = events /\ s.passed = TelePassed("rapl") /\ s.value = TeleNow("rapl", TeleSource("rapl", s))
        /\ "rapl" \in TeleRate
    BY DEF TelePassed, TeleNow, TeleRate
  <2>3. s \in TeleSampleType("rapl")
    BY <1>3, <2>2 DEF TeleSampleType, TeleRateSample
  <2> HIDE DEF s
  <2> QED
    BY <1>7, <2>1, <2>2, <2>3
<1>9. CASE T!ReadStorage(a)
  <2> DEFINE s == [value |-> disk.sectors, passed |-> disk.moved, at |-> events]
  <2>1. T!Go(a, "disk", s)
    BY <1>9 DEF T!ReadStorage
  <2>2. /\ s.at = events /\ s.passed = TelePassed("disk") /\ s.value = TeleNow("disk", TeleSource("disk", s))
        /\ "disk" \in TeleRate
    BY DEF TelePassed, TeleNow, TeleRate
  <2>3. s \in TeleSampleType("disk")
    BY <1>3, <2>2 DEF TeleSampleType, TeleRateSample
  <2> HIDE DEF s
  <2> QED
    BY <1>7, <2>1, <2>2, <2>3
<1>10. CASE T!ReadWifi(a)
  <2>1. PICK source \in T!WifiSources :
           T!Go(a, "wifi",
              [value |-> CASE source = "iw" -> wifi.iw
                           [] source = "sysfs" -> wifi.sysfs
                           [] OTHER -> 0,
               source |-> source, passed |-> wifi.sysfs, at |-> events])
    BY <1>10 DEF T!ReadWifi
  <2> DEFINE value == CASE source = "iw" -> wifi.iw
                        [] source = "sysfs" -> wifi.sysfs
                        [] OTHER -> 0
             s == [value |-> value, source |-> source, passed |-> wifi.sysfs, at |-> events]
  <2>2. source \in {"iw", "sysfs", "none"}
    BY DEF T!WifiSources
  <2>3. value = TeleNow("wifi", source) /\ wifi.sysfs = TelePassed("wifi") /\ "wifi" \in TeleRate
    BY <2>2 DEF TeleNow, TelePassed, TeleRate
  <2> HIDE DEF value
  <2>4. /\ s.at = events /\ s.passed = TelePassed("wifi") /\ s.value = value /\ s.source = source
    BY <2>3
  <2>5. s.value = TeleNow("wifi", TeleSource("wifi", s))
    BY <2>3, <2>4 DEF TeleSource
  <2>6. s \in TeleSampleType("wifi")
    BY <1>3, <2>2, <2>3 DEF TeleSampleType, TeleWifiSample
  <2>7. T!Go(a, "wifi", s)
    BY <2>1 DEF value
  <2> HIDE DEF s
  <2> QED
    BY <1>7, <2>3, <2>4, <2>5, <2>6, <2>7
<1> QED
  BY <1>6, <1>8, <1>9, <1>10

\* A rate that RateIsTraffic accepts
TeleHonest(r) == r.amount # None => r.amount <= r.passed \/ r.mixed

LEMMA TeleStoreRate ==
    ASSUME TeleInv, NEW a \in Refreshers, NEW k \in TeleRate, T!At(a, k), T!Go(a, "idle", None),
           UNCHANGED prev \/ prev' = [prev EXCEPT ![k] = reading[a].sample],
           NEW r, r.amount = None \/ r.amount \in 0 .. MaxEvents, TeleHonest(r),
           shown' = [shown EXCEPT ![k] = r],
           UNCHANGED <<present, events, cpu, energy, wifi, disk>>
    PROVE  TeleInv'
<1>1. /\ T!TelemetryConstants /\ TeleType /\ TeleCpuKept /\ \A j \in TeleRate : TeleRateKept(j)
      /\ T!RateIsTraffic
  BY DEF TeleInv
<1>2. k \in T!Counters /\ k # "cpu" /\ TeleRate \subseteq T!Counters /\ "cpu" \in T!Counters
  BY DEF TeleRate, T!Counters
<1>3. /\ \A j \in T!Counters : \A t : TeleKept(j, t)' => TeleKept(j, t)
      /\ DOMAIN prev' = T!Counters
      /\ \A j \in T!Counters : prev'[j] = None \/ prev'[j] \in TeleSampleType(j)
  BY <1>1, <1>2, TeleKeptStore
<1>4. /\ DOMAIN reading' = Refreshers
      /\ \A b \in Refreshers :
            /\ reading'[b].pc \in {"idle"} \cup T!Counters
            /\ \A j \in T!Counters : T!At(b, j)' => reading'[b].sample \in TeleSampleType(j)
  <2>1. "idle" \notin T!Counters
    BY DEF T!Counters
  <2> QED
    BY <1>1, <2>1, TeleGoFacts
<1>5. /\ DOMAIN shown' = T!Counters /\ shown'[k] = r
      /\ \A j \in T!Counters \ {k} : shown'[j] = shown[j]
  BY <1>1, <1>2 DEF TeleType
<1>6. TeleType'
  BY <1>1, <1>2, <1>3, <1>4, <1>5 DEF TeleType
<1>7. \A j \in TeleRate : TeleRateKept(j)'
  BY <1>1, <1>2, <1>3, TeleStandStill, TeleSameRate
<1>8. TeleCpuKept'
  BY <1>1, <1>2, <1>3 DEF TeleCpuKept, TeleBefore, TeleCpuSample
<1>9. T!RateIsTraffic'
  <2>1. shown'.cpu = shown.cpu
    BY <1>2, <1>5
  <2>2. \A j \in TeleRate : TeleHonest(shown[j])
    BY <1>1 DEF T!RateIsTraffic, TeleHonest, TeleRate
  <2>3. \A j \in TeleRate : TeleHonest(shown'[j])
    BY <1>2, <1>5, <2>2
  <2> QED
    BY <1>1, <2>1, <2>3 DEF T!RateIsTraffic, TeleHonest, TeleRate
<1> QED
  BY <1>1, <1>6, <1>7, <1>8, <1>9 DEF TeleInv

\* A load is a share of the time, whichever of the two readings is the later one.
LEMMA TeleLoadFacts ==
    ASSUME MaxEvents \in Nat, NEW s \in TeleCpuSample, NEW t \in TeleCpuSample,
           TeleBefore(s, t) \/ TeleBefore(t, s)
    PROVE  T!Load(s, t).work <= T!Load(s, t).total
<1>1. /\ s.user \in Nat /\ s.irq \in Nat /\ s.idle \in Nat
      /\ t.user \in Nat /\ t.irq \in Nat /\ t.idle \in Nat
  BY DEF TeleCpuSample
<1> DEFINE total == T!Saturating(T!Total(t), T!Total(s))
<1>2. /\ T!Load(s, t).total = total
      /\ T!Load(s, t).work = IF total > 0 THEN T!Saturating(T!Work(t), T!Work(s)) ELSE 0
  BY DEF T!Load
<1>3. total > 0 => T!Saturating(T!Work(t), T!Work(s)) <= total
  BY <1>1 DEF T!Saturating, T!Total, T!Work, TeleBefore
<1>4. total \in Nat
  BY <1>1 DEF T!Saturating, T!Total
<1> HIDE DEF total
<1> QED
  BY <1>2, <1>3, <1>4

LEMMA TeleStoreCpuStep ==
    ASSUME TeleInv, NEW a \in Refreshers, T!StoreCpu(a)
    PROVE  TeleInv'
<1> DEFINE s == reading[a].sample
           load == IF prev.cpu = None THEN [work |-> 0, total |-> 0] ELSE T!Load(prev.cpu, s)
<1>1. /\ T!TelemetryConstants /\ TeleType /\ TeleCpuKept /\ \A j \in TeleRate : TeleRateKept(j)
      /\ T!RateIsTraffic
  BY DEF TeleInv
<1>2. /\ T!At(a, "cpu") /\ T!Go(a, "idle", None) /\ prev' = [prev EXCEPT !["cpu"] = s]
      /\ shown' = [shown EXCEPT !["cpu"] = load]
      /\ UNCHANGED <<present, events, cpu, energy, wifi, disk>>
  BY DEF T!StoreCpu
<1>3. "cpu" \in T!Counters /\ TeleRate = T!Counters \ {"cpu"}
  BY DEF T!Counters, TeleRate
<1>4. /\ \A j \in T!Counters : \A t : TeleKept(j, t)' => TeleKept(j, t)
      /\ DOMAIN prev' = T!Counters
      /\ \A j \in T!Counters : prev'[j] = None \/ prev'[j] \in TeleSampleType(j)
      /\ s \in TeleSampleType("cpu") /\ TeleKept("cpu", s)
  BY <1>1, <1>2, <1>3, TeleKeptStore
<1>5. /\ DOMAIN reading' = Refreshers
      /\ \A b \in Refreshers :
            /\ reading'[b].pc \in {"idle"} \cup T!Counters
            /\ \A j \in T!Counters : T!At(b, j)' => reading'[b].sample \in TeleSampleType(j)
  <2>1. "idle" \notin T!Counters
    BY DEF T!Counters
  <2> QED
    BY <1>1, <1>2, <2>1, TeleGoFacts
<1>6. load.work <= load.total
  <2>1. CASE prev.cpu = None
    BY <2>1
  <2>2. CASE prev.cpu # None
    <3>1. prev.cpu \in TeleCpuSample /\ TeleKept("cpu", prev.cpu)
      BY <1>1, <1>3, <2>2 DEF TeleType, TeleKept, TeleSampleType
    <3>2. s \in TeleCpuSample
      BY <1>4 DEF TeleSampleType
    <3>3. TeleBefore(prev.cpu, s) \/ TeleBefore(s, prev.cpu)
      BY <1>1, <1>4, <3>1, <3>2 DEF TeleCpuKept
    <3>4. MaxEvents \in Nat
      BY <1>1 DEF T!TelemetryConstants
    <3> DEFINE p == prev.cpu
    <3>5. T!Load(p, s).work <= T!Load(p, s).total
      <4>1. p \in TeleCpuSample /\ s \in TeleCpuSample /\ (TeleBefore(p, s) \/ TeleBefore(s, p))
        BY <3>1, <3>2, <3>3
      <4> HIDE DEF p, s
      <4> QED
        BY <3>4, <4>1, TeleLoadFacts
    <3> QED
      BY <2>2, <3>5
  <2> QED
    BY <2>1, <2>2
<1> HIDE DEF load
<1>7. /\ DOMAIN shown' = T!Counters /\ shown'["cpu"] = load
      /\ \A j \in TeleRate : shown'[j] = shown[j]
  BY <1>1, <1>2, <1>3 DEF TeleType
<1>8. TeleType'
  BY <1>1, <1>2, <1>3, <1>4, <1>5, <1>7 DEF TeleType
<1>9. \A j \in TeleRate : TeleRateKept(j)'
  BY <1>1, <1>2, <1>3, <1>4, TeleStandStill, TeleSameRate
<1>10. TeleCpuKept'
  BY <1>1, <1>2, <1>3, <1>4 DEF TeleCpuKept, TeleBefore, TeleCpuSample
<1>11. T!RateIsTraffic'
  BY <1>1, <1>6, <1>7 DEF T!RateIsTraffic, TeleRate
<1> QED
  BY <1>1, <1>8, <1>9, <1>10, <1>11 DEF TeleInv

\* The rate of a counter between the reading kept and the one of refresher a
LEMMA TeleStoredFacts ==
    ASSUME TeleInv, NEW a \in Refreshers, NEW k \in TeleRate, T!At(a, k), prev[k] # None
    PROVE  LET s == reading[a].sample
               p == prev[k]
           IN  /\ s.at \in Nat /\ p.at \in Nat
               /\ T!Saturating(s.value, p.value) \in 0 .. MaxEvents
               /\ p.at <= s.at /\ TeleSource(k, p) = TeleSource(k, s) =>
                     T!Saturating(s.value, p.value) <= T!Saturating(s.passed, p.passed)
<1> DEFINE s == reading[a].sample
           p == prev[k]
<1>1. /\ T!TelemetryConstants /\ TeleType /\ TeleRateKept(k) /\ k \in T!Counters /\ MaxEvents \in Nat
  BY TeleCountFacts DEF TeleInv, TeleRate, T!Counters, T!TelemetryConstants
<1>2. s \in TeleSampleType(k) /\ p \in TeleSampleType(k) /\ TeleKept(k, s) /\ TeleKept(k, p)
  BY <1>1 DEF TeleType, TeleKept
<1> HIDE DEF s, p
<1>3. /\ s.value \in Nat /\ p.value \in Nat /\ s.at \in Nat /\ p.at \in Nat
  BY <1>1, <1>2, TeleSampleFacts
<1>4. s.value <= MaxEvents
  <2>1. CASE k = "wifi"
    BY <1>1, <1>2, <2>1 DEF TeleSampleType, TeleWifiSample
  <2>2. CASE k # "wifi"
    BY <1>1, <1>2, <2>2 DEF TeleSampleType, TeleRateSample, TeleRate
  <2> QED
    BY <2>1, <2>2
<1>5. T!Saturating(s.value, p.value) \in 0 .. MaxEvents
  BY <1>1, <1>3, <1>4 DEF T!Saturating
<1>6. p.at <= s.at /\ TeleSource(k, p) = TeleSource(k, s) =>
         T!Saturating(s.value, p.value) <= T!Saturating(s.passed, p.passed)
  BY <1>1, <1>2, TeleRateFacts
<1> QED
  BY <1>3, <1>5, <1>6 DEF s, p

LEMMA TeleStoreRateStep ==
    ASSUME TeleInv, NEW a \in Refreshers, T!StoreRapl(a) \/ T!StoreWifi(a) \/ T!StoreStorage(a)
    PROVE  TeleInv'
<1>1. MaxEvents \in Nat /\ T!NoRate.amount = None
  BY DEF TeleInv, T!TelemetryConstants, T!NoRate
<1>2. CASE T!StoreRapl(a)
  <2> DEFINE s == reading[a].sample
             p == prev["rapl"]
             zero == [T!NoRate EXCEPT !.amount = 0]
             rate == [amount |-> T!EnergyDiff(s.value, p.value),
                      passed |-> T!Saturating(s.passed, p.passed), mixed |-> FALSE]
  <2>1. /\ T!At(a, "rapl") /\ T!Go(a, "idle", None) /\ "rapl" \in TeleRate
        /\ UNCHANGED <<present, events, cpu, energy, wifi, disk>>
    BY <1>2 DEF T!StoreRapl, TeleRate
  <2>2. \/ UNCHANGED prev /\ shown' = [shown EXCEPT !["rapl"] = T!NoRate]
        \/ /\ prev' = [prev EXCEPT !["rapl"] = s]
           /\ \/ p = None /\ shown' = [shown EXCEPT !["rapl"] = zero]
              \/ p # None /\ s.at >= p.at /\ shown' = [shown EXCEPT !["rapl"] = rate]
    BY <1>2 DEF T!StoreRapl
  <2>3. zero.amount = 0 /\ zero.passed = 0
    BY DEF T!NoRate
  <2>4. p # None /\ s.at >= p.at => rate.amount \in 0 .. MaxEvents /\ TeleHonest(rate)
    <3> SUFFICES ASSUME p # None, s.at >= p.at
                 PROVE  rate.amount \in 0 .. MaxEvents /\ TeleHonest(rate)
      OBVIOUS
    <3>1. T!Saturating(s.value, p.value) \in 0 .. MaxEvents /\ p.at <= s.at
      BY <2>1, TeleStoredFacts
    <3>2. T!Saturating(s.value, p.value) <= T!Saturating(s.passed, p.passed)
      BY <2>1, <3>1, TeleStoredFacts DEF TeleSource
    <3>3. /\ rate.amount = T!Saturating(s.value, p.value)
          /\ rate.passed = T!Saturating(s.passed, p.passed)
      BY DEF T!EnergyDiff
    <3> HIDE DEF rate
    <3> QED
      BY <3>1, <3>2, <3>3 DEF TeleHonest
  <2>5. TeleHonest(T!NoRate) /\ TeleHonest(zero) /\ zero.amount \in 0 .. MaxEvents
    BY <1>1, <2>3 DEF TeleHonest
  <2> HIDE DEF rate, zero
  <2> QED
    BY <1>1, <2>1, <2>2, <2>4, <2>5, TeleStoreRate
<1>3. CASE T!StoreWifi(a)
  <2> DEFINE s == reading[a].sample
             p == prev["wifi"]
             mix == s.source # p.source \/ s.at < p.at
             rate == [amount |-> T!ByteDiff(s.value, p.value),
                      passed |-> T!Saturating(s.passed, p.passed), mixed |-> mix]
  <2>1. /\ T!At(a, "wifi") /\ T!Go(a, "idle", None) /\ "wifi" \in TeleRate
        /\ UNCHANGED <<present, events, cpu, energy, wifi, disk>>
        /\ prev' = [prev EXCEPT !["wifi"] = s]
        /\ shown' = [shown EXCEPT !["wifi"] = IF p = None THEN T!NoRate ELSE rate]
    BY <1>3 DEF T!StoreWifi, TeleRate
  <2>2. p # None => rate.amount \in 0 .. MaxEvents /\ TeleHonest(rate)
    <3> SUFFICES ASSUME p # None PROVE rate.amount \in 0 .. MaxEvents /\ TeleHonest(rate)
      OBVIOUS
    <3>1. T!Saturating(s.value, p.value) \in 0 .. MaxEvents /\ s.at \in Nat /\ p.at \in Nat
      BY <2>1, TeleStoredFacts
    <3>2. ~mix => T!Saturating(s.value, p.value) <= T!Saturating(s.passed, p.passed)
      <4>1. ~mix => p.at <= s.at /\ TeleSource("wifi", p) = TeleSource("wifi", s)
        BY <3>1 DEF TeleSource
      <4> QED
        BY <2>1, <4>1, TeleStoredFacts
    <3>3. /\ rate.amount = T!Saturating(s.value, p.value)
          /\ rate.passed = T!Saturating(s.passed, p.passed) /\ rate.mixed = mix
      BY DEF T!ByteDiff
    <3> HIDE DEF rate, mix
    <3> QED
      BY <3>1, <3>2, <3>3 DEF TeleHonest
  <2>3. TeleHonest(T!NoRate)
    BY <1>1 DEF TeleHonest
  <2> HIDE DEF rate
  <2> QED
    BY <1>1, <2>1, <2>2, <2>3, TeleStoreRate
<1>4. CASE T!StoreStorage(a)
  <2> DEFINE s == reading[a].sample
             p == prev["disk"]
             mix == s.at < p.at
             rate == [amount |-> T!Saturating(s.value, p.value),
                      passed |-> T!Saturating(s.passed, p.passed), mixed |-> mix]
  <2>1. /\ T!At(a, "disk") /\ T!Go(a, "idle", None) /\ "disk" \in TeleRate
        /\ UNCHANGED <<present, events, cpu, energy, wifi, disk>>
        /\ prev' = [prev EXCEPT !["disk"] = s]
        /\ shown' = [shown EXCEPT !["disk"] = IF p = None THEN T!NoRate ELSE rate]
    BY <1>4 DEF T!StoreStorage, TeleRate
  <2>2. p # None => rate.amount \in 0 .. MaxEvents /\ TeleHonest(rate)
    <3> SUFFICES ASSUME p # None PROVE rate.amount \in 0 .. MaxEvents /\ TeleHonest(rate)
      OBVIOUS
    <3>1. T!Saturating(s.value, p.value) \in 0 .. MaxEvents /\ s.at \in Nat /\ p.at \in Nat
      BY <2>1, TeleStoredFacts
    <3>2. ~mix => T!Saturating(s.value, p.value) <= T!Saturating(s.passed, p.passed)
      <4>1. ~mix => p.at <= s.at /\ TeleSource("disk", p) = TeleSource("disk", s)
        BY <3>1 DEF TeleSource
      <4> QED
        BY <2>1, <4>1, TeleStoredFacts
    <3>3. /\ rate.amount = T!Saturating(s.value, p.value)
          /\ rate.passed = T!Saturating(s.passed, p.passed) /\ rate.mixed = mix
      OBVIOUS
    <3> HIDE DEF rate, mix
    <3> QED
      BY <3>1, <3>2, <3>3 DEF TeleHonest
  <2>3. TeleHonest(T!NoRate)
    BY <1>1 DEF TeleHonest
  <2> HIDE DEF rate
  <2> QED
    BY <1>1, <2>1, <2>2, <2>3, TeleStoreRate
<1> QED
  BY <1>2, <1>3, <1>4

\* Something happens on the machine.
LEMMA TeleEventStep ==
    ASSUME TeleInv, TeleType', UNCHANGED <<prev, reading, shown>>, events' = events + 1,
           TeleBefore(cpu, cpu'),
           \A k \in TeleRate : TelePassed(k) <= TelePassed(k)',
           \A k \in TeleRate : \A source : TeleNow(k, source)' - TeleNow(k, source) <= TelePassed(k)' - TelePassed(k)
    PROVE  TeleInv'
<1>1. /\ T!TelemetryConstants /\ TeleType /\ TeleCpuKept /\ \A j \in TeleRate : TeleRateKept(j)
      /\ T!RateIsTraffic
  BY DEF TeleInv
<1>2. \A k \in TeleRate : TeleRateKept(k)'
  BY <1>1, TeleEventRate
<1>3. TeleCpuKept'
  <2>1. \A k, t : TeleKept(k, t)' <=> TeleKept(k, t)
    BY TeleKeptSame
  <2>2. /\ cpu.user \in Nat /\ cpu.irq \in Nat /\ cpu.idle \in Nat
        /\ cpu'.user \in Nat /\ cpu'.irq \in Nat /\ cpu'.idle \in Nat
        /\ MaxEvents \in Nat
    <3>1. cpu \in TeleCpuSample /\ MaxEvents \in Nat /\ events \in Nat
      BY <1>1, TeleCountFacts
    <3>2. cpu' \in [user : 0 .. events', irq : 0 .. events', idle : 0 .. events']
      BY DEF TeleType
    <3> QED
      BY <3>1, <3>2 DEF TeleCpuSample
  <2>3. ASSUME NEW s \in TeleCpuSample, TeleBefore(s, cpu) PROVE TeleBefore(s, cpu')
    BY <2>2, <2>3 DEF TeleBefore, TeleCpuSample
  <2>4. /\ \A s \in TeleCpuSample : TeleKept("cpu", s)' => TeleBefore(s, cpu')
        /\ \A s, t \in TeleCpuSample :
              TeleKept("cpu", s)' /\ TeleKept("cpu", t)' => TeleBefore(s, t) \/ TeleBefore(t, s)
    BY <1>1, <2>1, <2>3 DEF TeleCpuKept
  <2>5. TeleCpuSample' = TeleCpuSample
    BY DEF TeleCpuSample
  <2> QED
    BY <2>4, <2>5 DEF TeleCpuKept, TeleBefore
<1>4. T!RateIsTraffic'
  BY <1>1 DEF T!RateIsTraffic
<1> QED
  BY <1>1, <1>2, <1>3, <1>4 DEF TeleInv

\* The types after an event, but for the counters.
LEMMA TeleEventType ==
    ASSUME T!TelemetryConstants, TeleType, UNCHANGED <<present, prev, reading, shown>>,
           events < MaxEvents, events' = events + 1,
           cpu' \in [user : 0 .. events', irq : 0 .. events', idle : 0 .. events'],
           energy' \in [counter : 0 .. events', spent : 0 .. events'], energy'.counter < Wrap,
           wifi' \in [iw : 0 .. events', sysfs : 0 .. events', associated : BOOLEAN],
           disk' \in [sectors : 0 .. events', moved : 0 .. events']
    PROVE  TeleType'
<1>1. events' \in 0 .. MaxEvents
  BY DEF T!TelemetryConstants, TeleType
<1> QED
  BY <1>1 DEF TeleType, T!At

\* Counters that nothing happened to
LEMMA TeleOldCounters ==
    ASSUME T!TelemetryConstants, TeleType, events' = events + 1
    PROVE  /\ UNCHANGED cpu =>
                 /\ cpu' \in [user : 0 .. events', irq : 0 .. events', idle : 0 .. events']
                 /\ TeleBefore(cpu, cpu')
           /\ UNCHANGED energy =>
                 /\ energy' \in [counter : 0 .. events', spent : 0 .. events']
                 /\ energy'.counter < Wrap
           /\ UNCHANGED wifi =>
                 wifi' \in [iw : 0 .. events', sysfs : 0 .. events', associated : BOOLEAN]
           /\ UNCHANGED disk => disk' \in [sectors : 0 .. events', moved : 0 .. events']
<1>1. events \in Nat /\ \A n \in 0 .. events : n \in 0 .. events' /\ n \in Nat
  BY DEF T!TelemetryConstants, TeleType
<1>2. ASSUME UNCHANGED cpu
      PROVE  /\ cpu' \in [user : 0 .. events', irq : 0 .. events', idle : 0 .. events']
             /\ TeleBefore(cpu, cpu')
  <2>1. cpu \in [user : 0 .. events, irq : 0 .. events, idle : 0 .. events]
    BY DEF TeleType
  <2> QED
    BY <1>1, <1>2, <2>1 DEF TeleBefore
<1>3. ASSUME UNCHANGED energy
      PROVE  energy' \in [counter : 0 .. events', spent : 0 .. events'] /\ energy'.counter < Wrap
  BY <1>1, <1>3 DEF TeleType
<1>4. ASSUME UNCHANGED wifi
      PROVE  wifi' \in [iw : 0 .. events', sysfs : 0 .. events', associated : BOOLEAN]
  BY <1>1, <1>4 DEF TeleType
<1>5. ASSUME UNCHANGED disk
      PROVE  disk' \in [sectors : 0 .. events', moved : 0 .. events']
  BY <1>1, <1>5 DEF TeleType
<1> QED
  BY <1>2, <1>3, <1>4, <1>5

\* The energy counter starts again at Wrap.
LEMMA TeleWrapFacts ==
    ASSUME NEW n \in Nat, NEW w \in Nat, w > 0
    PROVE  n % w \in 0 .. n /\ n % w < w
<1>1. n % w \in 0 .. (w - 1)
  OBVIOUS
<1>2. n % w <= n
  OBVIOUS
<1> QED
  BY <1>1, <1>2

\* The record of the link after a transfer, and after an association.
LEMMA TeleLinkMoves ==
    ASSUME NEW I, NEW J, NEW S, NEW w \in [iw : I, sysfs : I, associated : S],
           NEW x \in J, NEW y \in J, NEW new, new = [w EXCEPT !.iw = x, !.sysfs = y]
    PROVE  new \in [iw : J, sysfs : J, associated : S] /\ new.iw = x /\ new.sysfs = y
OBVIOUS

LEMMA TeleLinkStarts ==
    ASSUME NEW I, NEW J, NEW S, NEW w \in [iw : I, sysfs : I, associated : S],
           w.sysfs \in J, NEW x \in J, NEW c \in S, NEW new,
           new = [w EXCEPT !.iw = x, !.associated = c]
    PROVE  /\ new \in [iw : J, sysfs : J, associated : S]
           /\ new.iw = x /\ new.sysfs = w.sysfs
OBVIOUS

LEMMA TeleMachineStep ==
    ASSUME TeleInv, T!Tick \/ T!Spend \/ T!Transfer \/ T!Associate \/ T!MoveSectors \/ T!Replug
    PROVE  TeleInv'
<1>1. /\ T!TelemetryConstants /\ TeleType /\ events \in Nat /\ Wrap \in Nat \ {0}
      /\ UNCHANGED <<present, prev, reading, shown>>
      /\ events < MaxEvents /\ events' = events + 1
  BY TeleCountFacts DEF TeleInv, T!Tick, T!Spend, T!Transfer, T!Associate,
                        T!MoveSectors, T!Replug, T!Event,
     T!TelemetryConstants
<1>2. \A k \in TeleRate : TelePassed(k) \in Nat /\ \A source : TeleNow(k, source) \in Nat
  <2>1. /\ \A k \in TeleRate : TelePassed(k) \in 0 .. events
        /\ \A k \in TeleRate : \A source : TeleNow(k, source) \in 0 .. events
    BY <1>1, TeleCountFacts
  <2> QED
    BY <1>1, <2>1
<1>3. CASE T!Tick
  <2>1. PICK kind \in {"user", "irq", "idle"} : cpu' = [cpu EXCEPT ![kind] = @ + 1]
    BY <1>3 DEF T!Tick
  <2>2. UNCHANGED <<energy, wifi, disk>>
    BY <1>3 DEF T!Tick
  <2>3. cpu \in [user : 0 .. events, irq : 0 .. events, idle : 0 .. events]
    BY <1>1 DEF TeleType
  <2>4. /\ cpu' \in [user : 0 .. events', irq : 0 .. events', idle : 0 .. events']
        /\ TeleBefore(cpu, cpu')
    BY <1>1, <2>1, <2>3 DEF TeleBefore
  <2>5. TeleType'
    BY <1>1, <2>2, <2>4, TeleEventType, TeleOldCounters
  <2> QED
    BY <1>1, <1>2, <2>2, <2>4, <2>5, TeleStandStill, TeleEventStep
<1>4. CASE T!Spend
  <2> DEFINE e == energy
             next == (e.counter + 1) % Wrap
  <2>1. /\ energy' = [counter |-> next, spent |-> e.spent + 1]
        /\ UNCHANGED <<cpu, wifi, disk>>
    BY <1>4 DEF T!Spend
  <2>2. e.counter \in 0 .. events /\ e.spent \in 0 .. events
    BY <1>1 DEF TeleType
  <2>3. next \in 0 .. (e.counter + 1) /\ next < Wrap
    <3>1. e.counter + 1 \in Nat /\ Wrap \in Nat /\ Wrap > 0 /\ e.counter < Wrap
      BY <1>1, <2>2 DEF TeleType
    <3> QED
      BY <3>1, TeleWrapFacts
  <2> HIDE DEF next, e
  <2>4. energy'.counter = next /\ energy'.spent = e.spent + 1
    BY <2>1
  <2>5. /\ energy' \in [counter : 0 .. events', spent : 0 .. events'] /\ energy'.counter < Wrap
    BY <1>1, <2>1, <2>2, <2>3
  <2>6. TeleType'
    BY <1>1, <2>1, <2>5, TeleEventType, TeleOldCounters
  <2>7. /\ TelePassed("rapl")' = TelePassed("rapl") + 1
        /\ \A source : TeleNow("rapl", source)' - TeleNow("rapl", source) <= 1
    BY <2>2, <2>3, <2>4 DEF TelePassed, TeleNow, e
  <2>8. \A k \in TeleRate \ {"rapl"} :
          TelePassed(k)' = TelePassed(k) /\ \A source : TeleNow(k, source)' = TeleNow(k, source)
    BY <2>1 DEF TelePassed, TeleNow, TeleRate
  <2>9. /\ \A k \in TeleRate : TelePassed(k) <= TelePassed(k)'
        /\ \A k \in TeleRate : \A source : TeleNow(k, source)' - TeleNow(k, source) <= TelePassed(k)' - TelePassed(k)
    <3> SUFFICES ASSUME NEW k \in TeleRate
                 PROVE  /\ TelePassed(k) <= TelePassed(k)'
                        /\ \A source : TeleNow(k, source)' - TeleNow(k, source) <= TelePassed(k)' - TelePassed(k)
      OBVIOUS
    <3>1. CASE k = "rapl"
      BY <1>2, <2>7, <3>1
    <3>2. CASE k # "rapl"
      BY <1>2, <2>8, <3>2
    <3> QED
      BY <3>1, <3>2
  <2> QED
    BY <1>1, <2>1, <2>6, <2>9, TeleOldCounters, TeleEventStep
<1>5. CASE T!Transfer \/ T!Associate
  <2> DEFINE w == wifi
  <2>1. UNCHANGED <<cpu, energy, disk>>
    BY <1>5 DEF T!Transfer, T!Associate
  <2>2. w \in [iw : 0 .. events, sysfs : 0 .. events, associated : BOOLEAN]
    BY <1>1 DEF TeleType
  <2>3. \/ wifi' = [w EXCEPT !.iw = w.iw + 1, !.sysfs = w.sysfs + 1]
        \/ wifi' = [w EXCEPT !.iw = 0, !.associated = ~w.associated]
    BY <1>5 DEF T!Transfer, T!Associate
  <2> HIDE DEF w
  <2>4. /\ wifi' \in [iw : 0 .. events', sysfs : 0 .. events', associated : BOOLEAN]
        /\ w.iw \in Nat /\ w.sysfs \in Nat
        /\ \/ wifi'.iw = w.iw + 1 /\ wifi'.sysfs = w.sysfs + 1
           \/ wifi'.iw = 0 /\ wifi'.sysfs = w.sysfs
    <3>1. /\ \A n \in 0 .. events : n \in Nat /\ n \in 0 .. events' /\ n + 1 \in 0 .. events'
          /\ 0 \in 0 .. events
      BY <1>1
    <3>2. w.iw \in 0 .. events /\ w.sysfs \in 0 .. events
      BY <2>2
    <3>3. CASE wifi' = [w EXCEPT !.iw = w.iw + 1, !.sysfs = w.sysfs + 1]
      <4> DEFINE x == w.iw + 1
                 y == w.sysfs + 1
      <4>1. x \in 0 .. events' /\ y \in 0 .. events' /\ wifi' = [w EXCEPT !.iw = x, !.sysfs = y]
        BY <3>1, <3>2, <3>3
      <4> HIDE DEF x, y
      <4>2. /\ wifi' \in [iw : 0 .. events', sysfs : 0 .. events', associated : BOOLEAN]
            /\ wifi'.iw = x /\ wifi'.sysfs = y
        BY <2>2, <4>1, TeleLinkMoves
      <4> QED
        BY <3>1, <3>2, <4>2 DEF x, y
    <3>4. CASE wifi' = [w EXCEPT !.iw = 0, !.associated = ~w.associated]
      <4> DEFINE c == ~w.associated
      <4>1. c \in BOOLEAN /\ wifi' = [w EXCEPT !.iw = 0, !.associated = c]
        BY <3>4
      <4> HIDE DEF c
      <4>2. 0 \in 0 .. events' /\ w.sysfs \in 0 .. events'
        BY <3>1, <3>2
      <4>3. /\ wifi' \in [iw : 0 .. events', sysfs : 0 .. events', associated : BOOLEAN]
            /\ wifi'.iw = 0 /\ wifi'.sysfs = w.sysfs
        BY <2>2, <4>1, <4>2, TeleLinkStarts
      <4> QED
        BY <3>1, <3>2, <4>3
    <3> QED
      BY <2>3, <3>3, <3>4
  <2>5. TeleType'
    BY <1>1, <2>1, <2>4, TeleEventType, TeleOldCounters
  <2>6. /\ TelePassed("wifi") = w.sysfs /\ TelePassed("wifi")' = wifi'.sysfs
        /\ TeleNow("wifi", "iw") = w.iw /\ TeleNow("wifi", "iw")' = wifi'.iw
        /\ TeleNow("wifi", "sysfs") = w.sysfs /\ TeleNow("wifi", "sysfs")' = wifi'.sysfs
        /\ \A source : source \notin {"iw", "sysfs"} =>
              TeleNow("wifi", source) = 0 /\ TeleNow("wifi", source)' = 0
    BY DEF TelePassed, TeleNow, w
  <2>7. \A k \in TeleRate \ {"wifi"} :
          TelePassed(k)' = TelePassed(k) /\ \A source : TeleNow(k, source)' = TeleNow(k, source)
    BY <2>1 DEF TelePassed, TeleNow, TeleRate
  <2>8. /\ \A k \in TeleRate : TelePassed(k) <= TelePassed(k)'
        /\ \A k \in TeleRate : \A source : TeleNow(k, source)' - TeleNow(k, source) <= TelePassed(k)' - TelePassed(k)
    <3> SUFFICES ASSUME NEW k \in TeleRate
                 PROVE  /\ TelePassed(k) <= TelePassed(k)'
                        /\ \A source : TeleNow(k, source)' - TeleNow(k, source) <= TelePassed(k)' - TelePassed(k)
      OBVIOUS
    <3>1. CASE k = "wifi"
      <4>1. ASSUME NEW source
            PROVE  TeleNow(k, source)' - TeleNow(k, source) <= TelePassed(k)' - TelePassed(k)
        <5>1. CASE source = "iw"
          BY <2>4, <2>6, <3>1, <5>1
        <5>2. CASE source = "sysfs"
          BY <2>4, <2>6, <3>1, <5>2
        <5>3. CASE source \notin {"iw", "sysfs"}
          BY <2>4, <2>6, <3>1, <5>3
        <5> QED
          BY <5>1, <5>2, <5>3
      <4> QED
        BY <2>4, <2>6, <3>1, <4>1
    <3>2. CASE k # "wifi"
      BY <1>2, <2>7, <3>2
    <3> QED
      BY <3>1, <3>2
  <2> QED
    BY <1>1, <2>1, <2>5, <2>8, TeleOldCounters, TeleEventStep
<1>6. CASE T!MoveSectors \/ T!Replug
  <2> DEFINE d == disk
  <2>1. UNCHANGED <<cpu, energy, wifi>>
    BY <1>6 DEF T!MoveSectors, T!Replug
  <2>2. d \in [sectors : 0 .. events, moved : 0 .. events]
    BY <1>1 DEF TeleType
  <2>3. \/ disk' = [sectors |-> d.sectors + 1, moved |-> d.moved + 1]
        \/ disk' = [d EXCEPT !.sectors = 0]
    BY <1>6 DEF T!MoveSectors, T!Replug
  <2> HIDE DEF d
  <2>4. /\ disk' \in [sectors : 0 .. events', moved : 0 .. events']
        /\ d.sectors \in Nat /\ d.moved \in Nat
        /\ \/ disk'.sectors = d.sectors + 1 /\ disk'.moved = d.moved + 1
           \/ disk'.sectors = 0 /\ disk'.moved = d.moved
    BY <1>1, <2>2, <2>3
  <2>5. TeleType'
    BY <1>1, <2>1, <2>4, TeleEventType, TeleOldCounters
  <2>6. /\ TelePassed("disk") = d.moved /\ TelePassed("disk")' = disk'.moved
        /\ \A source : TeleNow("disk", source) = d.sectors /\ TeleNow("disk", source)' = disk'.sectors
    BY DEF TelePassed, TeleNow, d
  <2>7. \A k \in TeleRate \ {"disk"} :
          TelePassed(k)' = TelePassed(k) /\ \A source : TeleNow(k, source)' = TeleNow(k, source)
    BY <2>1 DEF TelePassed, TeleNow, TeleRate
  <2>8. /\ \A k \in TeleRate : TelePassed(k) <= TelePassed(k)'
        /\ \A k \in TeleRate : \A source : TeleNow(k, source)' - TeleNow(k, source) <= TelePassed(k)' - TelePassed(k)
    <3> SUFFICES ASSUME NEW k \in TeleRate
                 PROVE  /\ TelePassed(k) <= TelePassed(k)'
                        /\ \A source : TeleNow(k, source)' - TeleNow(k, source) <= TelePassed(k)' - TelePassed(k)
      OBVIOUS
    <3>1. CASE k = "disk"
      BY <2>4, <2>6, <3>1
    <3>2. CASE k # "disk"
      BY <1>2, <2>7, <3>2
    <3> QED
      BY <3>1, <3>2
  <2> QED
    BY <1>1, <2>1, <2>5, <2>8, TeleOldCounters, TeleEventStep
<1> QED
  BY <1>3, <1>4, <1>5, <1>6

LEMMA TeleNext ==
    ASSUME TeleInv, T!Next
    PROVE  TeleInv'
<1>1. CASE \E a \in Refreshers : T!Refresh(a)
  BY <1>1, TeleReadStep, TeleStoreCpuStep, TeleStoreRateStep DEF T!Refresh
<1>2. CASE T!Tick \/ T!Spend \/ T!Transfer \/ T!Associate \/ T!MoveSectors \/ T!Replug
  BY <1>2, TeleMachineStep
<1> QED
  BY <1>1, <1>2 DEF T!Next

LEMMA TeleStutter ==
    ASSUME TeleInv, UNCHANGED T!vars
    PROVE  TeleInv'
<1>1. UNCHANGED <<present, events, cpu, energy, wifi, disk, prev, reading, shown>>
  BY DEF T!vars
<1>2. /\ T!TelemetryConstants /\ TeleType /\ TeleCpuKept /\ \A j \in TeleRate : TeleRateKept(j)
      /\ T!RateIsTraffic
  BY DEF TeleInv
<1>3. \A k, t : TeleKept(k, t)' <=> TeleKept(k, t)
  BY <1>1, TeleKeptSame
<1>4. TeleType'
  BY <1>1, <1>2 DEF TeleType, T!At
<1>5. TeleCpuKept'
  BY <1>1, <1>2, <1>3 DEF TeleCpuKept, TeleBefore, TeleCpuSample
<1>6. \A j \in TeleRate : TeleRateKept(j)'
  BY <1>1, <1>2, <1>3, TeleStandStill, TeleSameRate
<1>7. T!RateIsTraffic'
  BY <1>1, <1>2 DEF T!RateIsTraffic
<1> QED
  BY <1>2, <1>4, <1>5, <1>6, <1>7 DEF TeleInv

LEMMA TeleSafe ==
    ASSUME TeleInv
    PROVE  T!TypeOK /\ T!RateIsTraffic
<1>1. /\ T!TelemetryConstants /\ TeleType /\ T!RateIsTraffic
      /\ MaxEvents \in Nat /\ events \in Nat /\ events <= MaxEvents
  BY TeleCountFacts DEF TeleInv
<1>2. \A n \in 0 .. events : n \in 0 .. MaxEvents
  BY <1>1
<1>3. cpu \in [user : 0 .. MaxEvents, irq : 0 .. MaxEvents, idle : 0 .. MaxEvents]
  BY <1>1, <1>2 DEF TeleType
<1>4. energy.counter \in 0 .. (Wrap - 1)
  <2>1. energy.counter \in Nat /\ energy.counter < Wrap /\ Wrap \in Nat
    BY <1>1 DEF TeleType, T!TelemetryConstants
  <2> QED
    BY <2>1
<1>5. \A k \in {"rapl", "wifi", "disk"} : shown[k].amount \in {None} \cup 0 .. MaxEvents
  BY <1>1 DEF TeleType, T!Counters
<1> QED
  BY <1>1, <1>3, <1>4, <1>5 DEF T!TypeOK, TeleType

-----------------------------------------------------------------------------
(* The parts together *)

GpuInv == IInv /\ ClockInv /\ TeleInv

LEMMA GpuInitially == GpuInit => GpuInv
<1> SUFFICES ASSUME GpuInit PROVE GpuInv
  OBVIOUS
<1>1. IInv
  BY InitHolds DEF GpuInit
<1>2. ClockInv
  BY ClockInit, GpuPartsAssumption DEF GpuInit
<1>3. TeleInv
  BY TeleInit, GpuPartsAssumption DEF GpuInit
<1> QED
  BY <1>1, <1>2, <1>3 DEF GpuInv

\* A part that does not move keeps its invariant.
LEMMA GpuStay ==
    ASSUME GpuInv
    PROVE  /\ UNCHANGED vars => IInv'
           /\ UNCHANGED overclockVars => ClockInv'
           /\ UNCHANGED telemetryVars => TeleInv'
<1>1. UNCHANGED vars => IInv'
  BY InductiveStep DEF GpuInv
<1>2. ASSUME UNCHANGED overclockVars PROVE ClockInv'
  <2>1. UNCHANGED O!vars
    BY <1>2 DEF overclockVars, O!vars
  <2> QED
    BY <2>1, ClockStep DEF GpuInv
<1>3. ASSUME UNCHANGED telemetryVars PROVE TeleInv'
  <2>1. UNCHANGED T!vars
    BY <1>3 DEF telemetryVars, T!vars
  <2> QED
    BY <2>1, TeleStutter DEF GpuInv
<1> QED
  BY <1>1, <1>2, <1>3

LEMMA GpuStep == GpuInv /\ [GpuNext]_gpuVars => GpuInv'
<1> SUFFICES ASSUME GpuInv, [GpuNext]_gpuVars PROVE GpuInv'
  OBVIOUS
<1>1. CASE DetectionStep
  <2>1. Next /\ UNCHANGED overclockVars /\ UNCHANGED telemetryVars
    BY <1>1 DEF DetectionStep
  <2>2. IInv'
    BY <2>1, InductiveStep DEF GpuInv
  <2> QED
    BY <2>1, <2>2, GpuStay DEF GpuInv
<1>2. CASE OverclockStep
  <2>1. O!Next /\ UNCHANGED vars /\ UNCHANGED telemetryVars
    BY <1>2 DEF OverclockStep
  <2>2. ClockInv'
    BY <2>1, ClockStep DEF GpuInv
  <2> QED
    BY <2>1, <2>2, GpuStay DEF GpuInv
<1>3. CASE TelemetryStep
  <2>1. T!Next /\ UNCHANGED vars /\ UNCHANGED overclockVars
    BY <1>3 DEF TelemetryStep
  <2>2. TeleInv'
    BY <2>1, TeleNext DEF GpuInv
  <2> QED
    BY <2>1, <2>2, GpuStay DEF GpuInv
<1>4. CASE UNCHANGED gpuVars
  <2>1. UNCHANGED vars /\ UNCHANGED overclockVars /\ UNCHANGED telemetryVars
    BY <1>4 DEF gpuVars
  <2> QED
    BY <2>1, GpuStay DEF GpuInv
<1> QED
  BY <1>1, <1>2, <1>3, <1>4 DEF GpuNext

LEMMA GpuInvariant == GpuSpec => []GpuInv
BY GpuInitially, GpuStep, PTL DEF GpuSpec

\* Every variable of the three parts keeps its type.
THEOREM GpuTypes == GpuSpec => []TypesOK
<1>1. GpuInv => TypesOK
  BY ClockSafe, TeleSafe DEF GpuInv, IInv, TypesOK
<1> QED
  BY GpuInvariant, <1>1, PTL

\* The gpu_overclock job skips a write only for an offset that is in force, or that
\* a client has replaced since; the GUI is shown what the job believes.
THEOREM OffsetsBelieved == GpuSpec => []BeliefBrokenOnlyOutside
<1>1. GpuInv => BeliefBrokenOnlyOutside
  BY ClockSafe DEF GpuInv, BeliefBrokenOnlyOutside
<1> QED
  BY GpuInvariant, <1>1, PTL

\* Once every call has ended and the job rests, MANUAL_GPU_OFFSETS is what the GPU
\* has, unless writers crossed, a reset failed or the GPU had offsets at the start;
\* and with manual clocks the core offset is the one asked for last.
THEOREM OffsetsTold == GpuSpec => []OffsetsAsTold
<1>1. GpuInv => OffsetsAsTold
  BY ClockSafe DEF GpuInv, OffsetsAsTold
<1> QED
  BY GpuInvariant, <1>1, PTL

\* refresh_hardware_cache: however many threads refresh at once, no rate shown claims
\* more energy, bytes or sectors than what passed between the two readings it
\* compares, unless the source of the WiFi counters changed or the readings were
\* stored out of order; no load claims more work than time.
THEOREM RatesMeasured == GpuSpec => []RateIsTraffic
<1>1. GpuInv => RateIsTraffic
  BY TeleSafe DEF GpuInv, RateIsTraffic
<1> QED
  BY GpuInvariant, <1>1, PTL
=============================================================================
