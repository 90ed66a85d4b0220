------------------------ MODULE DaemonSetters_proofs ------------------------
(* Proofs of the safety properties of DaemonSetters, for any number of CPUs *)
(* and callers, any requests, thresholds, keyboards, previews of others and *)
(* bounds that satisfy SettersAssumption.                                   *)
(*                                                                          *)
(* Every part keeps an invariant of its own, which the other parts' steps   *)
(* leave alone.                                                             *)
(*   FreqInv    a call for frequency limits that no other overlaps has      *)
(*              written what it asked for to the CPUs in its loop's past    *)
(*              and left the ones in its future as they were; limits other  *)
(*              than the hardware's are the work of a call that succeeded,  *)
(*              failed part-way or is under way.                            *)
(*   ChargeInv  what an undisturbed call still has to write leads from the  *)
(*              EC's thresholds to the ones asked for, and what it has not  *)
(*              written is as it found it; a page with the driver's lists   *)
(*              asks for a start threshold below the end.                   *)
(*   PerfInv    the mode of the last choice runs, or is the last one that   *)
(*              the call under way will write.                              *)
(*   LightInv   the writes that the page's call still has to make lead from *)
(*              the keyboard as it is to the mode asked for: each LED's     *)
(*              fields have the mode's values or a write left for them, and *)
(*              no write left has another value.  The page's draft is a     *)
(*              mode that the capabilities let it offer.                    *)
EXTENDS DaemonSetters, ProfileApply_proofs, FiniteSetTheorems, SequenceTheorems

\* The kernel keeps the pair in order, and every request is in order; a second
\* write is to a CPU of the loop.
FreqOrdered ==
    /\ \A i \in C!Cpu : limits[i].lo <= limits[i].hi
    /\ \A p \in C!Process :
          /\ task[p].want.lo <= task[p].want.hi
          /\ task[p].pc = "second" => task[p].cpu < task[p].count
          /\ task[p].pc = "read" => task[p].cpu = 0

\* What CPU i has while p is at work alone: what was asked for in the loop's
\* past, and in its future what it had before.
FreqWritten(p, i) ==
    /\ i < task[p].cpu => limits[i] = task[p].want
    /\ task[p].pc = "second" /\ i = task[p].cpu =>
          IF task[p].maxFirst THEN limits[i].hi = task[p].want.hi
                              ELSE limits[i].lo = task[p].want.lo

FreqUnwritten(p, i) ==
    /\ i > task[p].cpu \/ (i = task[p].cpu /\ task[p].pc # "second") => limits[i] = before
    /\ task[p].pc = "second" /\ i = task[p].cpu =>
          IF task[p].maxFirst THEN limits[i].lo = before.lo
                              ELSE limits[i].hi = before.hi

FreqAlone(p) ==
    /\ \A q \in C!Process : C!Active(q) => q = p
    /\ C!Active(p) =>
          /\ task[p].count = C!Cardinality(online)
          /\ \A i \in C!Cpu : FreqWritten(p, i)
          /\ before # C!Mixed =>
                /\ \A i \in C!Cpu : FreqUnwritten(p, i)
                /\ before.lo <= before.hi
                /\ task[p].pc # "read" =>
                      task[p].maxFirst = (\/ task[p].want.hi < before.hi
                                          \/ task[p].want.lo > before.lo)
    /\ task[p].pc = "refused" /\ before # C!Mixed => task[p].want.hi < before.lo
    /\ task[p].pc = "ok" /\ C!Contiguous =>
          modified /\ \A i \in online : limits[i] = task[p].want

FreqSoleInv == \A p \in sole : FreqAlone(p)

\* p is in its loop and has written to CPU i.
FreqWrote(p, i) ==
    /\ C!Active(p)
    /\ i < task[p].cpu \/ (i = task[p].cpu /\ task[p].pc = "second")

\* While no call has succeeded or failed part-way, other limits than the
\* hardware's are the work of a call under way.
FreqUntouched ==
    ~modified /\ ~partial =>
        \A i \in C!Cpu : limits[i] = C!Hardware \/ \E p \in C!Process : FreqWrote(p, i)

\* The restore of a shutdown that nothing overlaps runs alone and is never
\* refused.
FreqRestore ==
    ~raced =>
        /\ task[C!Main].pc # "idle" =>
              /\ C!Main \in sole /\ modified
              /\ task[C!Main].want = C!Hardware
              /\ task[C!Main].pc # "refused"
              /\ task[C!Main].pc = "no_cpu" => ~C!Contiguous
        /\ exited =>
              /\ \A p \in C!Process : ~C!Active(p)
              /\ modified => task[C!Main].pc \in {"ok", "no_cpu"}

FreqInv == C!CpuConstants /\ C!TypeOK /\ FreqOrdered /\ FreqSoleInv /\ FreqUntouched /\ FreqRestore

-----------------------------------------------------------------------------
(* CPU frequency limits *)

LEMMA FreqFacts ==
    ASSUME C!CpuConstants
    PROVE  /\ 0 \in C!Cpu /\ C!Main \in C!Process /\ C!Main \notin Callers
           /\ \A p \in Callers : p \in C!Process /\ p # C!Main
           /\ \A p \in C!Process : p \in Callers \/ p = C!Main
           /\ NumCpus \in Nat
           /\ HwMin \in Int /\ HwMax \in Int
           /\ C!Hardware \in C!Limits /\ C!Hardware.lo <= C!Hardware.hi
           /\ C!Hardware.lo = HwMin /\ C!Hardware.hi = HwMax
           /\ C!Mixed \notin C!Limits
           /\ \A r \in Requests : r \in C!Limits /\ r.lo <= r.hi
           /\ \A l \in C!Limits : /\ l.lo \in HwMin .. HwMax /\ l.hi \in HwMin .. HwMax
                                /\ l = [lo |-> l.lo, hi |-> l.hi]
<1>1. C!Mixed \notin C!Limits
  BY DEF C!CpuConstants, C!Mixed, C!Limits
<1>2. \A r \in Requests : r \in C!Limits /\ r.lo <= r.hi
  BY DEF C!CpuConstants, C!Limits
<1>3. \A l \in C!Limits : /\ l.lo \in HwMin .. HwMax /\ l.hi \in HwMin .. HwMax
                        /\ l = [lo |-> l.lo, hi |-> l.hi]
  BY DEF C!Limits
<1>4. C!Hardware \in C!Limits /\ C!Hardware.lo = HwMin /\ C!Hardware.hi = HwMax
  BY DEF C!CpuConstants, C!Hardware, C!Limits
<1> QED
  BY <1>1, <1>2, <1>3, <1>4 DEF C!CpuConstants, C!Cpu, C!Main, C!Process

\* The instance's Cardinality is the one the library's theorems are about.
LEMMA FreqCardinality == \A S : C!Cardinality(S) = Cardinality(S)
BY DEF C!Cardinality, Cardinality

LEMMA FreqOnlineFacts ==
    ASSUME C!CpuConstants, NEW S \in SUBSET C!Cpu
    PROVE  C!Cardinality(S) \in 0 .. NumCpus
<1>1. IsFiniteSet(C!Cpu) /\ Cardinality(C!Cpu) = NumCpus
  BY FS_Interval DEF C!Cpu, C!CpuConstants
<1>2. IsFiniteSet(S) /\ Cardinality(S) <= NumCpus
  BY <1>1, FS_Subset
<1> QED
  BY <1>2, FS_CardinalityType, FreqCardinality DEF C!CpuConstants

\* A call's record changes.
LEMMA FreqTaskStep ==
    ASSUME task \in [C!Process -> C!CallType], NEW p \in C!Process, NEW t \in C!CallType,
           task' = [task EXCEPT ![p] = t]
    PROVE  /\ task' \in [C!Process -> C!CallType] /\ task'[p] = t
           /\ \A q \in C!Process \ {p} : task'[q] = task[q]
OBVIOUS

LEMMA FreqIdleFacts ==
    ASSUME C!CpuConstants
    PROVE  C!Idle \in C!CallType /\ C!Idle.pc = "idle" /\ C!Idle.cpu = 0 /\ C!Idle.count = 0
BY FreqFacts DEF C!Idle, C!CallType

\* A call that ends keeps nothing but its outcome and what it was asked for.
LEMMA FreqEndFacts ==
    ASSUME C!CpuConstants, C!TypeOK, FreqOrdered, NEW p \in C!Process,
           NEW pc \in {"ok", "refused", "no_cpu"}, C!End(p, pc)
    PROVE  /\ task' \in [C!Process -> C!CallType]
           /\ task'[p].pc = pc /\ task'[p].want = task[p].want
           /\ task'[p].cpu = 0 /\ task'[p].count = 0
           /\ \A q \in C!Process \ {p} : task'[q] = task[q]
<1> DEFINE t == [C!Idle EXCEPT !.pc = pc, !.want = task[p].want]
<1>1. task[p].want \in C!Limits
  BY DEF C!TypeOK, C!CallType
<1>2. /\ t \in C!CallType /\ t.pc = pc /\ t.want = task[p].want
      /\ t.cpu = 0 /\ t.count = 0
  BY <1>1, FreqIdleFacts DEF C!CallType
<1>3. task' = [task EXCEPT ![p] = t]
  BY DEF C!End
<1> HIDE DEF t
<1> QED
  BY <1>2, <1>3, FreqTaskStep DEF C!TypeOK

\* The beginning of a call.
LEMMA FreqBeginFacts ==
    ASSUME C!CpuConstants, C!TypeOK, NEW p \in C!Process, NEW want \in C!Limits,
           C!Begin(p, want)
    PROVE  /\ task' \in [C!Process -> C!CallType]
           /\ task'[p].pc = "read" /\ task'[p].want = want
           /\ task'[p].cpu = 0 /\ task'[p].count = C!Cardinality(online)
           /\ \A q \in C!Process \ {p} : task'[q] = task[q]
<1> DEFINE t == [pc |-> "read", want |-> want, cpu |-> 0,
                 count |-> C!Cardinality(online), maxFirst |-> FALSE]
<1>1. C!Cardinality(online) \in 0 .. NumCpus
  BY FreqOnlineFacts DEF C!TypeOK
<1>2. /\ t \in C!CallType /\ t.pc = "read" /\ t.want = want
      /\ t.cpu = 0 /\ t.count = C!Cardinality(online)
  BY <1>1, FreqFacts DEF C!CallType
<1>3. task' = [task EXCEPT ![p] = t]
  BY DEF C!Begin
<1> HIDE DEF t
<1> QED
  BY <1>2, <1>3, FreqTaskStep DEF C!TypeOK

\* One write changes one half of one CPU's limits.
LEMMA FreqWriteFacts ==
    ASSUME C!CpuConstants, C!TypeOK, FreqOrdered, NEW p \in C!Process, C!WriteLimit(p)
    PROVE  LET c == task[p]
               i == c.cpu
           IN  /\ c.pc \in {"first", "second"} /\ i < c.count /\ i \in C!Cpu /\ i \in online
               /\ limits' \in [C!Cpu -> C!Limits]
               /\ \A j \in C!Cpu \ {i} : limits'[j] = limits[j]
               /\ limits'[i].lo <= limits'[i].hi
               /\ IF (c.pc = "first") = c.maxFirst
                    THEN limits'[i].hi = c.want.hi /\ limits'[i].lo = limits[i].lo
                    ELSE limits'[i].lo = c.want.lo /\ limits'[i].hi = limits[i].hi
<1> DEFINE c == task[p]
           i == c.cpu
<1>1. /\ c \in C!CallType /\ c.pc \in {"first", "second"} /\ i < c.count
      /\ i \in online /\ i \in C!Cpu
  BY DEF C!WriteLimit, C!Accepts, C!TypeOK
<1>2. limits[i] \in C!Limits /\ c.want \in C!Limits
  BY <1>1 DEF C!TypeOK, C!CallType
<1>3. CASE (c.pc = "first") = c.maxFirst
  <2> DEFINE l == [limits[i] EXCEPT !.hi = c.want.hi]
  <2>1. C!Field(c) = "hi"
    BY <1>3 DEF C!Field
  <2>2. limits' = [limits EXCEPT ![i] = l] /\ c.want.hi >= limits[i].lo
    BY <2>1 DEF C!WriteLimit, C!Accepts
  <2>3. l \in C!Limits /\ l.hi = c.want.hi /\ l.lo = limits[i].lo
    BY <1>2 DEF C!Limits
  <2> HIDE DEF l
  <2>4. /\ limits' \in [C!Cpu -> C!Limits] /\ limits'[i] = l
        /\ \A j \in C!Cpu \ {i} : limits'[j] = limits[j]
    BY <1>1, <2>2, <2>3 DEF C!TypeOK
  <2>5. limits'[i].lo <= limits'[i].hi
    BY <1>2, <2>2, <2>3, <2>4, FreqFacts
  <2> QED
    BY <1>1, <1>3, <2>3, <2>4, <2>5
<1>4. CASE (c.pc = "first") # c.maxFirst
  <2> DEFINE l == [limits[i] EXCEPT !.lo = c.want.lo]
  <2>1. C!Field(c) = "lo"
    BY <1>4 DEF C!Field
  <2>2. limits' = [limits EXCEPT ![i] = l] /\ c.want.lo <= limits[i].hi
    BY <2>1 DEF C!WriteLimit, C!Accepts
  <2>3. l \in C!Limits /\ l.lo = c.want.lo /\ l.hi = limits[i].hi
    BY <1>2 DEF C!Limits
  <2> HIDE DEF l
  <2>4. /\ limits' \in [C!Cpu -> C!Limits] /\ limits'[i] = l
        /\ \A j \in C!Cpu \ {i} : limits'[j] = limits[j]
    BY <1>1, <2>2, <2>3 DEF C!TypeOK
  <2>5. limits'[i].lo <= limits'[i].hi
    BY <1>2, <2>2, <2>3, <2>4, FreqFacts
  <2> QED
    BY <1>1, <1>4, <2>3, <2>4, <2>5
<1> QED
  BY <1>3, <1>4

\* Only p moves, so no other call can be the one that was alone.
LEMMA FreqSoleIsActor ==
    ASSUME FreqSoleInv, NEW p \in C!Process, C!Active(p), NEW q \in sole
    PROVE  q = p
BY DEF FreqSoleInv, FreqAlone

LEMMA FreqReadStep ==
    ASSUME FreqInv, NEW p \in C!Process, C!ReadCurrent(p)
    PROVE  FreqInv'
<1> DEFINE c == task[p]
           t == [c EXCEPT !.pc = "first",
                          !.maxFirst = \/ c.want.hi < limits[0].hi
                                       \/ c.want.lo > limits[0].lo]
<1>1. c \in C!CallType /\ c.pc = "read" /\ c.cpu = 0 /\ C!Active(p)
  BY DEF FreqInv, C!TypeOK, C!ReadCurrent, C!Active, FreqOrdered
<1>2. task' = [task EXCEPT ![p] = t]
  BY DEF C!ReadCurrent
<1>3. /\ t \in C!CallType /\ t.pc = "first" /\ t.want = c.want /\ t.cpu = 0
      /\ t.count = c.count
      /\ t.maxFirst = (c.want.hi < limits[0].hi \/ c.want.lo > limits[0].lo)
  BY <1>1 DEF C!CallType
<1> HIDE DEF t
<1>4. /\ task' \in [C!Process -> C!CallType] /\ task'[p] = t
      /\ \A q \in C!Process \ {p} : task'[q] = task[q]
  BY <1>2, <1>3, FreqTaskStep DEF FreqInv, C!TypeOK
<1>5. UNCHANGED <<limits, online, modified, exited, calls, sole, before, partial, raced>>
  BY DEF C!ReadCurrent, C!history
<1>6. \A q \in C!Process : C!Active(q)' <=> C!Active(q)
  BY <1>1, <1>3, <1>4 DEF C!Active
<1>7. C!TypeOK' /\ C!CpuConstants
  BY <1>1, <1>3, <1>4, <1>5 DEF FreqInv, C!TypeOK
<1>8. FreqOrdered'
  BY <1>1, <1>3, <1>4, <1>5 DEF FreqInv, FreqOrdered
<1>9. FreqSoleInv'
  <2> SUFFICES ASSUME p \in sole PROVE FreqAlone(p)'
    BY <1>1, <1>5, FreqSoleIsActor DEF FreqSoleInv, FreqInv
  <2>1. FreqAlone(p)
    BY DEF FreqInv, FreqSoleInv
  <2>2. ASSUME before # C!Mixed PROVE \A i \in C!Cpu : limits[i] = before
    BY <1>1, <2>1, <2>2 DEF FreqAlone, FreqUnwritten, C!Cpu
  <2>3. \A i \in C!Cpu : FreqWritten(p, i)'
    BY <1>3, <1>4 DEF FreqWritten, C!Cpu
  <2>4. before # C!Mixed => \A i \in C!Cpu : FreqUnwritten(p, i)'
    BY <1>3, <1>4, <1>5, <2>2 DEF FreqUnwritten
  <2>5. before # C!Mixed => t.maxFirst = (t.want.hi < before.hi \/ t.want.lo > before.lo)
    BY <1>3, <2>2, FreqFacts DEF FreqInv
  <2> QED
    BY <1>1, <1>3, <1>4, <1>5, <1>6, <2>1, <2>3, <2>4, <2>5 DEF FreqAlone
<1>10. FreqUntouched'
  <2>1. \A q \in C!Process, i \in C!Cpu : FreqWrote(q, i) => FreqWrote(q, i)'
    BY <1>1, <1>3, <1>4, <1>6 DEF FreqWrote, C!Cpu
  <2> QED
    BY <1>5, <2>1 DEF FreqInv, FreqUntouched
<1>11. FreqRestore'
  <2>1. /\ task'[C!Main].want = task[C!Main].want
        /\ \A pc \in {"idle", "refused", "no_cpu", "ok"} :
              task'[C!Main].pc = pc <=> task[C!Main].pc = pc
    BY <1>1, <1>3, <1>4 DEF C!Process
  <2> QED
    BY <1>5, <1>6, <2>1 DEF FreqInv, FreqRestore, C!Contiguous
<1> QED
  BY <1>7, <1>8, <1>9, <1>10, <1>11 DEF FreqInv, C!CpuConstants

LEMMA FreqWriteStep ==
    ASSUME FreqInv, NEW p \in C!Process, C!WriteLimit(p)
    PROVE  FreqInv'
<1> DEFINE c == task[p]
           i == c.cpu
           t == [c EXCEPT !.pc = IF c.pc = "first" THEN "second" ELSE "first",
                          !.cpu = IF c.pc = "first" THEN @ ELSE @ + 1]
<1>1. /\ c \in C!CallType /\ c.pc \in {"first", "second"} /\ i < c.count /\ C!Active(p)
      /\ i \in C!Cpu /\ i \in online
      /\ limits' \in [C!Cpu -> C!Limits]
      /\ \A j \in C!Cpu \ {i} : limits'[j] = limits[j]
      /\ limits'[i].lo <= limits'[i].hi
      /\ IF (c.pc = "first") = c.maxFirst
           THEN limits'[i].hi = c.want.hi /\ limits'[i].lo = limits[i].lo
           ELSE limits'[i].lo = c.want.lo /\ limits'[i].hi = limits[i].hi
  BY FreqWriteFacts DEF FreqInv, C!TypeOK, C!Active
<1>2. task' = [task EXCEPT ![p] = t]
  BY DEF C!WriteLimit
<1>3. /\ t \in C!CallType /\ t.want = c.want /\ t.maxFirst = c.maxFirst
      /\ t.count = c.count /\ t.cpu <= t.count
      /\ \/ c.pc = "first" /\ t.pc = "second" /\ t.cpu = i
         \/ c.pc = "second" /\ t.pc = "first" /\ t.cpu = i + 1
  <2>1. /\ c \in C!CallType /\ i < c.count
        /\ NumCpus \in Nat /\ c.count \in 0 .. NumCpus /\ i \in 0 .. NumCpus
    BY <1>1, FreqFacts DEF C!CallType, FreqInv
  <2>2. CASE c.pc = "first"
    <3>1. t = [c EXCEPT !.pc = "second"]
      BY <2>1, <2>2 DEF C!CallType
    <3> HIDE DEF t
    <3> QED
      BY <2>1, <2>2, <3>1 DEF C!CallType
  <2>3. CASE c.pc = "second"
    <3>1. t = [c EXCEPT !.pc = "first", !.cpu = i + 1]
      BY <2>3
    <3>2. i + 1 \in 0 .. NumCpus /\ i + 1 <= c.count
      BY <1>1, <2>1
    <3> HIDE DEF t
    <3> QED
      BY <2>1, <2>3, <3>1, <3>2 DEF C!CallType
  <2> QED
    BY <1>1, <2>2, <2>3
<1> HIDE DEF t
<1>4. /\ task' \in [C!Process -> C!CallType] /\ task'[p] = t
      /\ \A q \in C!Process \ {p} : task'[q] = task[q]
  BY <1>2, <1>3, FreqTaskStep DEF FreqInv, C!TypeOK
<1>5. UNCHANGED <<online, modified, exited, calls, sole, before, partial, raced>>
  BY DEF C!WriteLimit, C!history
<1>6. \A q \in C!Process : C!Active(q)' <=> C!Active(q)
  BY <1>1, <1>3, <1>4 DEF C!Active
<1>7. C!TypeOK' /\ C!CpuConstants
  BY <1>1, <1>3, <1>4, <1>5 DEF FreqInv, C!TypeOK
<1>8. FreqOrdered'
  BY <1>1, <1>3, <1>4, <1>5 DEF FreqInv, FreqOrdered
<1>9. FreqSoleInv'
  <2> SUFFICES ASSUME p \in sole PROVE FreqAlone(p)'
    BY <1>1, <1>5, FreqSoleIsActor DEF FreqSoleInv, FreqInv
  <2>1. FreqAlone(p)
    BY DEF FreqInv, FreqSoleInv
  <2>2. \A j \in C!Cpu : FreqWritten(p, j)'
    <3> SUFFICES ASSUME NEW j \in C!Cpu PROVE FreqWritten(p, j)'
      OBVIOUS
    <3>1. FreqWritten(p, j) /\ FreqWritten(p, i)
      BY <1>1, <2>1 DEF FreqAlone
    <3>2. CASE j # i
      <4>1. /\ limits'[j] = limits[j] /\ task'[p].want = c.want
            /\ task'[p].pc = "second" => task'[p].cpu = i
            /\ j < task'[p].cpu => j < i
        BY <1>1, <1>3, <1>4, <3>2 DEF C!Cpu
      <4> QED
        BY <3>1, <3>2, <4>1 DEF FreqWritten
    <3>3. CASE j = i /\ c.pc = "first"
      <4>1. /\ task'[p].cpu = i /\ task'[p].want = c.want
            /\ task'[p].maxFirst = c.maxFirst
        BY <1>3, <1>4, <3>3
      <4>2. IF c.maxFirst THEN limits'[i].hi = c.want.hi ELSE limits'[i].lo = c.want.lo
        BY <1>1, <3>3 DEF C!CallType
      <4> QED
        BY <1>1, <3>3, <4>1, <4>2 DEF FreqWritten, C!Cpu
    <3>4. CASE j = i /\ c.pc = "second"
      <4>1. limits'[i].lo = c.want.lo /\ limits'[i].hi = c.want.hi
        <5>1. IF c.maxFirst THEN limits[i].hi = c.want.hi ELSE limits[i].lo = c.want.lo
          BY <3>1, <3>4 DEF FreqWritten
        <5>2. c.maxFirst \in BOOLEAN
          BY <1>1 DEF C!CallType
        <5> QED
          BY <1>1, <3>4, <5>1, <5>2
      <4>2. limits'[i] \in C!Limits /\ c.want \in C!Limits
        BY <1>1 DEF C!CallType
      <4>3. limits'[i] = c.want
        BY <4>1, <4>2, FreqFacts DEF FreqInv
      <4> QED
        BY <1>3, <1>4, <3>4, <4>3 DEF FreqWritten
    <3> QED
      BY <1>1, <3>2, <3>3, <3>4
  <2>3. before # C!Mixed => \A j \in C!Cpu : FreqUnwritten(p, j)'
    <3> SUFFICES ASSUME before # C!Mixed, NEW j \in C!Cpu PROVE FreqUnwritten(p, j)'
      OBVIOUS
    <3>1. FreqUnwritten(p, j) /\ FreqUnwritten(p, i)
      BY <1>1, <2>1 DEF FreqAlone
    <3>2. CASE j # i
      <4>1. /\ limits'[j] = limits[j]
            /\ task'[p].pc = "second" => task'[p].cpu = i
            /\ j > task'[p].cpu \/ j = task'[p].cpu => j > i
        BY <1>1, <1>3, <1>4, <3>2 DEF C!Cpu
      <4>2. task'[p].pc = "second" => j # task'[p].cpu
        BY <3>2, <4>1
      <4> QED
        BY <1>5, <3>1, <4>1, <4>2 DEF FreqUnwritten
    <3>3. CASE j = i /\ c.pc = "first"
      <4>1. /\ task'[p].cpu = i /\ task'[p].pc = "second"
            /\ task'[p].maxFirst = c.maxFirst
        BY <1>3, <1>4, <3>3
      <4>2. IF c.maxFirst THEN limits'[i].lo = limits[i].lo ELSE limits'[i].hi = limits[i].hi
        BY <1>1, <3>3 DEF C!CallType
      <4>3. limits[i] = before
        BY <3>1, <3>3 DEF FreqUnwritten
      <4> QED
        BY <1>1, <1>5, <3>3, <4>1, <4>2, <4>3 DEF FreqUnwritten, C!Cpu
    <3>4. CASE j = i /\ c.pc = "second"
      BY <1>1, <1>3, <1>4, <3>4 DEF FreqUnwritten, C!Cpu
    <3> QED
      BY <1>1, <3>2, <3>3, <3>4
  <2> QED
    BY <1>1, <1>3, <1>4, <1>5, <1>6, <2>1, <2>2, <2>3 DEF FreqAlone
<1>10. FreqUntouched'
  <2> SUFFICES ASSUME ~modified, ~partial, NEW j \in C!Cpu
               PROVE  limits'[j] = C!Hardware \/ \E q \in C!Process : FreqWrote(q, j)'
    BY <1>5 DEF FreqUntouched
  <2>1. \A q \in C!Process : FreqWrote(q, j) => FreqWrote(q, j)'
    BY <1>1, <1>3, <1>4, <1>6 DEF FreqWrote, C!Cpu
  <2>2. CASE j = i
    BY <1>1, <1>3, <1>4, <1>6, <2>2 DEF FreqWrote, C!Cpu
  <2>3. CASE j # i
    BY <1>1, <2>1, <2>3 DEF FreqInv, FreqUntouched
  <2> QED
    BY <2>2, <2>3
<1>11. FreqRestore'
  <2>1. /\ task'[C!Main].want = task[C!Main].want
        /\ \A pc \in {"idle", "refused", "no_cpu", "ok"} :
              task'[C!Main].pc = pc <=> task[C!Main].pc = pc
    BY <1>1, <1>3, <1>4 DEF C!Process
  <2> QED
    BY <1>5, <1>6, <2>1 DEF FreqInv, FreqRestore, C!Contiguous
<1> QED
  BY <1>7, <1>8, <1>9, <1>10, <1>11 DEF FreqInv, C!CpuConstants

LEMMA FreqRefuseStep ==
    ASSUME FreqInv, NEW p \in C!Process, C!Refuse(p)
    PROVE  FreqInv'
<1> DEFINE c == task[p]
           i == c.cpu
           pc == IF i \in online THEN "refused" ELSE "no_cpu"
<1>1. /\ c \in C!CallType /\ c.pc \in {"first", "second"} /\ i < c.count /\ C!Active(p)
      /\ i \in Nat /\ c.count \in 0 .. NumCpus
      /\ ~C!Accepts(i, C!Field(c), c.want[C!Field(c)])
      /\ partial' = (partial \/ i > 0 \/ c.pc = "second")
  BY DEF FreqInv, C!TypeOK, C!Active, C!Refuse, C!CallType
<1>2. /\ task' \in [C!Process -> C!CallType]
      /\ task'[p].pc = pc /\ task'[p].want = c.want
      /\ task'[p].cpu = 0 /\ task'[p].count = 0
      /\ \A q \in C!Process \ {p} : task'[q] = task[q]
  BY FreqEndFacts DEF C!Refuse, FreqInv
<1>3. UNCHANGED <<limits, online, modified, exited, calls, sole, before, raced>>
  BY DEF C!Refuse
<1>4. \A q \in C!Process : C!Active(q)' => C!Active(q) /\ q # p
  BY <1>2 DEF C!Active
<1>5. C!TypeOK' /\ C!CpuConstants
  BY <1>1, <1>2, <1>3 DEF FreqInv, C!TypeOK
<1>6. FreqOrdered'
  BY <1>1, <1>2, <1>3 DEF FreqInv, FreqOrdered
\* Only a CPU that is gone, or a maximum below the minimum, is refused.
<1>7. ASSUME p \in sole, before # C!Mixed, i \in online
      PROVE  c.want.hi < before.lo
  <2>1. FreqAlone(p) /\ i \in C!Cpu
    BY <1>7 DEF FreqInv, FreqSoleInv, C!TypeOK
  <2>2. /\ FreqUnwritten(p, i) /\ FreqWritten(p, i) /\ before.lo <= before.hi
        /\ c.maxFirst = (c.want.hi < before.hi \/ c.want.lo > before.lo)
    BY <1>1, <1>7, <2>1 DEF FreqAlone
  <2>3. /\ before \in C!Limits /\ c.want \in C!Limits /\ limits[i] \in C!Limits
        /\ c.want.lo <= c.want.hi
    BY <1>1, <1>7, <2>1 DEF FreqInv, C!TypeOK, C!CallType, FreqOrdered
  <2>4. /\ before.lo \in Int /\ before.hi \in Int /\ c.want.lo \in Int /\ c.want.hi \in Int
    BY <2>3, FreqFacts DEF FreqInv
  <2>5. CASE c.pc = "first"
    <3>1. limits[i] = before
      BY <2>2, <2>5 DEF FreqUnwritten
    <3>2. CASE c.maxFirst
      <4>1. c.want.hi < limits[i].lo
        <5>1. C!Field(c) = "hi"
          BY <2>5, <3>2 DEF C!Field
        <5> QED
          BY <1>1, <1>7, <2>4, <3>1, <5>1 DEF C!Accepts
      <4> QED
        BY <3>1, <4>1
    <3>3. CASE ~c.maxFirst
      <4>1. C!Field(c) = "lo"
        BY <2>2, <2>5, <3>3 DEF C!Field
      <4>2. c.want.lo > limits[i].hi
        BY <1>1, <1>7, <2>3, <2>4, <3>1, <4>1 DEF C!Accepts
      <4> QED
        <5>1. ~(c.want.lo > before.lo)
          BY <2>2, <3>3
        <5> QED
          BY <2>2, <2>4, <3>1, <4>2, <5>1
    <3> QED
      BY <3>2, <3>3
  <2>6. CASE c.pc = "second"
    <3>1. CASE c.maxFirst
      <4>1. limits[i].hi = c.want.hi /\ C!Field(c) = "lo"
        BY <2>2, <2>6, <3>1 DEF FreqWritten, C!Field
      <4>2. c.want.lo > c.want.hi
        BY <1>1, <1>7, <2>4, <4>1 DEF C!Accepts
      <4> QED
        BY <2>3, <2>4, <4>2
    <3>2. CASE ~c.maxFirst
      <4>1. limits[i].lo = c.want.lo /\ C!Field(c) = "hi"
        BY <2>2, <2>6, <3>2 DEF FreqWritten, C!Field
      <4>2. c.want.hi < c.want.lo
        BY <1>1, <1>7, <2>4, <4>1 DEF C!Accepts
      <4> QED
        BY <2>3, <2>4, <4>2
    <3> QED
      BY <3>1, <3>2
  <2> QED
    BY <1>1, <2>5, <2>6
<1>8. FreqSoleInv'
  <2> SUFFICES ASSUME p \in sole PROVE FreqAlone(p)'
    BY <1>1, <1>3, FreqSoleIsActor DEF FreqSoleInv, FreqInv
  <2>1. \A q \in C!Process : ~C!Active(q)'
    BY <1>1, <1>4, FreqSoleIsActor DEF FreqInv, FreqSoleInv, FreqAlone
  <2> QED
    BY <1>2, <1>3, <1>7, <2>1 DEF FreqAlone
<1>9. FreqUntouched'
  <2> SUFFICES ASSUME ~modified, ~partial', NEW j \in C!Cpu
               PROVE  limits[j] = C!Hardware \/ \E q \in C!Process : FreqWrote(q, j)'
    BY <1>3 DEF FreqUntouched
  <2>1. ~partial /\ i = 0 /\ c.pc = "first"
    <3>1. ~partial /\ ~(i > 0) /\ c.pc # "second"
      BY <1>1
    <3> QED
      BY <1>1, <3>1
  <2>2. ~FreqWrote(p, j)
    BY <2>1 DEF FreqWrote, C!Cpu
  <2>3. \A q \in C!Process : FreqWrote(q, j) => FreqWrote(q, j)'
    BY <1>2, <2>2 DEF FreqWrote, C!Active
  <2> QED
    BY <2>1, <2>3 DEF FreqInv, FreqUntouched
<1>10. FreqRestore'
  <2>1. p = C!Main /\ ~raced => i \notin online /\ ~C!Contiguous /\ C!Main \in sole
    <3> SUFFICES ASSUME p = C!Main, ~raced PROVE i \notin online /\ ~C!Contiguous /\ C!Main \in sole
      OBVIOUS
    <3>1. C!Main \in sole /\ c.want = C!Hardware
      BY <1>1 DEF FreqInv, FreqRestore
    <3>2. i \notin online
      <4> SUFFICES ASSUME i \in online PROVE FALSE
        OBVIOUS
      <4>1. limits[i] \in C!Limits
        BY DEF FreqInv, C!TypeOK
      <4>2. limits[i].lo \in HwMin .. HwMax /\ limits[i].hi \in HwMin .. HwMax
        BY <4>1, FreqFacts DEF FreqInv
      <4>3. C!Accepts(i, "lo", c.want.lo) /\ C!Accepts(i, "hi", c.want.hi)
        BY <3>1, <4>2, FreqFacts DEF C!Accepts, FreqInv
      <4>4. C!Field(c) = "lo" \/ C!Field(c) = "hi"
        BY DEF C!Field
      <4> QED
        BY <1>1, <4>3, <4>4
    <3>3. ~C!Contiguous
      <4>1. c.count = C!Cardinality(online)
        BY <1>1, <3>1 DEF FreqInv, FreqSoleInv, FreqAlone
      <4> QED
        BY <1>1, <3>2, <4>1 DEF C!Contiguous
    <3> QED
      BY <3>1, <3>2, <3>3
  <2>2. C!Contiguous' <=> C!Contiguous
    BY <1>3 DEF C!Contiguous
  <2>3. p # C!Main => task'[C!Main] = task[C!Main]
    BY <1>2 DEF C!Process
  <2>4. p = C!Main => task'[C!Main].pc = pc /\ task'[C!Main].want = task[C!Main].want
    BY <1>2
  <2> HIDE DEF pc
  <2>5. pc = "no_cpu" \/ i \in online
    BY DEF pc
  <2> QED
    BY <1>1, <1>3, <1>4, <2>1, <2>2, <2>3, <2>4, <2>5 DEF FreqInv, FreqRestore, C!Active
<1> QED
  BY <1>5, <1>6, <1>8, <1>9, <1>10 DEF FreqInv, C!CpuConstants

LEMMA FreqFinishStep ==
    ASSUME FreqInv, NEW p \in C!Process, C!Finish(p)
    PROVE  FreqInv'
<1> DEFINE c == task[p]
<1>1. /\ c \in C!CallType /\ c.pc = "first" /\ c.cpu = c.count /\ C!Active(p)
      /\ c.count \in 0 .. NumCpus
  BY DEF FreqInv, C!TypeOK, C!Active, C!Finish, C!CallType
<1>2. /\ task' \in [C!Process -> C!CallType]
      /\ task'[p].pc = "ok" /\ task'[p].want = c.want
      /\ task'[p].cpu = 0 /\ task'[p].count = 0
      /\ \A q \in C!Process \ {p} : task'[q] = task[q]
  BY FreqEndFacts DEF C!Finish, FreqInv
<1>3. /\ UNCHANGED <<limits, online, exited, calls, sole, before, partial, raced>>
      /\ modified'
  BY DEF C!Finish, C!history
<1>4. \A q \in C!Process : C!Active(q)' => C!Active(q) /\ q # p
  BY <1>2 DEF C!Active
<1>5. C!TypeOK' /\ C!CpuConstants
  BY <1>1, <1>2, <1>3 DEF FreqInv, C!TypeOK, C!Finish
<1>6. FreqOrdered'
  BY <1>1, <1>2, <1>3 DEF FreqInv, FreqOrdered
<1>7. FreqSoleInv'
  <2> SUFFICES ASSUME p \in sole PROVE FreqAlone(p)'
    BY <1>1, <1>3, FreqSoleIsActor DEF FreqSoleInv, FreqInv
  <2>1. \A q \in C!Process : ~C!Active(q)'
    BY <1>1, <1>4, FreqSoleIsActor DEF FreqInv, FreqSoleInv, FreqAlone
  <2>2. C!Contiguous => \A i \in online : limits[i] = c.want
    <3>1. c.count = C!Cardinality(online) /\ \A i \in C!Cpu : FreqWritten(p, i)
      BY <1>1 DEF FreqInv, FreqSoleInv, FreqAlone
    <3>2. online \subseteq C!Cpu
      BY DEF FreqInv, C!TypeOK
    <3> QED
      BY <1>1, <3>1, <3>2 DEF C!Contiguous, FreqWritten
  <2> QED
    BY <1>2, <1>3, <2>1, <2>2 DEF FreqAlone, C!Contiguous
<1>8. FreqUntouched'
  BY <1>3 DEF FreqUntouched
<1>9. FreqRestore'
  <2>1. ASSUME ~raced PROVE ~exited
    BY <1>1, <2>1 DEF FreqInv, FreqRestore
  <2>2. CASE p = C!Main
    BY <1>1, <1>2, <1>3, <2>1, <2>2 DEF FreqInv, FreqRestore
  <2>3. CASE p # C!Main
    BY <1>1, <1>2, <1>3, <2>1, <2>3 DEF FreqInv, FreqRestore, C!Contiguous, C!Process
  <2> QED
    BY <2>2, <2>3
<1> QED
  BY <1>5, <1>6, <1>7, <1>8, <1>9 DEF FreqInv, C!CpuConstants

LEMMA FreqReplyStep ==
    ASSUME FreqInv, NEW p \in Callers, C!Reply(p)
    PROVE  FreqInv'
<1>1. /\ p \in C!Process /\ p # C!Main /\ task[p].pc \in {"ok", "refused", "no_cpu"}
      /\ ~C!Active(p) /\ task' = [task EXCEPT ![p] = C!Idle]
      /\ C!CpuConstants
  BY FreqFacts DEF FreqInv, C!Reply, C!Active
<1>2. /\ task' \in [C!Process -> C!CallType] /\ task'[p] = C!Idle
      /\ \A q \in C!Process \ {p} : task'[q] = task[q]
  BY <1>1, FreqIdleFacts, FreqTaskStep DEF FreqInv, C!TypeOK
<1>3. UNCHANGED <<limits, online, modified, exited, calls, sole, before, partial, raced>>
  BY DEF C!Reply, C!history
<1>4. \A q \in C!Process : C!Active(q)' <=> C!Active(q)
  BY <1>1, <1>2, FreqIdleFacts DEF C!Active
<1>5. C!TypeOK' /\ C!CpuConstants
  BY <1>1, <1>2, <1>3, FreqIdleFacts DEF FreqInv, C!TypeOK
<1>6. FreqOrdered'
  BY <1>1, <1>2, <1>3, FreqIdleFacts, FreqFacts DEF FreqInv, FreqOrdered, C!Idle
<1>7. FreqSoleInv'
  <2> SUFFICES ASSUME NEW r \in sole PROVE FreqAlone(r)'
    BY <1>3 DEF FreqSoleInv
  <2>1. FreqAlone(r) /\ r \in C!Process
    BY DEF FreqInv, FreqSoleInv, C!TypeOK
  <2>2. CASE r = p
    BY <1>1, <1>2, <1>4, <2>1, <2>2, FreqIdleFacts DEF FreqAlone
  <2>3. CASE r # p
    <3>1. task'[r] = task[r]
      BY <1>2, <2>1, <2>3
    <3> QED
      BY <1>3, <1>4, <2>1, <3>1 DEF FreqAlone, FreqWritten, FreqUnwritten, C!Contiguous
  <2> QED
    BY <2>2, <2>3
<1>8. FreqUntouched'
  <2>1. \A q \in C!Process, i \in C!Cpu : FreqWrote(q, i) => FreqWrote(q, i)'
    BY <1>1, <1>2, <1>4 DEF FreqWrote
  <2> QED
    BY <1>3, <2>1 DEF FreqInv, FreqUntouched
<1>9. FreqRestore'
  <2>1. task'[C!Main] = task[C!Main]
    BY <1>1, <1>2 DEF C!Process
  <2> QED
    BY <1>3, <1>4, <2>1 DEF FreqInv, FreqRestore, C!Contiguous
<1> QED
  BY <1>5, <1>6, <1>7, <1>8, <1>9 DEF FreqInv, C!CpuConstants

\* The beginning of a call, of a client or of the restore.
LEMMA FreqBeginStep ==
    ASSUME FreqInv, NEW p \in C!Process, NEW want \in C!Limits, want.lo <= want.hi,
           task[p].pc = "idle", ~exited, exited' = exited,
           C!Begin(p, want), calls' \in 0 .. MaxFreqCalls, raced' \in BOOLEAN,
           p = C!Main => want = C!Hardware /\ modified
                       /\ (~raced' => \A q \in C!Process : ~C!Active(q)),
           p # C!Main => (~raced' => ~raced /\ task[C!Main].pc = "idle")
    PROVE  FreqInv'
<1>1. C!CpuConstants /\ ~C!Active(p)
  BY DEF FreqInv, C!Active
<1>2. /\ task' \in [C!Process -> C!CallType]
      /\ task'[p].pc = "read" /\ task'[p].want = want
      /\ task'[p].cpu = 0 /\ task'[p].count = C!Cardinality(online)
      /\ \A q \in C!Process \ {p} : task'[q] = task[q]
  BY FreqBeginFacts DEF FreqInv
<1>3. /\ UNCHANGED <<limits, online, modified, partial>>
      /\ sole' = IF \E q \in C!Process : C!Active(q) THEN {} ELSE {p}
      /\ before' = IF sole' # {} /\ \A i \in C!Cpu : limits[i] = limits[0]
                   THEN limits[0] ELSE C!Mixed
  BY DEF C!Begin
<1>4. \A q \in C!Process : C!Active(q)' <=> q = p \/ C!Active(q)
  BY <1>1, <1>2 DEF C!Active
<1>5. C!TypeOK' /\ C!CpuConstants
  <2>1. before' \in C!Limits \cup {C!Mixed} /\ sole' \subseteq C!Process
    BY <1>1, <1>3, FreqFacts DEF FreqInv, C!TypeOK
  <2>2. C!Cardinality(online) \in Nat
    BY <1>1, FreqOnlineFacts DEF FreqInv, C!TypeOK
  <2> QED
    BY <1>1, <1>2, <1>3, <2>1, <2>2 DEF FreqInv, C!TypeOK
<1>6. FreqOrdered'
  BY <1>1, <1>2, <1>3 DEF FreqInv, FreqOrdered
<1>7. FreqSoleInv'
  <2> SUFFICES ASSUME \A q \in C!Process : ~C!Active(q), sole' = {p} PROVE FreqAlone(p)'
    BY <1>3 DEF FreqSoleInv
  <2>1. \A i \in C!Cpu : FreqWritten(p, i)'
    BY <1>2 DEF FreqWritten, C!Cpu
  <2>2. ASSUME before' # C!Mixed
        PROVE  /\ \A i \in C!Cpu : FreqUnwritten(p, i)' /\ limits[i] = before'
               /\ before'.lo <= before'.hi
    <3>1. before' = limits[0] /\ \A i \in C!Cpu : limits[i] = limits[0]
      BY <1>3, <2>2
    <3>2. limits[0].lo <= limits[0].hi
      BY <1>1, FreqFacts DEF FreqInv, FreqOrdered
    <3> QED
      BY <1>2, <1>3, <3>1, <3>2 DEF FreqUnwritten
  <2> QED
    BY <1>2, <1>3, <1>4, <2>1, <2>2 DEF FreqAlone
<1>8. FreqUntouched'
  <2>1. \A q \in C!Process, i \in C!Cpu : FreqWrote(q, i) => FreqWrote(q, i)'
    BY <1>1, <1>2, <1>4 DEF FreqWrote
  <2> QED
    BY <1>3, <2>1 DEF FreqInv, FreqUntouched
<1>9. FreqRestore'
  <2> SUFFICES ASSUME ~raced' PROVE FreqRestore'
    BY DEF FreqRestore
  <2>1. CASE p = C!Main
    BY <1>2, <1>3, <2>1 DEF FreqRestore
  <2>2. CASE p # C!Main
    <3>1. task'[C!Main].pc = "idle"
      BY <1>2, <2>2 DEF C!Process
    <3> QED
      BY <3>1 DEF FreqRestore
  <2> QED
    BY <2>1, <2>2
<1> QED
  BY <1>5, <1>6, <1>7, <1>8, <1>9 DEF FreqInv, C!CpuConstants

LEMMA FreqSmtStep ==
    ASSUME FreqInv, NEW on \in BOOLEAN, C!SetSmt(on)
    PROVE  FreqInv'
<1>1. /\ ~exited /\ sole' = {} /\ before' = C!Mixed
      /\ raced' = (raced \/ task[C!Main].pc # "idle")
      /\ UNCHANGED <<limits, modified, exited, calls, task, partial>>
      /\ online' \subseteq C!Cpu
  BY DEF C!SetSmt
<1>2. \A q \in C!Process : C!Active(q)' <=> C!Active(q)
  BY <1>1 DEF C!Active
<1>3. C!TypeOK' /\ FreqOrdered' /\ C!CpuConstants
  BY <1>1 DEF FreqInv, C!TypeOK, FreqOrdered
<1>4. FreqSoleInv'
  BY <1>1 DEF FreqSoleInv
<1>5. FreqUntouched'
  BY <1>1, <1>2 DEF FreqInv, FreqUntouched, FreqWrote
<1>6. FreqRestore'
  BY <1>1 DEF FreqRestore
<1> QED
  BY <1>3, <1>4, <1>5, <1>6 DEF FreqInv, C!CpuConstants

\* main() returns at once, or after the restore.
LEMMA FreqExitStep ==
    ASSUME FreqInv,
           \/ C!Exit
           \/ /\ ~exited /\ task[C!Main].pc = "idle" /\ ~modified /\ exited' = TRUE
              /\ raced' = (\E p \in Callers : C!Active(p))
              /\ UNCHANGED <<limits, online, modified, calls, task, sole, before, partial>>
    PROVE  FreqInv'
<1>1. /\ exited' = TRUE
      /\ UNCHANGED <<limits, online, modified, calls, task, sole, before, partial>>
  BY DEF C!Exit, C!history
<1>2. \A q \in C!Process : C!Active(q)' <=> C!Active(q)
  BY <1>1 DEF C!Active
<1>3. raced' \in BOOLEAN
  BY DEF C!Exit, C!history, FreqInv, C!TypeOK
<1>4. C!TypeOK' /\ FreqOrdered' /\ C!CpuConstants
  BY <1>1, <1>3 DEF FreqInv, C!TypeOK, FreqOrdered
<1>5. FreqSoleInv'
  <2> SUFFICES ASSUME NEW r \in sole PROVE FreqAlone(r)'
    BY <1>1 DEF FreqSoleInv
  <2>1. FreqAlone(r) /\ r \in C!Process
    BY DEF FreqInv, FreqSoleInv, C!TypeOK
  <2>2. /\ task'[r] = task[r] /\ limits' = limits /\ online' = online
        /\ modified' = modified /\ before' = before
    BY <1>1
  <2>3. \A i \in C!Cpu : FreqWritten(r, i)' = FreqWritten(r, i) /\ FreqUnwritten(r, i)' = FreqUnwritten(r, i)
    BY <2>2 DEF FreqWritten, FreqUnwritten
  <2>4. C!Contiguous' = C!Contiguous
    BY <2>2 DEF C!Contiguous
  <2> QED
    BY <1>2, <2>1, <2>2, <2>3, <2>4 DEF FreqAlone
<1>6. FreqUntouched'
  BY <1>1, <1>2 DEF FreqInv, FreqUntouched, FreqWrote
<1>7. FreqRestore'
  <2>1. CASE C!Exit
    <3> SUFFICES ASSUME ~raced PROVE FreqRestore'
      BY <2>1 DEF C!Exit, C!history, FreqRestore
    <3>1. task[C!Main].pc \in {"ok", "refused", "no_cpu"} /\ raced' = raced
      BY <2>1 DEF C!Exit, C!history
    <3>2. C!Main \in sole /\ task[C!Main].pc # "refused"
      BY <3>1 DEF FreqInv, FreqRestore
    <3>3. \A p \in C!Process : ~C!Active(p)
      BY <3>1, <3>2 DEF FreqInv, FreqSoleInv, FreqAlone, C!Active
    <3> QED
      BY <1>1, <1>2, <3>1, <3>2, <3>3 DEF FreqInv, FreqRestore, C!Contiguous
  <2>2. CASE /\ task[C!Main].pc = "idle" /\ ~modified
             /\ raced' = (\E p \in Callers : C!Active(p))
    <3>1. ~raced' => \A p \in C!Process : ~C!Active(p)
      BY <2>2, FreqFacts DEF FreqInv, C!Active
    <3> QED
      BY <1>1, <1>2, <2>2, <3>1 DEF FreqRestore
  <2> QED
    BY <2>1, <2>2
<1> QED
  BY <1>4, <1>5, <1>6, <1>7 DEF FreqInv, C!CpuConstants
-----------------------------------------------------------------------------

LEMMA FreqInit ==
    ASSUME C!CpuConstants, C!Init
    PROVE  FreqInv
<1>1. \A i \in C!Cpu : limits[i] = C!Hardware /\ C!Hardware \in C!Limits /\ C!Hardware.lo <= C!Hardware.hi
  BY FreqFacts DEF C!Init
<1>2. \A p \in C!Process : task[p] = C!Idle /\ ~C!Active(p)
  <2>1. task = [p \in C!Process |-> C!Idle] /\ C!Idle.pc = "idle"
    BY FreqIdleFacts DEF C!Init
  <2> QED
    BY <2>1 DEF C!Active
<1>3. C!TypeOK
  <2>1. C!Idle \in C!CallType /\ C!Idle.cpu <= C!Idle.count
    BY FreqIdleFacts
  <2>2. task \in [C!Process -> C!CallType] /\ \A p \in C!Process : task[p].cpu <= task[p].count
    BY <2>1 DEF C!Init
  <2>3. limits \in [C!Cpu -> C!Limits] /\ before \in C!Limits \cup {C!Mixed} /\ calls \in 0 .. MaxFreqCalls
    BY <1>1 DEF C!Init, C!CpuConstants
  <2>4. /\ online \subseteq C!Cpu /\ sole \subseteq C!Process
        /\ modified \in BOOLEAN /\ exited \in BOOLEAN /\ partial \in BOOLEAN /\ raced \in BOOLEAN
    BY DEF C!Init
  <2> QED
    BY <2>2, <2>3, <2>4 DEF C!TypeOK
<1>4. FreqOrdered
  BY <1>1, <1>2, FreqIdleFacts, FreqFacts DEF FreqOrdered, C!Idle
<1>5. FreqSoleInv /\ FreqUntouched
  BY <1>1 DEF C!Init, FreqSoleInv, FreqUntouched
<1>6. FreqRestore
  BY <1>2, FreqFacts, FreqIdleFacts DEF C!Init, FreqRestore
<1> QED
  BY <1>3, <1>4, <1>5, <1>6 DEF FreqInv

LEMMA FreqNext ==
    ASSUME FreqInv, C!Next
    PROVE  FreqInv'
<1>1. C!CpuConstants /\ C!Main \in C!Process /\ \A p \in Callers : p \in C!Process /\ p # C!Main
  BY FreqFacts DEF FreqInv
<1>2. ASSUME NEW p \in Callers, C!SetCpuFrequencyLimits(p)
      PROVE  FreqInv'
  <2>1. PICK r \in Requests : C!Begin(p, r)
    BY <1>2 DEF C!SetCpuFrequencyLimits
  <2>2. r \in C!Limits /\ r.lo <= r.hi
    BY <1>1, FreqFacts
  <2>3. calls' \in 0 .. MaxFreqCalls
    BY <1>1, <1>2 DEF C!SetCpuFrequencyLimits, FreqInv, C!TypeOK, C!CpuConstants
  <2>4. /\ task[p].pc = "idle" /\ ~exited /\ exited' = exited
        /\ raced' \in BOOLEAN
        /\ ~raced' => ~raced /\ task[C!Main].pc = "idle"
    BY <1>2 DEF C!SetCpuFrequencyLimits
  <2> QED
    BY <1>1, <2>1, <2>2, <2>3, <2>4, FreqBeginStep
<1>3. ASSUME C!CtrlC
      PROVE  FreqInv'
  <2>1. CASE modified /\ C!Begin(C!Main, C!Hardware) /\ UNCHANGED <<exited, calls>>
    <3>1. C!Hardware \in C!Limits /\ C!Hardware.lo <= C!Hardware.hi
      BY <1>1, FreqFacts
    <3>2. /\ task[C!Main].pc = "idle" /\ ~exited /\ raced' \in BOOLEAN
          /\ ~raced' => \A q \in C!Process : ~C!Active(q)
      BY <1>1, <1>3, FreqFacts DEF C!CtrlC, C!Active
    <3>3. calls' \in 0 .. MaxFreqCalls
      BY <2>1 DEF FreqInv, C!TypeOK
    <3> QED
      BY <1>1, <2>1, <3>1, <3>2, <3>3, FreqBeginStep
  <2>2. CASE ~modified
    BY <1>3, <2>2, FreqExitStep DEF C!CtrlC
  <2> QED
    BY <1>3, <2>1, <2>2 DEF C!CtrlC
<1> QED
  BY <1>1, <1>2, <1>3, FreqReplyStep, FreqReadStep, FreqWriteStep, FreqRefuseStep,
     FreqFinishStep,
     FreqSmtStep, FreqExitStep DEF C!Next

LEMMA FreqStutter ==
    ASSUME FreqInv, UNCHANGED C!vars
    PROVE  FreqInv'
<1>1. UNCHANGED <<limits, online, modified, exited, calls, task, sole, before,
                  partial, raced>>
  BY DEF C!vars
<1>2. \A q \in C!Process : C!Active(q)' <=> C!Active(q)
  BY <1>1 DEF C!Active
<1>3. C!TypeOK' /\ FreqOrdered' /\ C!CpuConstants
  BY <1>1 DEF FreqInv, C!TypeOK, FreqOrdered
<1>4. FreqSoleInv'
  <2> SUFFICES ASSUME NEW r \in sole PROVE FreqAlone(r)'
    BY <1>1 DEF FreqSoleInv
  <2>1. FreqAlone(r) /\ r \in C!Process
    BY DEF FreqInv, FreqSoleInv, C!TypeOK
  <2>2. /\ task'[r] = task[r] /\ limits' = limits /\ online' = online
        /\ modified' = modified /\ before' = before
    BY <1>1
  <2>3. \A i \in C!Cpu : FreqWritten(r, i)' = FreqWritten(r, i) /\ FreqUnwritten(r, i)' = FreqUnwritten(r, i)
    BY <2>2 DEF FreqWritten, FreqUnwritten
  <2>4. C!Contiguous' = C!Contiguous
    BY <2>2 DEF C!Contiguous
  <2> QED
    BY <1>2, <2>1, <2>2, <2>3, <2>4 DEF FreqAlone
<1>5. FreqUntouched'
  BY <1>1, <1>2 DEF FreqInv, FreqUntouched, FreqWrote
<1>6. FreqRestore'
  BY <1>1, <1>2 DEF FreqInv, FreqRestore, C!Contiguous
<1> QED
  BY <1>3, <1>4, <1>5, <1>6 DEF FreqInv, C!CpuConstants

LEMMA FreqSafe ==
    ASSUME FreqInv
    PROVE  C!TypeOK /\ C!RepliesAreTrue /\ C!RestoredOnExit
<1>1. C!RepliesAreTrue
  BY DEF FreqInv, FreqSoleInv, FreqAlone, C!RepliesAreTrue, C!RefusedOnlyBelow,
         C!SuccessIsComplete
<1>2. C!RestoredOnExit
  <2> SUFFICES ASSUME exited, ~raced, C!Contiguous, modified \/ ~partial, NEW i \in online
               PROVE  limits[i] = C!Hardware
    BY DEF C!RestoredOnExit
  <2>1. /\ \A p \in C!Process : ~C!Active(p)
        /\ modified => task[C!Main].pc \in {"ok", "no_cpu"}
        /\ task[C!Main].pc # "idle" =>
              /\ C!Main \in sole /\ task[C!Main].want = C!Hardware
              /\ task[C!Main].pc = "no_cpu" => ~C!Contiguous
    BY DEF FreqInv, FreqRestore
  <2>2. CASE modified
    BY <2>1, <2>2 DEF FreqInv, FreqSoleInv, FreqAlone
  <2>3. CASE ~modified
    <3>1. i \in C!Cpu
      BY DEF FreqInv, C!TypeOK
    <3> QED
      BY <2>1, <2>3, <3>1 DEF FreqInv, FreqUntouched, FreqWrote
  <2> QED
    BY <2>2, <2>3
<1> QED
  BY <1>1, <1>2 DEF FreqInv

-----------------------------------------------------------------------------
ChargeValues == [status : BOOLEAN, start : B!ToSet(Starts), end : B!ToSet(Ends)]

ChargeFileWrite == [file : {"status"}, value : BOOLEAN] \cup [file : {"start", "end"}, value : Nat]

\* What a call has to do: every file at most once, and more than one only with
\* values that the driver takes.
ChargeIsTodo(t) ==
    /\ t \in Seq(ChargeFileWrite) /\ Len(t) <= 3
    /\ \A i, j \in DOMAIN t : t[i].file = t[j].file => i = j
    /\ Len(t) > 1 => \A i \in DOMAIN t : B!Accepted(t[i])

ChargeTrails == [asked : ChargeValues, before : ChargeValues, overlapped : BOOLEAN, apart : BOOLEAN]

ChargeType ==
    /\ ec \in ChargeValues
    /\ page \in B!Settings /\ saved \in B!Settings /\ known \in BOOLEAN
    /\ DOMAIN writes = Writers
    /\ \A c \in Writers : /\ writes[c] = [todo |-> writes[c].todo, step |-> writes[c].step,
                                           set |-> writes[c].set]
                          /\ ChargeIsTodo(writes[c].todo)
    /\ trail \in ChargeTrails

\* The files that t names are the same in u and v.
ChargeSame(u, v, t) == \A i \in DOMAIN t : u[t[i].file] = v[t[i].file]

\* What a call that nothing disturbs still has to do leads to what was asked for,
\* and the files that it has not written are as it found them.
ChargePending(c) ==
    LET r == writes[c]
        w == Head(r.todo)
    IN  /\ trail.asked = B!After(ec, B!Unwritten(c))
        /\ ChargeSame(ec, trail.before, B!Unwritten(c))
        /\ r.step \in {"write", "save"} =>
              r.set = IF r.step = "save" /\ w.file # "status" THEN ec
                      ELSE [ec EXCEPT ![w.file] = B!Stored(w)]

ChargeUndisturbed ==
    ~trail.overlapped =>
        /\ \A c, d \in Writers : B!Busy(c) /\ B!Busy(d) => c = d
        /\ \A c \in Writers : B!Busy(c) => ChargePending(c)
        /\ (\A c \in Writers : ~B!Busy(c)) => ec = trail.asked

\* A call's state between two of its steps, disturbed or not.
ChargeSteps ==
    \A c \in Writers : B!Busy(c) =>
        \/ writes[c].step = "read"
        \/ /\ writes[c].step \in {"write", "save"}
           /\ writes[c].set \in ChargeValues /\ B!Accepted(Head(writes[c].todo))

\* What a page with the lists asked for, alone.
ChargeApart == trail.apart => ~trail.overlapped /\ trail.asked.start < trail.asked.end

ChargeInv == B!ChargeConstants /\ ChargeType /\ ChargeSteps /\ ChargeUndisturbed /\ ChargeApart

-----------------------------------------------------------------------------
(* Charge thresholds *)

LEMMA ChargeLeastExists ==
    ASSUME NEW T, T \subseteq Nat, T # {}
    PROVE  \E k \in T : \A m \in T : k <= m
<1> DEFINE R == {ss \in Nat \X Nat : ss[1] < ss[2]}
<1>1. \E k \in T : \A m \in T : <<m, k>> \notin R
  <2>1. IsWellFoundedOn(R, Nat)
    BY NatLessThanWellFounded DEF OpToRel
  <2> HIDE DEF R
  <2> QED
    BY <2>1, WFMin
<1>2. PICK k \in T : \A m \in T : <<m, k>> \notin R
  BY <1>1
<1>3. ASSUME NEW m \in T PROVE k <= m
  <2>1. m \in Nat /\ k \in Nat /\ <<m, k>> \notin R
    BY <1>2
  <2>2. <<m, k>>[1] = m /\ <<m, k>>[2] = k
    OBVIOUS
  <2>3. ~(m < k)
    BY <2>1, <2>2
  <2> QED
    BY <2>1, <2>3
<1> QED
  BY <1>2, <1>3

LEMMA ChargeThresholdFacts ==
    ASSUME NEW list, B!Thresholds(list)
    PROVE  /\ DOMAIN list \subseteq Nat /\ DOMAIN list # {}
           /\ \A i \in DOMAIN list : list[i] \in 1 .. 100
           /\ B!ToSet(list) \subseteq 1 .. 100
<1>1. list \in Seq(1 .. 100) /\ list # <<>>
  BY DEF B!Thresholds
<1>2. Len(list) \in Nat /\ Len(list) # 0 /\ DOMAIN list = 1 .. Len(list)
  BY <1>1
<1>3. \A i \in 1 .. Len(list) : list[i] \in 1 .. 100
  <2> DEFINE S == 1 .. 100
  <2>1. list \in Seq(S)
    BY <1>1
  <2> HIDE DEF S
  <2>2. \A i \in 1 .. Len(list) : list[i] \in S
    BY <2>1, ElementOfSeq
  <2> QED
    BY <2>2 DEF S
<1>4. \A i \in DOMAIN list : list[i] \in 1 .. 100
  BY <1>2, <1>3
<1>5. DOMAIN list \subseteq Nat /\ DOMAIN list # {}
  BY <1>2
<1> QED
  BY <1>4, <1>5 DEF B!ToSet

\* The closest threshold is one of the list, and a threshold of the list is its
\* own closest.
LEMMA ChargeClosestFacts ==
    ASSUME NEW list, B!Thresholds(list), NEW v \in Nat
    PROVE  /\ B!Closest(v, list) \in B!ToSet(list)
           /\ v \in B!ToSet(list) => B!Closest(v, list) = v
<1> DEFINE D(i) == B!Distance(v, list[i])
           Best(i) == \A j \in DOMAIN list : D(i) < D(j) \/ (D(i) = D(j) /\ i <= j)
<1>1. /\ DOMAIN list \subseteq Nat /\ DOMAIN list # {}
      /\ \A i \in DOMAIN list : list[i] \in 1 .. 100
  BY ChargeThresholdFacts
<1>2. \A i \in DOMAIN list : D(i) \in Nat
  BY <1>1 DEF B!Distance
<1>3. \E i \in DOMAIN list : Best(i)
  <2> HIDE DEF D
  <2> DEFINE T == {D(i) : i \in DOMAIN list}
  <2>1. T \subseteq Nat /\ T # {}
    BY <1>1, <1>2
  <2>2. PICK d \in T : \A m \in T : d <= m
    <3> HIDE DEF T
    <3> QED
      BY <2>1, ChargeLeastExists
  <2> DEFINE U == {i \in DOMAIN list : D(i) = d}
  <2>3. U \subseteq Nat /\ U # {}
    BY <1>1, <2>2
  <2>4. PICK i \in U : \A j \in U : i <= j
    <3> HIDE DEF U
    <3> QED
      BY <2>3, ChargeLeastExists
  <2>5. i \in DOMAIN list /\ D(i) = d
    BY <2>4
  <2>6. ASSUME NEW j \in DOMAIN list
        PROVE  D(i) < D(j) \/ (D(i) = D(j) /\ i <= j)
    <3>1. D(j) \in Nat /\ d \in Nat /\ d <= D(j)
      BY <1>2, <2>2, <2>5
    <3>2. D(j) = d => i <= j
      BY <2>4
    <3> QED
      BY <2>5, <3>1, <3>2
  <2> QED
    BY <2>5, <2>6
<1>4. PICK c \in DOMAIN list : Best(c) /\ B!Closest(v, list) = list[c]
  BY <1>3 DEF B!Closest
<1>5. ASSUME NEW i \in DOMAIN list, list[i] = v
      PROVE  list[c] = v
  <2>1. D(i) = 0
    BY <1>1, <1>5 DEF B!Distance
  <2>2. D(c) = 0
    <3> HIDE DEF D
    <3> QED
      BY <1>2, <1>4, <2>1
  <2> QED
    BY <1>1, <2>2 DEF B!Distance
<1> QED
  BY <1>4, <1>5 DEF B!ToSet

\* The start threshold that the page falls back to.
LEMMA ChargeBelowFacts ==
    ASSUME B!ChargeConstants, NEW s, s.end \in B!ToSet(Ends)
    PROVE  B!Below(s) # {} /\ B!LastOf(B!Below(s)) \in B!ToSet(Starts) /\ B!LastOf(B!Below(s)) < s.end
<1> DEFINE below == B!Below(s)
<1>0. below = {v \in B!ToSet(Starts) : v < s.end}
  BY DEF B!Below
<1>1. B!ToSet(Starts) \subseteq 1 .. 100 /\ B!ToSet(Ends) \subseteq 1 .. 100
  BY ChargeThresholdFacts DEF B!ChargeConstants
<1>2. below # {}
  BY <1>0 DEF B!ChargeConstants, B!ToSet
<1> HIDE DEF below
<1> DEFINE T == {100 - v : v \in below}
<1>3. T \subseteq Nat /\ T # {}
  BY <1>0, <1>1, <1>2
<1>4. PICK k \in T : \A m \in T : k <= m
  <2> HIDE DEF T
  <2> QED
    BY <1>3, ChargeLeastExists
<1>5. PICK v \in below : k = 100 - v
  BY <1>4
<1>6. ASSUME NEW w \in below PROVE w <= v
  <2>1. k <= 100 - w
    BY <1>4
  <2> QED
    BY <1>0, <1>1, <1>5, <2>1
<1>7. B!LastOf(below) \in below
  BY <1>5, <1>6 DEF B!LastOf
<1> QED
  BY <1>0, <1>2, <1>7 DEF below

LEMMA ChargeValuesFacts ==
    ASSUME B!ChargeConstants
    PROVE  /\ B!ToSet(Starts) \subseteq 1 .. 100 /\ B!ToSet(Ends) \subseteq 1 .. 100
           /\ \A w \in ChargeFileWrite :
                 /\ w.file \in {"status", "start", "end"}
                 /\ w.file = "status" => B!Stored(w) = w.value /\ w.value \in BOOLEAN /\ B!Accepted(w)
                 /\ w.file = "start" => B!Stored(w) \in B!ToSet(Starts)
                 /\ w.file = "end" => B!Stored(w) \in B!ToSet(Ends)
           /\ \A v \in ChargeValues, w \in ChargeFileWrite : [v EXCEPT ![w.file] = B!Stored(w)] \in ChargeValues
<1>1. B!ToSet(Starts) \subseteq 1 .. 100 /\ B!ToSet(Ends) \subseteq 1 .. 100
  BY ChargeThresholdFacts DEF B!ChargeConstants
<1>2. ASSUME NEW w \in ChargeFileWrite
      PROVE  /\ w.file \in {"status", "start", "end"}
             /\ w.file = "status" => B!Stored(w) = w.value /\ w.value \in BOOLEAN /\ B!Accepted(w)
             /\ w.file = "start" => B!Stored(w) \in B!ToSet(Starts)
             /\ w.file = "end" => B!Stored(w) \in B!ToSet(Ends)
  <2>1. w.file # "status" => w.value \in Nat
    BY DEF ChargeFileWrite
  <2>2. w.value \in Nat => /\ B!Closest(w.value, Starts) \in B!ToSet(Starts)
                           /\ B!Closest(w.value, Ends) \in B!ToSet(Ends)
    BY ChargeClosestFacts DEF B!ChargeConstants
  <2> QED
    BY <2>1, <2>2 DEF ChargeFileWrite, B!Stored, B!Accepted
<1>3. ASSUME NEW v \in ChargeValues, NEW w \in ChargeFileWrite
      PROVE  [v EXCEPT ![w.file] = B!Stored(w)] \in ChargeValues
  <2>1. CASE w.file = "status"
    BY <1>2, <2>1 DEF ChargeValues
  <2>2. CASE w.file = "start"
    BY <1>2, <2>2 DEF ChargeValues
  <2>3. CASE w.file = "end"
    BY <1>2, <2>3 DEF ChargeValues
  <2> QED
    BY <1>2, <2>1, <2>2, <2>3
<1> QED
  BY <1>1, <1>2, <1>3

\* What a call asks for of a file: its one accepted write to it, if there is one.
LEMMA ChargeAskedFacts ==
    ASSUME NEW t, ChargeIsTodo(t), NEW f, NEW old
    PROVE  /\ \A i \in DOMAIN t : t[i].file = f /\ B!Accepted(t[i]) => B!Asked(f, old, t) = B!Stored(t[i])
           /\ (\A i \in DOMAIN t : t[i].file = f => ~B!Accepted(t[i])) => B!Asked(f, old, t) = old
<1> DEFINE set == {w \in B!ToSet(t) : w.file = f /\ B!Accepted(w)}
<1>1. B!Asked(f, old, t) = IF set = {} THEN old ELSE B!Stored(CHOOSE w \in set : TRUE)
  BY DEF B!Asked
<1>2. ASSUME NEW i \in DOMAIN t, t[i].file = f, B!Accepted(t[i])
      PROVE  set = {t[i]}
  BY <1>2 DEF ChargeIsTodo, B!ToSet
<1>3. ASSUME \A i \in DOMAIN t : t[i].file = f => ~B!Accepted(t[i])
      PROVE  set = {}
  BY <1>3 DEF B!ToSet
<1> HIDE DEF set
<1> QED
  BY <1>1, <1>2, <1>3

LEMMA ChargeTailFacts ==
    ASSUME NEW t, ChargeIsTodo(t), t # <<>>
    PROVE  /\ Head(t) = t[1] /\ 1 \in DOMAIN t /\ Head(t) \in ChargeFileWrite
           /\ Len(t) \in 1 .. 3
           /\ ChargeIsTodo(Tail(t)) /\ Len(Tail(t)) = Len(t) - 1
           /\ \A i \in DOMAIN Tail(t) : /\ i + 1 \in DOMAIN t /\ Tail(t)[i] = t[i + 1]
                                        /\ t[i + 1].file # Head(t).file
           /\ \A i \in DOMAIN t : i = 1 \/ (i - 1 \in DOMAIN Tail(t) /\ t[i] = Tail(t)[i - 1])
           /\ ~B!Accepted(Head(t)) => Tail(t) = <<>> /\ t = <<Head(t)>>
<1>1. t \in Seq(ChargeFileWrite) /\ Len(t) <= 3 /\ Len(t) \in Nat /\ Len(t) # 0
  BY DEF ChargeIsTodo
<1>2. DOMAIN t = 1 .. Len(t) /\ Tail(t) \in Seq(ChargeFileWrite) /\ Len(Tail(t)) = Len(t) - 1
      /\ DOMAIN Tail(t) = 1 .. (Len(t) - 1) /\ Head(t) = t[1]
      /\ \A i \in 1 .. (Len(t) - 1) : Tail(t)[i] = t[i + 1]
  BY <1>1
<1>3. \A i \in DOMAIN Tail(t) : i + 1 \in DOMAIN t /\ i + 1 # 1
  BY <1>1, <1>2
<1>4. \A i \in DOMAIN Tail(t) : /\ i + 1 \in DOMAIN t /\ Tail(t)[i] = t[i + 1]
                                /\ t[i + 1].file # Head(t).file
  <2>1. 1 \in DOMAIN t
    BY <1>1, <1>2
  <2> QED
    BY <1>2, <1>3, <2>1 DEF ChargeIsTodo
<1>5. \A i \in DOMAIN t : i = 1 \/ (i - 1 \in DOMAIN Tail(t) /\ t[i] = Tail(t)[i - 1])
  BY <1>1, <1>2
<1>6. ChargeIsTodo(Tail(t))
  <2>1. ASSUME NEW i \in DOMAIN Tail(t), NEW j \in DOMAIN Tail(t),
               Tail(t)[i].file = Tail(t)[j].file
        PROVE  i = j
    <3>1. i + 1 = j + 1
      BY <1>4, <2>1 DEF ChargeIsTodo
    <3> QED
      BY <1>2, <3>1
  <2>2. Len(Tail(t)) > 1 => \A i \in DOMAIN Tail(t) : B!Accepted(Tail(t)[i])
    BY <1>1, <1>2, <1>4 DEF ChargeIsTodo
  <2> QED
    BY <1>1, <1>2, <2>1, <2>2 DEF ChargeIsTodo
<1>7. ~B!Accepted(Head(t)) => Tail(t) = <<>> /\ t = <<Head(t)>>
  <2> SUFFICES ASSUME ~B!Accepted(Head(t)) PROVE Tail(t) = <<>> /\ t = <<Head(t)>>
    OBVIOUS
  <2>1. Len(t) = 1
    BY <1>1, <1>2 DEF ChargeIsTodo
  <2>2. t = <<t[1]>>
    BY <1>1, <2>1
  <2> QED
    BY <1>2, <2>1, <2>2
<1> QED
  BY <1>1, <1>2, <1>4, <1>5, <1>6, <1>7

\* Doing the next write leaves behind what the whole call asked for.
LEMMA ChargeAfterHead ==
    ASSUME B!ChargeConstants, NEW t, ChargeIsTodo(t), t # <<>>, NEW v \in ChargeValues, B!Accepted(Head(t))
    PROVE  B!After([v EXCEPT ![Head(t).file] = B!Stored(Head(t))], Tail(t)) = B!After(v, t)
<1> DEFINE w == Head(t)
           r == Tail(t)
           u == [v EXCEPT ![w.file] = B!Stored(w)]
<1>1. /\ w = t[1] /\ 1 \in DOMAIN t /\ ChargeIsTodo(r) /\ w \in ChargeFileWrite /\ B!Accepted(w)
      /\ \A i \in DOMAIN r : /\ i + 1 \in DOMAIN t /\ r[i] = t[i + 1]
                                   /\ t[i + 1].file # w.file
      /\ \A i \in DOMAIN t : i = 1 \/ (i - 1 \in DOMAIN r /\ t[i] = r[i - 1])
  BY ChargeTailFacts
<1>2. /\ w.file = "status" => u.status = B!Stored(w) /\ u.start = v.start /\ u.end = v.end
      /\ w.file = "start" => u.status = v.status /\ u.start = B!Stored(w) /\ u.end = v.end
      /\ w.file = "end" => u.status = v.status /\ u.start = v.start /\ u.end = B!Stored(w)
      /\ w.file \in {"status", "start", "end"}
  BY <1>1, ChargeValuesFacts DEF ChargeValues
<1> HIDE DEF u, w, r
<1>3. ASSUME NEW f, NEW old, f # w.file
      PROVE  B!Asked(f, old, r) = B!Asked(f, old, t)
  <2>1. CASE \E i \in DOMAIN r : r[i].file = f /\ B!Accepted(r[i])
    <3>1. PICK i \in DOMAIN r : r[i].file = f /\ B!Accepted(r[i])
      BY <2>1
    <3>2. i + 1 \in DOMAIN t /\ t[i + 1] = r[i]
      BY <1>1
    <3>3. B!Asked(f, old, r) = B!Stored(r[i])
      BY <1>1, <3>1, ChargeAskedFacts
    <3>4. B!Asked(f, old, t) = B!Stored(t[i + 1])
      BY <3>1, <3>2, ChargeAskedFacts
    <3> QED
      BY <3>2, <3>3, <3>4
  <2>2. CASE \A i \in DOMAIN r : r[i].file = f => ~B!Accepted(r[i])
    <3>1. \A i \in DOMAIN t : t[i].file = f => ~B!Accepted(t[i])
      BY <1>1, <1>3, <2>2
    <3>2. B!Asked(f, old, t) = old
      BY <3>1, ChargeAskedFacts
    <3>3. B!Asked(f, old, r) = old
      BY <1>1, <2>2, ChargeAskedFacts
    <3> QED
      BY <3>2, <3>3
  <2> QED
    BY <2>1, <2>2
<1>4. ASSUME NEW old, NEW new
      PROVE  B!Asked(w.file, B!Stored(w), r) = B!Asked(w.file, old, t)
  <2>1. B!Asked(w.file, old, t) = B!Stored(w)
    BY <1>1, ChargeAskedFacts
  <2>2. B!Asked(w.file, B!Stored(w), r) = B!Stored(w)
    BY <1>1, ChargeAskedFacts
  <2> QED
    BY <2>1, <2>2
<1> QED
  BY <1>2, <1>3, <1>4 DEF B!After, u, w, r

LEMMA ChargeAfterNothing ==
    ASSUME B!ChargeConstants, NEW v \in ChargeValues
    PROVE  /\ B!After(v, <<>>) = v
           /\ \A w \in ChargeFileWrite : ~B!Accepted(w) => B!After(v, <<w>>) = v
<1>1. ASSUME NEW t, ChargeIsTodo(t), \A i \in DOMAIN t : ~B!Accepted(t[i])
      PROVE  B!After(v, t) = v
  <2>1. \A f, old : B!Asked(f, old, t) = old
    BY <1>1, ChargeAskedFacts
  <2> QED
    BY <2>1 DEF B!After, ChargeValues
<1>2. ChargeIsTodo(<<>>) /\ DOMAIN <<>> = {}
  BY DEF ChargeIsTodo
<1>3. \A w \in ChargeFileWrite : ChargeIsTodo(<<w>>) /\ \A i \in DOMAIN <<w>> : <<w>>[i] = w
  BY DEF ChargeIsTodo
<1> QED
  BY <1>1, <1>2, <1>3

LEMMA ChargeAfterType ==
    ASSUME B!ChargeConstants, NEW v \in ChargeValues, NEW t, ChargeIsTodo(t)
    PROVE  B!After(v, t) \in ChargeValues
<1>1. \A i \in DOMAIN t : t[i] \in ChargeFileWrite
  BY ElementOfSeq DEF ChargeIsTodo
<1>2. ASSUME NEW f \in {"status", "start", "end"}, NEW old, NEW T, old \in T,
             \A i \in DOMAIN t : t[i].file = f => B!Stored(t[i]) \in T
      PROVE  B!Asked(f, old, t) \in T
  BY <1>2, ChargeAskedFacts
<1>3. /\ \A i \in DOMAIN t : t[i].file = "status" => B!Stored(t[i]) \in BOOLEAN
      /\ \A i \in DOMAIN t : t[i].file = "start" => B!Stored(t[i]) \in B!ToSet(Starts)
      /\ \A i \in DOMAIN t : t[i].file = "end" => B!Stored(t[i]) \in B!ToSet(Ends)
  BY <1>1, ChargeValuesFacts
<1>4. v.status \in BOOLEAN /\ v.start \in B!ToSet(Starts) /\ v.end \in B!ToSet(Ends)
  BY DEF ChargeValues
<1>5. /\ B!Asked("status", v.status, t) \in BOOLEAN
      /\ B!Asked("start", v.start, t) \in B!ToSet(Starts)
      /\ B!Asked("end", v.end, t) \in B!ToSet(Ends)
  BY <1>2, <1>3, <1>4
<1> QED
  BY <1>5 DEF B!After, ChargeValues

\* What a page with the thresholds enabled asks for.
LEMMA ChargeWritesFacts ==
    ASSUME B!ChargeConstants, NEW s \in B!Settings, s.on, NEW v \in ChargeValues
    PROVE  /\ ChargeIsTodo(B!Writes(s)) /\ B!Writes(s) # <<>>
           /\ B!After(v, B!Writes(s)) = [status |-> TRUE, start |-> s.start, end |-> s.end]
<1> DEFINE t == B!Writes(s)
<1>1. /\ s.start \in B!ToSet(Starts) /\ s.end \in B!ToSet(Ends)
      /\ s.start \in 1 .. 100 /\ s.end \in 1 .. 100
  BY ChargeValuesFacts DEF B!Settings
<1>2. t = <<B!File("status", TRUE), B!File("start", s.start), B!File("end", s.end)>>
  BY DEF B!Writes
<1>3. /\ t \in Seq(ChargeFileWrite) /\ Len(t) = 3 /\ DOMAIN t = 1 .. 3
      /\ t[1] = B!File("status", TRUE) /\ t[2] = B!File("start", s.start)
      /\ t[3] = B!File("end", s.end)
  BY <1>1, <1>2 DEF B!File, ChargeFileWrite
<1> HIDE DEF t
<1>4. /\ t[1].file = "status" /\ B!Accepted(t[1]) /\ B!Stored(t[1]) = TRUE
      /\ t[2].file = "start" /\ B!Accepted(t[2]) /\ B!Stored(t[2]) = s.start
      /\ t[3].file = "end" /\ B!Accepted(t[3]) /\ B!Stored(t[3]) = s.end
  <2>1. B!Closest(s.start, Starts) = s.start /\ B!Closest(s.end, Ends) = s.end
    BY <1>1, ChargeClosestFacts DEF B!ChargeConstants
  <2>2. /\ t[1].file = "status" /\ t[1].value = TRUE
        /\ t[2].file = "start" /\ t[2].value = s.start
        /\ t[3].file = "end" /\ t[3].value = s.end
    BY <1>3 DEF B!File
  <2>3. B!Accepted(t[1]) /\ B!Stored(t[1]) = TRUE
    BY <2>2 DEF B!Accepted, B!Stored
  <2>4. B!Accepted(t[2]) /\ B!Stored(t[2]) = s.start
    BY <1>1, <2>1, <2>2 DEF B!Accepted, B!Stored
  <2>5. B!Accepted(t[3]) /\ B!Stored(t[3]) = s.end
    BY <1>1, <2>1, <2>2 DEF B!Accepted, B!Stored
  <2> QED
    BY <2>2, <2>3, <2>4, <2>5
<1>5. ChargeIsTodo(t)
  <2>1. \A i \in DOMAIN t : i = 1 \/ i = 2 \/ i = 3
    BY <1>3
  <2>2. \A i, j \in DOMAIN t : t[i].file = t[j].file => i = j
    BY <1>4, <2>1
  <2>3. \A i \in DOMAIN t : B!Accepted(t[i])
    BY <1>4, <2>1
  <2>4. t \in Seq(ChargeFileWrite) /\ Len(t) <= 3
    BY <1>3
  <2> QED
    BY <2>2, <2>3, <2>4 DEF ChargeIsTodo
<1>6. /\ B!Asked("status", v.status, t) = TRUE /\ B!Asked("start", v.start, t) = s.start
      /\ B!Asked("end", v.end, t) = s.end
  <2>1. 1 \in DOMAIN t /\ 2 \in DOMAIN t /\ 3 \in DOMAIN t
    BY <1>3
  <2> QED
    BY <1>4, <1>5, <2>1, ChargeAskedFacts
<1>7. B!After(v, t) = [status |-> TRUE, start |-> s.start, end |-> s.end]
  BY <1>6 DEF B!After
<1>8. t # <<>>
  <2>1. Len(t) = 3 /\ Len(<<>>) = 0
    BY <1>3
  <2> QED
    BY <2>1
<1> QED
  BY <1>5, <1>7, <1>8 DEF t

-----------------------------------------------------------------------------

\* A call that fails leaves what it found of the files it has not written.
LEMMA ChargeWithoutFacts ==
    ASSUME B!ChargeConstants, NEW u \in ChargeValues, NEW v \in ChargeValues, NEW t
    PROVE  /\ B!Without(u, v, t) \in ChargeValues
           /\ B!OnlyStatus(t) => /\ B!Without(u, v, t).start = u.start
                               /\ B!Without(u, v, t).end = u.end
<1> DEFINE named(f) == \E w \in B!ToSet(t) : w.file = f
           s == IF named("status") THEN v.status ELSE u.status
           a == IF named("start") THEN v.start ELSE u.start
           b == IF named("end") THEN v.end ELSE u.end
<1>1. B!Without(u, v, t) = [status |-> s, start |-> a, end |-> b]
  <2> DEFINE g == B!Without(u, v, t)
  <2>1. g = [f \in {"status", "start", "end"} |-> IF named(f) THEN v[f] ELSE u[f]]
    BY DEF B!Without
  <2>2. g["status"] = s /\ g["start"] = a /\ g["end"] = b
    <3> HIDE DEF named
    <3> QED
      BY <2>1
  <2> HIDE DEF g, s, a, b, named
  <2>3. g = [status |-> g["status"], start |-> g["start"], end |-> g["end"]]
    BY <2>1
  <2>4. g = [status |-> s, start |-> a, end |-> b]
    BY <2>2, <2>3
  <2> QED
    BY <2>4 DEF g
<1>2. s \in BOOLEAN /\ a \in B!ToSet(Starts) /\ b \in B!ToSet(Ends)
  BY DEF ChargeValues
<1>3. B!OnlyStatus(t) => ~named("start") /\ ~named("end")
  BY DEF B!OnlyStatus
<1> HIDE DEF named
<1>4. B!OnlyStatus(t) => a = u.start /\ b = u.end
  BY <1>3
<1> HIDE DEF s, a, b
<1> QED
  BY <1>1, <1>2, <1>4 DEF ChargeValues

LEMMA ChargeWithoutPending ==
    ASSUME B!ChargeConstants, NEW u \in ChargeValues, NEW v \in ChargeValues, NEW e \in ChargeValues,
           NEW t, ChargeIsTodo(t), u = B!After(e, t), ChargeSame(e, v, t)
    PROVE  B!Without(u, v, t) = e
<1> DEFINE named(f) == \E w \in B!ToSet(t) : w.file = f
           g == B!Without(u, v, t)
<1>1. g = [f \in {"status", "start", "end"} |-> IF named(f) THEN v[f] ELSE u[f]]
  BY DEF B!Without
<1>2. u = [status |-> B!Asked("status", e.status, t), start |-> B!Asked("start", e.start, t),
           end |-> B!Asked("end", e.end, t)]
  BY DEF B!After
<1>3. ASSUME NEW f \in {"status", "start", "end"} PROVE g[f] = e[f]
  <2>0. g[f] = IF named(f) THEN v[f] ELSE u[f]
    <3> HIDE DEF named, g
    <3> QED
      BY <1>1
  <2>1. CASE named(f)
    <3>1. PICK i \in DOMAIN t : t[i].file = f
      BY <2>1 DEF B!ToSet
    <3>2. e[f] = v[f]
      BY <3>1 DEF ChargeSame
    <3> QED
      BY <2>0, <2>1, <3>2
  <2>2. CASE ~named(f)
    <3>1. \A i \in DOMAIN t : t[i].file # f
      BY <2>2 DEF B!ToSet
    <3>2. \A old : B!Asked(f, old, t) = old
      BY <3>1, ChargeAskedFacts
    <3>3. u[f] = e[f]
      BY <1>2, <3>2
    <3> QED
      BY <2>0, <2>2, <3>3
  <2> QED
    BY <2>1, <2>2
<1>4. e = [status |-> e["status"], start |-> e["start"], end |-> e["end"]]
  BY DEF ChargeValues
<1> HIDE DEF g, named
<1>5. g = [status |-> g["status"], start |-> g["start"], end |-> g["end"]]
  BY <1>1
<1>6. g["status"] = e["status"] /\ g["start"] = e["start"] /\ g["end"] = e["end"]
  BY <1>3
<1> QED
  BY <1>4, <1>5, <1>6 DEF g

\* A write of the next file leads to what was asked for as well.
LEMMA ChargeAdvance ==
    ASSUME B!ChargeConstants, NEW v \in ChargeValues, NEW b, NEW t, ChargeIsTodo(t), t # <<>>,
           B!Accepted(Head(t)), ChargeSame(v, b, t), NEW e,
           e = [v EXCEPT ![Head(t).file] = B!Stored(Head(t))]
    PROVE  /\ e \in ChargeValues
           /\ B!After(e, Tail(t)) = B!After(v, t)
           /\ ChargeSame(e, b, Tail(t))
<1>1. Head(t) \in ChargeFileWrite
  BY ChargeTailFacts
<1>2. e \in ChargeValues
  BY <1>1, ChargeValuesFacts
<1>3. B!After(e, Tail(t)) = B!After(v, t)
  BY ChargeAfterHead
<1>4. ASSUME NEW i \in DOMAIN Tail(t) PROVE e[Tail(t)[i].file] = b[Tail(t)[i].file]
  <2>1. i + 1 \in DOMAIN t /\ Tail(t)[i] = t[i + 1] /\ t[i + 1].file # Head(t).file
    BY ChargeTailFacts
  <2>2. v[t[i + 1].file] = b[t[i + 1].file]
    BY <2>1 DEF ChargeSame
  <2> DEFINE f == t[i + 1].file
             h == Head(t).file
  <2>3. f # h /\ f \in {"status", "start", "end"}
    <3>1. t[i + 1] \in ChargeFileWrite
      BY <2>1, ElementOfSeq DEF ChargeIsTodo
    <3> QED
      BY <2>1, <3>1 DEF ChargeFileWrite
  <2>4. DOMAIN v = {"status", "start", "end"}
    BY DEF ChargeValues
  <2>5. e[f] = v[f]
    <3> HIDE DEF f, h
    <3>1. e = [v EXCEPT ![h] = B!Stored(Head(t))]
      BY DEF h
    <3> QED
      BY <2>3, <2>4, <3>1
  <2> QED
    BY <2>1, <2>2, <2>5
<1> QED
  BY <1>2, <1>3, <1>4 DEF ChargeSame

\* Without its next file, which has been written.
LEMMA ChargeSameTail ==
    ASSUME NEW u, NEW v, NEW t, ChargeIsTodo(t), t # <<>>, ChargeSame(u, v, t)
    PROVE  ChargeSame(u, v, Tail(t))
BY ChargeTailFacts DEF ChargeSame

LEMMA ChargeStatusKeeps ==
    ASSUME NEW v \in ChargeValues, NEW t, ChargeIsTodo(t), B!OnlyStatus(t)
    PROVE  B!After(v, t).start = v.start /\ B!After(v, t).end = v.end
<1>1. \A i \in DOMAIN t : t[i].file = "status"
  BY DEF B!OnlyStatus, B!ToSet
<1>2. /\ \A old : B!Asked("start", old, t) = old
      /\ \A old : B!Asked("end", old, t) = old
  BY <1>1, ChargeAskedFacts
<1> QED
  BY <1>2 DEF B!After

-----------------------------------------------------------------------------

LEMMA ChargeIdleWrites ==
    /\ B!Idle.todo = <<>> /\ B!Idle.step = "read" /\ ChargeIsTodo(<<>>)
    /\ B!Idle = [todo |-> B!Idle.todo, step |-> B!Idle.step, set |-> B!Idle.set]
BY DEF B!Idle, ChargeIsTodo

LEMMA ChargeInit ==
    ASSUME B!ChargeConstants, B!Init
    PROVE  ChargeInv
<1>1. /\ Starts \in Seq(1 .. 100) /\ Starts # <<>> /\ Ends \in Seq(1 .. 100) /\ Ends # <<>>
      /\ Len(Starts) \in Nat /\ DOMAIN Starts = 1 .. Len(Starts) /\ Len(Starts) # 0
      /\ Len(Ends) \in Nat /\ DOMAIN Ends = 1 .. Len(Ends) /\ Len(Ends) # 0
  BY DEF B!ChargeConstants, B!Thresholds
<1>2. /\ 1 \in DOMAIN Starts /\ 1 \in DOMAIN Ends
      /\ \A i \in DOMAIN Starts : i = 1 \/ 1 < i
  BY <1>1
<1>3. Starts[1] < Ends[1]
  <2>1. PICK j \in DOMAIN Starts : Starts[j] < Ends[1]
    BY <1>2 DEF B!ChargeConstants
  <2>2. Starts[1] \in 1 .. 100 /\ Starts[j] \in 1 .. 100 /\ Ends[1] \in 1 .. 100
    BY <1>2, ChargeThresholdFacts DEF B!ChargeConstants
  <2>3. \A i, k \in DOMAIN Starts : i < k => Starts[i] < Starts[k]
    BY DEF B!ChargeConstants, B!Thresholds
  <2>4. Starts[1] <= Starts[j]
    <3>1. CASE j = 1
      BY <2>2, <3>1
    <3>2. CASE 1 < j
      <4>1. Starts[1] < Starts[j]
        BY <1>2, <2>3, <3>2
      <4> HIDE <2>3
      <4> QED
        BY <2>2, <4>1
    <3> QED
      BY <1>2, <3>1, <3>2
  <2> DEFINE lowest == Starts[1]
             below == Starts[j]
             end == Ends[1]
  <2>5. /\ lowest \in Int /\ below \in Int /\ end \in Int
        /\ lowest <= below /\ below < end
    BY <2>1, <2>2, <2>4
  <2> HIDE DEF lowest, below, end
  <2>6. lowest < end
    BY <2>5
  <2> QED
    BY <2>6 DEF lowest, end
<1>4. ec \in ChargeValues /\ ec.start < ec.end
  BY <1>2, <1>3 DEF B!Init, ChargeValues, B!ToSet
<1>5. page \in B!Settings /\ saved \in B!Settings /\ known \in BOOLEAN
  BY DEF B!Init, B!Settings, B!ChargeConstants
<1>6. \A c \in Writers : writes[c] = B!Idle /\ ~B!Busy(c)
  BY ChargeIdleWrites DEF B!Init, B!Busy
<1>7. trail \in ChargeTrails /\ trail.asked = ec /\ ~trail.overlapped
  BY <1>4 DEF B!Init, ChargeTrails
<1>8. ChargeType
  <2>1. \A c \in Writers : /\ writes[c] = [todo |-> writes[c].todo, step |-> writes[c].step,
                                           set |-> writes[c].set]
                           /\ ChargeIsTodo(writes[c].todo)
    BY <1>6, ChargeIdleWrites
  <2>2. DOMAIN writes = Writers
    BY DEF B!Init
  <2> QED
    BY <1>4, <1>5, <1>7, <2>1, <2>2 DEF ChargeType
<1>9. ChargeSteps /\ ChargeUndisturbed /\ ChargeApart
  BY <1>4, <1>6, <1>7 DEF ChargeSteps, ChargeUndisturbed, ChargeApart
<1> QED
  BY <1>8, <1>9 DEF ChargeInv

\* The page changes, or nothing does.
LEMMA ChargePageStep ==
    ASSUME ChargeInv, UNCHANGED <<ec, writes, trail>>,
           page' \in B!Settings, saved' \in B!Settings, known' \in BOOLEAN
    PROVE  ChargeInv'
<1>1. ChargeType' /\ ChargeSteps' /\ ChargeApart'
  BY DEF ChargeInv, ChargeType, ChargeSteps, ChargeApart, B!Busy, ChargeValues,
         B!Settings, ChargeTrails
<1>2. \A c \in Writers : B!Busy(c)' = B!Busy(c) /\ ChargePending(c)' = ChargePending(c)
  BY DEF B!Busy, ChargePending, B!Unwritten
<1>3. ChargeUndisturbed'
  BY <1>2 DEF ChargeInv, ChargeUndisturbed
<1> QED
  BY <1>1, <1>3 DEF ChargeInv, B!ChargeConstants

LEMMA ChargeValidatedFacts ==
    ASSUME B!ChargeConstants, NEW s \in B!Settings
    PROVE  /\ B!Validated(s) \in B!Settings /\ B!Validated(s).on = s.on
           /\ known /\ s.on => B!Validated(s).start < B!Validated(s).end
<1>1. s.end \in B!ToSet(Ends) /\ s.start \in 1 .. 100 /\ s.end \in 1 .. 100
  BY ChargeValuesFacts DEF B!Settings
<1> DEFINE top == B!LastOf(B!Below(s))
           moved == [s EXCEPT !.start = top]
<1>2. B!Below(s) # {} /\ top \in B!ToSet(Starts) /\ top < s.end
  BY <1>1, ChargeBelowFacts
<1>3. B!Validated(s) = IF known /\ s.on /\ s.start >= s.end THEN moved ELSE s
  BY <1>2 DEF B!Validated
<1> HIDE DEF top
<1>4. moved \in B!Settings /\ moved.on = s.on /\ moved.start < moved.end
  BY <1>2 DEF B!Settings
<1> HIDE DEF moved
<1>5. s.start >= s.end \/ s.start < s.end
  BY <1>1
<1> QED
  BY <1>3, <1>4, <1>5

LEMMA ChargePageSteps ==
    ASSUME ChargeInv,
           \/ B!Toggle \/ B!Frame \/ B!AvailableThresholds \/ B!Restart
           \/ \E v \in B!ToSet(Starts) : B!PickStart(v)
           \/ \E v \in B!ToSet(Ends) : B!PickEnd(v)
    PROVE  ChargeInv'
<1>1. page \in B!Settings /\ saved \in B!Settings /\ known \in BOOLEAN /\ B!ChargeConstants
  BY DEF ChargeInv, ChargeType
<1>2. ASSUME NEW s \in B!Settings, B!Edit(s) PROVE ChargeInv'
  BY <1>1, <1>2, ChargeValidatedFacts, ChargePageStep DEF B!Edit
<1>3. CASE B!Toggle
  <2>1. [page EXCEPT !.on = ~@] \in B!Settings
    BY <1>1 DEF B!Settings
  <2> QED
    BY <1>2, <1>3, <2>1 DEF B!Toggle
<1>4. CASE \E v \in B!ToSet(Starts) : B!PickStart(v)
  <2>1. PICK v \in B!ToSet(Starts) : B!PickStart(v)
    BY <1>4
  <2>2. [page EXCEPT !.start = v] \in B!Settings
    BY <1>1 DEF B!Settings
  <2> QED
    BY <1>2, <2>1, <2>2 DEF B!PickStart
<1>5. CASE \E v \in B!ToSet(Ends) : B!PickEnd(v)
  <2>1. PICK v \in B!ToSet(Ends) : B!PickEnd(v)
    BY <1>5
  <2>2. [page EXCEPT !.end = v] \in B!Settings
    BY <1>1 DEF B!Settings
  <2> QED
    BY <1>2, <2>1, <2>2 DEF B!PickEnd
<1>6. CASE B!Frame
  BY <1>1, <1>6, ChargeValidatedFacts, ChargePageStep DEF B!Frame
<1>7. CASE B!AvailableThresholds \/ B!Restart
  BY <1>1, <1>7, ChargePageStep DEF B!AvailableThresholds, B!Restart
<1> QED
  BY <1>3, <1>4, <1>5, <1>6, <1>7

\* A call begins.
LEMMA ChargeCallStep ==
    ASSUME ChargeInv, NEW c \in Writers, NEW t, ChargeIsTodo(t), t # <<>>, NEW inOrder \in BOOLEAN,
           B!Call(c, t, inOrder), page' \in B!Settings,
           inOrder => \A v \in ChargeValues : B!After(v, t).start < B!After(v, t).end
    PROVE  ChargeInv'
<1> DEFINE r == [B!Idle EXCEPT !.todo = t]
           single == \A d \in Writers : ~B!Busy(d)
           a == IF single THEN B!After(ec, t) ELSE trail.asked
           b == IF single THEN ec ELSE trail.before
           o == ~single
           p == single /\ (inOrder \/ (trail.apart /\ B!OnlyStatus(t)))
<1>1. /\ ~B!Busy(c) /\ writes' = [writes EXCEPT ![c] = r]
      /\ trail' = [asked |-> a, before |-> b, overlapped |-> o, apart |-> p]
      /\ UNCHANGED <<ec, saved, known>>
  BY DEF B!Call
<1>2. r = [todo |-> t, step |-> "read", set |-> B!None]
  BY DEF B!Idle
<1> HIDE DEF r
<1>3. /\ DOMAIN writes' = Writers /\ writes'[c] = r
      /\ \A d \in Writers \ {c} : writes'[d] = writes[d]
  BY <1>1 DEF ChargeInv, ChargeType
<1>4. B!ChargeConstants /\ ec \in ChargeValues /\ trail \in ChargeTrails /\ B!After(ec, t) \in ChargeValues
  BY ChargeAfterType DEF ChargeInv, ChargeType
<1>5. a \in ChargeValues /\ b \in ChargeValues /\ o \in BOOLEAN /\ p \in BOOLEAN
  <2>1. trail.asked \in ChargeValues /\ trail.before \in ChargeValues /\ trail.apart \in BOOLEAN
    BY <1>4 DEF ChargeTrails
  <2> QED
    BY <1>4, <2>1
<1>6. trail' \in ChargeTrails /\ trail'.asked = a /\ trail'.before = b
      /\ trail'.overlapped = ~single /\ trail'.apart = p
  <2> HIDE DEF a, b, o, p
  <2>1. trail' \in ChargeTrails /\ trail'.asked = a /\ trail'.before = b
        /\ trail'.overlapped = o /\ trail'.apart = p
    BY <1>1, <1>5 DEF ChargeTrails
  <2> QED
    BY <2>1 DEF o
<1>7. ChargeValues' = ChargeValues /\ B!Settings' = B!Settings /\ ChargeTrails' = ChargeTrails
  BY DEF ChargeValues, B!Settings, ChargeTrails
<1>8. ChargeType'
  <2>1. \A d \in Writers : /\ writes'[d] = [todo |-> writes'[d].todo, step |-> writes'[d].step,
                                            set |-> writes'[d].set]
                           /\ ChargeIsTodo(writes'[d].todo)
    BY <1>2, <1>3 DEF ChargeInv, ChargeType
  <2> QED
    BY <1>1, <1>3, <1>6, <1>7, <2>1 DEF ChargeInv, ChargeType
<1>9. ChargeSteps'
  <2> SUFFICES ASSUME NEW d \in Writers, B!Busy(d)'
               PROVE  \/ writes'[d].step = "read"
                      \/ /\ writes'[d].step \in {"write", "save"}
                         /\ writes'[d].set \in ChargeValues /\ B!Accepted(Head(writes'[d].todo))
    BY <1>7 DEF ChargeSteps
  <2> QED
    BY <1>2, <1>3 DEF ChargeInv, ChargeSteps, B!Busy
<1>10. ChargeUndisturbed'
  <2> SUFFICES ASSUME single
               PROVE  /\ \A d, e \in Writers : B!Busy(d)' /\ B!Busy(e)' => d = e
                      /\ \A d \in Writers : B!Busy(d)' => ChargePending(d)'
                      /\ (\A d \in Writers : ~B!Busy(d)') => ec' = trail'.asked
    BY <1>6 DEF ChargeUndisturbed
  <2>1. \A d \in Writers : B!Busy(d)' <=> d = c
    BY <1>2, <1>3 DEF B!Busy
  <2>2. trail'.asked = B!After(ec, t) /\ trail'.before = ec
    BY <1>6
  <2>3. writes'[c].step = "read" /\ writes'[c].todo = t
    BY <1>2, <1>3
  <2>4. ChargePending(c)'
    BY <1>1, <2>2, <2>3 DEF ChargePending, B!Unwritten, ChargeSame
  <2> QED
    BY <2>1, <2>4
<1>11. ChargeApart'
  <2> SUFFICES ASSUME p PROVE ~trail'.overlapped /\ trail'.asked.start < trail'.asked.end
    BY <1>6 DEF ChargeApart
  <2>1. single /\ trail'.asked = B!After(ec, t)
    BY <1>6
  <2>2. CASE inOrder
    BY <1>4, <1>6, <2>1, <2>2
  <2>3. CASE trail.apart /\ B!OnlyStatus(t)
    <3>1. ec = trail.asked /\ trail.asked.start < trail.asked.end
      BY <2>1, <2>3 DEF ChargeInv, ChargeApart, ChargeUndisturbed
    <3>2. B!After(ec, t).start = ec.start /\ B!After(ec, t).end = ec.end
      BY <1>4, <2>3, ChargeStatusKeeps
    <3> QED
      BY <1>6, <2>1, <3>1, <3>2
  <2> QED
    BY <2>2, <2>3
<1> QED
  BY <1>8, <1>9, <1>10, <1>11 DEF ChargeInv, B!ChargeConstants

LEMMA ChargeCallSteps ==
    ASSUME ChargeInv, NEW c \in Writers,
           \/ B!Apply(c)
           \/ \E v \in Others : B!SetOne(c, B!File("start", v)) \/ B!SetOne(c, B!File("end", v))
           \/ \E on \in BOOLEAN : B!SetOne(c, B!File("status", on))
    PROVE  ChargeInv'
<1>1. page \in B!Settings /\ known \in BOOLEAN /\ B!ChargeConstants
  BY DEF ChargeInv, ChargeType
<1>2. CASE B!Apply(c)
  <2> DEFINE s == B!Validated(page)
  <2>1. s \in B!Settings /\ s.on /\ (known => s.start < s.end)
    BY <1>1, <1>2, ChargeValidatedFacts DEF B!Apply
  <2>2. page' = s /\ B!Call(c, B!Writes(s), known)
    BY <1>2 DEF B!Apply
  <2> HIDE DEF s
  <2>3. /\ ChargeIsTodo(B!Writes(s)) /\ B!Writes(s) # <<>>
        /\ \A v \in ChargeValues : B!After(v, B!Writes(s)) =
              [status |-> TRUE, start |-> s.start, end |-> s.end]
    <3>1. \A v \in ChargeValues : /\ ChargeIsTodo(B!Writes(s)) /\ B!Writes(s) # <<>>
                            /\ B!After(v, B!Writes(s)) =
                                  [status |-> TRUE, start |-> s.start, end |-> s.end]
      BY <1>1, <2>1, ChargeWritesFacts
    <3>2. ec \in ChargeValues
      BY DEF ChargeInv, ChargeType
    <3> QED
      BY <3>1, <3>2
  <2>4. known => \A v \in ChargeValues : B!After(v, B!Writes(s)).start < B!After(v, B!Writes(s)).end
    BY <2>1, <2>3
  <2> QED
    BY <1>1, <2>1, <2>2, <2>3, <2>4, ChargeCallStep
<1>3. ASSUME NEW w \in ChargeFileWrite, B!SetOne(c, w)
      PROVE  ChargeInv'
  <2>1. ChargeIsTodo(<<w>>) /\ <<w>> # <<>>
    BY DEF ChargeIsTodo
  <2>2. B!Call(c, <<w>>, FALSE) /\ page' \in B!Settings
    BY <1>1, <1>3 DEF B!SetOne
  <2> QED
    BY <2>1, <2>2, ChargeCallStep
<1>4. ASSUME NEW v \in Others
      PROVE  B!File("start", v) \in ChargeFileWrite /\ B!File("end", v) \in ChargeFileWrite
  BY <1>1 DEF B!ChargeConstants, B!File, ChargeFileWrite
<1>5. ASSUME NEW on \in BOOLEAN
      PROVE  B!File("status", on) \in ChargeFileWrite
  BY DEF B!File, ChargeFileWrite
<1> QED
  BY <1>2, <1>3, <1>4, <1>5

\* A call makes a step, or ends.
LEMMA ChargeWriteStep ==
    ASSUME ChargeInv, NEW c \in Writers, B!Busy(c), NEW r,
           r = [todo |-> r.todo, step |-> r.step, set |-> r.set], ChargeIsTodo(r.todo),
           r.step = "read" \/ /\ r.todo # <<>> /\ r.step \in {"write", "save"}
                              /\ r.set \in ChargeValues /\ B!Accepted(Head(r.todo)),
           writes' = [writes EXCEPT ![c] = r], UNCHANGED B!pageVars, ec' \in ChargeValues,
           trail' \in ChargeTrails, trail'.overlapped = trail.overlapped, ChargeApart',
           ~trail.overlapped =>
               IF r.todo = <<>> THEN ec' = trail'.asked ELSE ChargePending(c)'
    PROVE  ChargeInv'
<1>1. /\ DOMAIN writes' = Writers /\ writes'[c] = r
      /\ \A d \in Writers \ {c} : writes'[d] = writes[d]
  BY DEF ChargeInv, ChargeType
<1>2. ChargeValues' = ChargeValues /\ B!Settings' = B!Settings /\ ChargeTrails' = ChargeTrails
  BY DEF ChargeValues, B!Settings, ChargeTrails
<1>3. ChargeType'
  <2>1. \A d \in Writers : /\ writes'[d] = [todo |-> writes'[d].todo, step |-> writes'[d].step,
                                            set |-> writes'[d].set]
                           /\ ChargeIsTodo(writes'[d].todo)
    BY <1>1 DEF ChargeInv, ChargeType
  <2> QED
    BY <1>1, <1>2, <2>1 DEF ChargeInv, ChargeType, B!pageVars
<1>4. ChargeSteps'
  <2> SUFFICES ASSUME NEW d \in Writers, B!Busy(d)'
               PROVE  \/ writes'[d].step = "read"
                      \/ /\ writes'[d].step \in {"write", "save"}
                         /\ writes'[d].set \in ChargeValues /\ B!Accepted(Head(writes'[d].todo))
    BY <1>2 DEF ChargeSteps
  <2> QED
    BY <1>1 DEF ChargeInv, ChargeSteps, B!Busy
<1>5. ChargeUndisturbed'
  <2> SUFFICES ASSUME ~trail.overlapped
               PROVE  /\ \A d, e \in Writers : B!Busy(d)' /\ B!Busy(e)' => d = e
                      /\ \A d \in Writers : B!Busy(d)' => ChargePending(d)'
                      /\ (\A d \in Writers : ~B!Busy(d)') => ec' = trail'.asked
    BY DEF ChargeUndisturbed
  <2>1. \A d \in Writers : B!Busy(d) => d = c
    BY DEF ChargeInv, ChargeUndisturbed
  <2>2. /\ \A d \in Writers : B!Busy(d)' => d = c
        /\ B!Busy(c)' <=> r.todo # <<>>
    BY <1>1, <2>1 DEF B!Busy
  <2> QED
    BY <2>2
<1> QED
  BY <1>3, <1>4, <1>5 DEF ChargeInv, B!ChargeConstants

\* What is not written of a call is a call as well.
LEMMA ChargeUnwrittenFacts ==
    ASSUME ChargeInv, NEW c \in Writers, B!Busy(c)
    PROVE  /\ ChargeIsTodo(B!Unwritten(c)) /\ ChargeIsTodo(writes[c].todo) /\ writes[c].todo # <<>>
           /\ B!OnlyStatus(writes[c].todo) => B!OnlyStatus(B!Unwritten(c))
<1> DEFINE t == writes[c].todo
<1>1. ChargeIsTodo(t) /\ t # <<>>
  BY DEF ChargeInv, ChargeType, B!Busy
<1>2. B!Unwritten(c) = t \/ B!Unwritten(c) = Tail(t)
  BY DEF B!Unwritten
<1> HIDE DEF t
<1>3. B!OnlyStatus(t) => B!OnlyStatus(Tail(t))
  BY <1>1, ChargeTailFacts DEF B!OnlyStatus, B!ToSet
<1>4. ChargeIsTodo(Tail(t))
  BY <1>1, ChargeTailFacts
<1> QED
  BY <1>1, <1>2, <1>3, <1>4 DEF t

LEMMA ChargeFailStep ==
    ASSUME ChargeInv, NEW c \in Writers, B!Fail(c)
    PROVE  ChargeInv'
<1> DEFINE u == B!Unwritten(c)
           a == B!Without(trail.asked, trail.before, u)
           p == trail.apart /\ B!OnlyStatus(writes[c].todo)
<1>1. /\ B!Busy(c) /\ writes' = [writes EXCEPT ![c] = B!Idle] /\ UNCHANGED <<B!pageVars, ec>>
      /\ trail' = [trail EXCEPT !.asked = a, !.apart = p]
  BY DEF B!Fail, B!End
<1>2. B!ChargeConstants /\ ec \in ChargeValues /\ trail \in ChargeTrails
  BY DEF ChargeInv, ChargeType
<1>3. trail.asked \in ChargeValues /\ trail.before \in ChargeValues /\ trail.apart \in BOOLEAN
  BY <1>2 DEF ChargeTrails
<1>4. a \in ChargeValues /\ p \in BOOLEAN
  BY <1>2, <1>3, ChargeWithoutFacts
<1>5. /\ trail' \in ChargeTrails /\ trail'.asked = a /\ trail'.apart = p
      /\ trail'.overlapped = trail.overlapped
  <2> HIDE DEF a, p
  <2> QED
    BY <1>1, <1>2, <1>4 DEF ChargeTrails
<1>6. ChargeIsTodo(u)
  BY <1>1, ChargeUnwrittenFacts
<1>7. ~trail.overlapped => ec' = trail'.asked
  <2> SUFFICES ASSUME ~trail.overlapped PROVE a = ec
    BY <1>1, <1>5
  <2>1. trail.asked = B!After(ec, u) /\ ChargeSame(ec, trail.before, u)
    BY <1>1 DEF ChargeInv, ChargeUndisturbed, ChargePending
  <2> QED
    BY <1>2, <1>3, <1>6, <2>1, ChargeWithoutPending
<1>8. ChargeApart'
  <2> SUFFICES ASSUME p PROVE ~trail'.overlapped /\ trail'.asked.start < trail'.asked.end
    BY <1>5 DEF ChargeApart
  <2>1. ~trail.overlapped /\ trail.asked.start < trail.asked.end
    BY DEF ChargeInv, ChargeApart
  <2>2. B!OnlyStatus(u)
    BY <1>1, ChargeUnwrittenFacts
  <2>3. a.start = trail.asked.start /\ a.end = trail.asked.end
    <3> DEFINE x == trail.asked
               y == trail.before
    <3>1. B!ChargeConstants /\ x \in ChargeValues /\ y \in ChargeValues /\ B!OnlyStatus(u)
      BY <1>2, <1>3, <2>2
    <3> HIDE DEF u, x, y
    <3>2. B!Without(x, y, u).start = x.start /\ B!Without(x, y, u).end = x.end
      BY ONLY <3>1, ChargeWithoutFacts
    <3> QED
      BY <3>2 DEF x, y
  <2> QED
    BY <1>5, <2>1, <2>3
<1> HIDE DEF a, p, u
<1> QED
  BY <1>1, <1>2, <1>5, <1>7, <1>8, ChargeIdleWrites, ChargeWriteStep

\* The history of a step that ends no call.
LEMMA ChargeTrailKept ==
    ASSUME ChargeInv, trail' = trail
    PROVE  trail' \in ChargeTrails /\ trail'.overlapped = trail.overlapped /\ ChargeApart'
BY DEF ChargeInv, ChargeType, ChargeApart

LEMMA ChargeReadStep ==
    ASSUME ChargeInv, NEW c \in Writers, B!ReadPrevious(c)
    PROVE  ChargeInv'
<1> DEFINE t == writes[c].todo
           set == [ec EXCEPT ![Head(t).file] = B!Stored(Head(t))]
           r == [todo |-> t, step |-> "write", set |-> set]
<1>1. /\ B!Busy(c) /\ writes[c].step = "read" /\ B!Accepted(Head(t))
      /\ writes' = [writes EXCEPT ![c].step = "write", ![c].set = set]
      /\ UNCHANGED <<B!pageVars, ec, trail>>
  BY DEF B!ReadPrevious
<1>2. /\ B!ChargeConstants /\ ChargeIsTodo(t) /\ t # <<>> /\ ec \in ChargeValues
      /\ writes[c] = [todo |-> t, step |-> writes[c].step, set |-> writes[c].set]
      /\ DOMAIN writes = Writers
  BY <1>1 DEF ChargeInv, ChargeType, B!Busy
<1>3. set \in ChargeValues
  BY <1>2, ChargeTailFacts, ChargeValuesFacts
<1>4. writes' = [writes EXCEPT ![c] = r]
  <2> HIDE DEF set, t
  <2>1. [[writes[c] EXCEPT !.step = "write"] EXCEPT !.set = set] = r
    <3> DEFINE a == [writes[c] EXCEPT !.step = "write"]
    <3>1. a = [todo |-> t, step |-> "write", set |-> writes[c].set]
      BY <1>2
    <3> HIDE DEF a
    <3>2. [a EXCEPT !.set = set] = r
      BY <3>1
    <3> QED
      BY <3>2 DEF a
  <2>2. writes' = [writes EXCEPT ![c] = [[writes[c] EXCEPT !.step = "write"] EXCEPT !.set = set]]
    BY <1>1, <1>2
  <2> QED
    BY <2>1, <2>2
<1>5. ~trail.overlapped => ChargePending(c)'
  <2> SUFFICES ASSUME ~trail.overlapped PROVE ChargePending(c)'
    OBVIOUS
  <2>1. B!Unwritten(c) = t
    BY <1>1 DEF B!Unwritten
  <2>2. trail.asked = B!After(ec, t) /\ ChargeSame(ec, trail.before, t)
    BY <1>1, <2>1 DEF ChargeInv, ChargeUndisturbed, ChargePending
  <2>3. writes'[c] = r /\ r.step = "write" /\ r.todo = t /\ r.set = set
    BY <1>2, <1>4
  <2>4. set = [ec' EXCEPT ![Head(t).file] = B!Stored(Head(t))]
    BY <1>1
  <2> HIDE DEF r, t, set
  <2>5. B!Unwritten(c)' = t
    BY <2>3 DEF B!Unwritten
  <2> QED
    BY <1>1, <2>2, <2>3, <2>4, <2>5 DEF ChargePending
<1>6. r = [todo |-> r.todo, step |-> r.step, set |-> r.set] /\ r.todo = t
      /\ r.step = "write" /\ r.set = set
  OBVIOUS
<1>7. trail' \in ChargeTrails /\ trail'.overlapped = trail.overlapped /\ ChargeApart'
  BY <1>1, ChargeTrailKept
<1> HIDE DEF t, set, r
<1> QED
  BY <1>1, <1>2, <1>3, <1>4, <1>5, <1>6, <1>7, ChargeWriteStep

\* What follows a file's last write.
LEMMA ChargeNextFileStep ==
    ASSUME ChargeInv, NEW c \in Writers, B!Busy(c), UNCHANGED <<B!pageVars, trail>>,
           writes' = [writes EXCEPT ![c] = B!NextFile(c)], ec' \in ChargeValues,
           ~trail.overlapped => /\ trail.asked = B!After(ec', Tail(writes[c].todo))
                                /\ ChargeSame(ec', trail.before, Tail(writes[c].todo))
    PROVE  ChargeInv'
<1> DEFINE t == writes[c].todo
           r == B!NextFile(c)
<1>1. B!ChargeConstants /\ ChargeIsTodo(t) /\ t # <<>> /\ DOMAIN writes = Writers
  BY DEF ChargeInv, ChargeType, B!Busy
<1>2. /\ r.todo = Tail(t) /\ r.step = "read"
      /\ r = [todo |-> r.todo, step |-> r.step, set |-> r.set]
  <2>1. r = [todo |-> Tail(t), step |-> "read", set |-> B!None]
    <3>1. \A x : [B!Idle EXCEPT !.todo = x] = [todo |-> x, step |-> "read", set |-> B!None]
      BY DEF B!Idle
    <3>2. r = [B!Idle EXCEPT !.todo = Tail(t)]
      BY DEF B!NextFile
    <3> HIDE DEF r, t
    <3> QED
      BY <3>1, <3>2
  <2> HIDE DEF r
  <2> QED
    BY <2>1
<1>3. ChargeIsTodo(r.todo)
  BY <1>1, <1>2, ChargeTailFacts
<1>4. ASSUME ~trail.overlapped
      PROVE  IF r.todo = <<>> THEN ec' = trail'.asked ELSE ChargePending(c)'
  <2>1. trail'.asked = B!After(ec', Tail(t)) /\ ChargeSame(ec', trail'.before, Tail(t))
    BY <1>4
  <2>2. CASE Tail(t) = <<>>
    BY <1>1, <1>2, <2>1, <2>2, ChargeAfterNothing
  <2>3. CASE Tail(t) # <<>>
    <3>1. writes'[c] = r
      BY <1>1
    <3> HIDE DEF r
    <3>2. B!Unwritten(c)' = Tail(t) /\ writes'[c].step = "read"
      BY <1>2, <3>1 DEF B!Unwritten
    <3>3. ChargePending(c)'
      BY <2>1, <3>2 DEF ChargePending
    <3> QED
      BY <1>2, <2>3, <3>3
  <2> QED
    BY <2>2, <2>3
<1>5. trail' \in ChargeTrails /\ trail'.overlapped = trail.overlapped /\ ChargeApart'
  BY ChargeTrailKept
<1> HIDE DEF t, r
<1>6. writes' = [writes EXCEPT ![c] = r]
  BY DEF r
<1> QED
  BY <1>2, <1>3, <1>4, <1>5, <1>6, ChargeWriteStep

LEMMA ChargeThresholdsStep ==
    ASSUME ChargeInv, NEW c \in Writers, B!WriteThresholds(c)
    PROVE  ChargeInv'
<1> DEFINE t == writes[c].todo
           w == Head(t)
           set == writes[c].set
           r == [todo |-> t, step |-> "save", set |-> set]
<1>1. /\ B!Busy(c) /\ writes[c].step = "write" /\ UNCHANGED <<B!pageVars, trail>>
      /\ ec' = IF cc4 THEN set ELSE [set EXCEPT !.status = ec.status]
      /\ writes' = [writes EXCEPT ![c] =
            IF cc4 THEN B!NextFile(c) ELSE [writes[c] EXCEPT !.step = "save"]]
  BY DEF B!WriteThresholds
<1>2. /\ B!ChargeConstants /\ ChargeIsTodo(t) /\ t # <<>> /\ ec \in ChargeValues
      /\ set \in ChargeValues /\ B!Accepted(w)
      /\ writes[c] = [todo |-> t, step |-> writes[c].step, set |-> set]
      /\ DOMAIN writes = Writers
  BY <1>1 DEF ChargeInv, ChargeType, ChargeSteps, B!Busy
<1>3. B!Unwritten(c) = t
  BY <1>1 DEF B!Unwritten
<1>4. ~trail.overlapped => /\ trail.asked = B!After(ec, t) /\ ChargeSame(ec, trail.before, t)
                           /\ set = [ec EXCEPT ![w.file] = B!Stored(w)]
  BY <1>1, <1>3 DEF ChargeInv, ChargeUndisturbed, ChargePending
<1>5. ~trail.overlapped => /\ trail.asked = B!After(set, Tail(t))
                           /\ ChargeSame(set, trail.before, Tail(t))
  BY <1>2, <1>4, ChargeAdvance
<1>6. CASE cc4
  BY <1>1, <1>2, <1>5, <1>6, ChargeNextFileStep
<1>7. CASE ~cc4
  <2>1. ec' = [set EXCEPT !.status = ec.status] /\ [writes[c] EXCEPT !.step = "save"] = r
    BY <1>1, <1>2, <1>7
  <2>2. writes' = [writes EXCEPT ![c] = r]
    BY <1>1, <1>7, <2>1
  <2>3. ec' \in ChargeValues
    <3> HIDE DEF set
    <3> QED
      BY <1>2, <2>1 DEF ChargeValues
  <2>4. ASSUME ~trail.overlapped
        PROVE  ChargePending(c)'
    <3>1. writes'[c] = r /\ r.step = "save" /\ r.todo = t /\ r.set = set
      BY <1>2, <2>2
    <3>2. CASE w.file = "status"
      <4>1. set = [ec EXCEPT !.status = B!Stored(w)]
        BY <1>4, <2>4, <3>2
      <4>2. ec' = ec
        <5>1. [[ec EXCEPT !.status = B!Stored(w)] EXCEPT !.status = ec.status] = ec
          BY <1>2 DEF ChargeValues
        <5> HIDE DEF set
        <5> QED
          BY <2>1, <4>1, <5>1
      <4> HIDE DEF r, t, set, w
      <4>3. B!Unwritten(c)' = t
        BY <3>1, <3>2 DEF B!Unwritten, w
      <4>4. set = [ec' EXCEPT ![w.file] = B!Stored(w)] /\ w.file = "status"
        BY <3>2, <4>1, <4>2
      <4> QED
        BY <1>1, <1>4, <2>4, <3>1, <4>2, <4>3, <4>4 DEF ChargePending, w
    <3>3. CASE w.file # "status"
      <4>1. set.status = ec.status
        <5>1. w.file \in {"status", "start", "end"}
          BY <1>2, ChargeTailFacts, ChargeValuesFacts
        <5>2. set = [ec EXCEPT !.start = B!Stored(w)] \/ set = [ec EXCEPT !.end = B!Stored(w)]
          BY <1>4, <2>4, <3>3, <5>1
        <5> HIDE DEF set
        <5> QED
          BY <1>2, <5>2 DEF ChargeValues
      <4>2. ec' = set
        <5> HIDE DEF set
        <5> QED
          BY <1>2, <2>1, <4>1 DEF ChargeValues
      <4> HIDE DEF r, t, set, w
      <4>3. B!Unwritten(c)' = Tail(t)
        BY <3>1, <3>3 DEF B!Unwritten, w
      <4> QED
        BY <1>1, <1>5, <2>4, <3>1, <3>3, <4>2, <4>3 DEF ChargePending, w
    <3> QED
      BY <3>2, <3>3
  <2>5. r = [todo |-> r.todo, step |-> r.step, set |-> r.set] /\ r.todo = t
        /\ r.step = "save" /\ r.set = set
    OBVIOUS
  <2>6. trail' \in ChargeTrails /\ trail'.overlapped = trail.overlapped /\ ChargeApart'
    BY <1>1, ChargeTrailKept
  <2>7. B!Accepted(Head(t))
    BY <1>2
  <2> HIDE DEF t, set, r, w
  <2> QED
    BY <1>1, <1>2, <2>2, <2>3, <2>4, <2>5, <2>6, <2>7, ChargeWriteStep
<1> QED
  BY <1>6, <1>7

LEMMA ChargeStatusStep ==
    ASSUME ChargeInv, NEW c \in Writers, B!WriteStatus(c)
    PROVE  ChargeInv'
<1> DEFINE t == writes[c].todo
           w == Head(t)
           set == writes[c].set
<1>1. /\ B!Busy(c) /\ writes[c].step = "save" /\ UNCHANGED <<B!pageVars, trail>>
      /\ ec' = [ec EXCEPT !.status = set.status]
      /\ writes' = [writes EXCEPT ![c] = B!NextFile(c)]
  BY DEF B!WriteStatus
<1>2. /\ B!ChargeConstants /\ ChargeIsTodo(t) /\ t # <<>> /\ ec \in ChargeValues
      /\ set \in ChargeValues /\ B!Accepted(w)
  BY <1>1 DEF ChargeInv, ChargeType, ChargeSteps, B!Busy
<1>3. ec' \in ChargeValues
  <2> HIDE DEF set
  <2> QED
    BY <1>1, <1>2 DEF ChargeValues
<1>4. ASSUME ~trail.overlapped
      PROVE  trail.asked = B!After(ec', Tail(t)) /\ ChargeSame(ec', trail.before, Tail(t))
  <2>1. /\ trail.asked = B!After(ec, B!Unwritten(c)) /\ ChargeSame(ec, trail.before, B!Unwritten(c))
        /\ set = IF w.file # "status" THEN ec ELSE [ec EXCEPT ![w.file] = B!Stored(w)]
    BY <1>1, <1>4 DEF ChargeInv, ChargeUndisturbed, ChargePending
  <2>2. CASE w.file = "status"
    <3>1. B!Unwritten(c) = t
      BY <2>2 DEF B!Unwritten
    <3>2. ec' = [ec EXCEPT ![w.file] = B!Stored(w)]
      <4>1. set.status = B!Stored(w)
        BY <1>2, <2>1, <2>2 DEF ChargeValues
      <4> QED
        BY <1>1, <2>2, <4>1
    <3> HIDE DEF set
    <3>3. /\ B!ChargeConstants /\ ec \in ChargeValues /\ ChargeIsTodo(t) /\ t # <<>> /\ B!Accepted(Head(t))
          /\ ChargeSame(ec, trail.before, t) /\ trail.asked = B!After(ec, t)
          /\ ec' = [ec EXCEPT ![Head(t).file] = B!Stored(Head(t))]
      BY <1>2, <2>1, <3>1, <3>2
    <3> HIDE DEF t, w
    <3>4. B!After(ec', Tail(t)) = B!After(ec, t) /\ ChargeSame(ec', trail.before, Tail(t))
      BY <3>3, ChargeAdvance
    <3> QED
      BY <3>3, <3>4 DEF t
  <2>3. CASE w.file # "status"
    <3>1. B!Unwritten(c) = Tail(t)
      BY <1>1, <2>3 DEF B!Unwritten
    <3>2. ec' = ec
      <4>1. set = ec
        BY <2>1, <2>3
      <4> QED
        BY <1>1, <1>2, <4>1 DEF ChargeValues
    <3> QED
      BY <2>1, <3>1, <3>2
  <2> QED
    BY <2>2, <2>3
<1> QED
  BY <1>1, <1>3, <1>4, ChargeNextFileStep

LEMMA ChargeNext ==
    ASSUME ChargeInv, B!Next
    PROVE  ChargeInv'
BY ChargePageSteps, ChargeCallSteps, ChargeFailStep, ChargeReadStep,
   ChargeThresholdsStep, ChargeStatusStep
   DEF B!Next

LEMMA ChargeStutter ==
    ASSUME ChargeInv, UNCHANGED B!vars
    PROVE  ChargeInv'
<1>1. page' \in B!Settings /\ saved' \in B!Settings /\ known' \in BOOLEAN
  BY DEF ChargeInv, ChargeType, B!vars, B!pageVars
<1> QED
  BY <1>1, ChargePageStep DEF B!vars

LEMMA ChargeSafe ==
    ASSUME ChargeInv
    PROVE  B!TypeOK /\ B!ThresholdsAsAsked
<1>1. ASSUME NEW c \in Writers PROVE Len(writes[c].todo) \in 0 .. 3
  <2>1. ChargeIsTodo(writes[c].todo)
    BY DEF ChargeInv, ChargeType
  <2>2. ASSUME NEW t, ChargeIsTodo(t) PROVE Len(t) \in 0 .. 3
    <3>1. Len(t) \in Nat /\ Len(t) <= 3
      BY <2>2 DEF ChargeIsTodo
    <3>2. \A n \in Nat : n <= 3 => n \in 0 .. 3
      OBVIOUS
    <3> QED
      BY <3>1, <3>2
  <2> QED
    BY <2>1, <2>2
<1>2. B!TypeOK
  BY <1>1 DEF ChargeInv, ChargeType, B!TypeOK, ChargeValues
<1>3. B!ThresholdsAsAsked
  BY DEF ChargeInv, ChargeUndisturbed, ChargeApart, B!ThresholdsAsAsked
<1> QED
  BY <1>2, <1>3

-----------------------------------------------------------------------------
PerfReg == [mode : 0 .. 3, full : BOOLEAN]

\* The mode that the last choice leads to.
PerfExpected == IF ghost.limited THEN P!Enthusiast ELSE P!Runs[ghost.chosen]

\* A call is under way exactly while it has modes to write.
PerfType ==
    /\ machine \in P!Machines
    /\ shared \in P!Interfaces \cup {"unset", "failed"}
    /\ reg \in PerfReg /\ fans \subseteq PerfReg
    /\ \/ client = P!Idle
       \/ /\ client = [step |-> client.step, modes |-> client.modes, saw |-> client.saw]
          /\ client.step \in {"read", "write"}
          /\ client.modes \in Seq(0 .. 3) /\ Len(client.modes) \in 1 .. 2
          /\ client.saw \in PerfReg
    /\ ghost = [chosen |-> ghost.chosen, limited |-> ghost.limited, raced |-> ghost.raced]

\* While no fan ioctl spans the write of a profile: what the ioctl under way read
\* is the profile that runs, and the last choice runs already or is the last mode
\* that the call under way will write.
PerfChosen ==
    ~ghost.raced =>
        /\ \A saw \in fans : saw.mode = reg.mode
        /\ ghost.chosen # NoName =>
              IF client.step = "idle" THEN reg.mode = PerfExpected
              ELSE client.modes[Len(client.modes)] = PerfExpected

PerfInv == PerfType /\ PerfChosen

-----------------------------------------------------------------------------
(* Performance profiles *)

LEMMA PerfPositionFacts ==
    ASSUME NEW seq, NEW i \in 1 .. Len(seq), Len(seq) \in Nat,
           \A j \in 1 .. Len(seq) : seq[j] = seq[i] => j = i
    PROVE  P!SelectInSeq(seq, LAMBDA n : n = seq[i]) = i
<1> DEFINE I == {j \in 1 .. Len(seq) : seq[j] = seq[i]}
<1>1. I = {i}
  OBVIOUS
<1>2. P!SelectInSeq(seq, LAMBDA n : n = seq[i]) = IF I # {} THEN P!Min(I) ELSE 0
  BY DEF P!SelectInSeq
<1>3. P!Min({i}) = i
  BY DEF P!Min
<1> QED
  BY <1>1, <1>2, <1>3

\* A name's position in the list is the mode that it runs.
LEMMA PerfIdFacts ==
    ASSUME machine \in P!Machines, NEW s \in P!Interfaces, NEW name,
           P!Knows(s, name), P!Settable(s, P!Id(s, name))
    PROVE  P!Id(s, name) = P!Runs[name] /\ P!Runs[name] \in 0 .. 3
<1> DEFINE seq == P!Available(s)
<1>1. ASSUME NEW i \in 1 .. Len(seq), Len(seq) \in Nat, seq[i] = name,
             \A j \in 1 .. Len(seq) : seq[j] = seq[i] => j = i
      PROVE  P!Id(s, name) = i - 1
  <2> HIDE DEF seq
  <2>1. P!SelectInSeq(seq, LAMBDA n : n = seq[i]) = i
    BY <1>1, PerfPositionFacts
  <2> USE DEF seq
  <2>2. P!SelectInSeq(P!Available(s), LAMBDA n : n = name) = i
    BY <1>1, <2>1
  <2> QED
    BY <2>2 DEF P!Id
<1>2. CASE s = "Clevo"
  <2>1. seq = <<"quiet", "power_saving", "performance", "entertainment">>
    BY <1>2 DEF P!Available
  <2>2. /\ Len(seq) = 4 /\ seq[1] = "quiet" /\ seq[2] = "power_saving"
        /\ seq[3] = "performance" /\ seq[4] = "entertainment" /\ DOMAIN seq = 1 .. 4
    BY <2>1
  <2>3. PICK i \in 1 .. 4 : seq[i] = name
    BY <2>2 DEF P!Knows, P!ToSet
  <2> HIDE DEF seq
  <2>4. \A j \in 1 .. 4 : seq[j] = seq[i] => j = i
    BY <2>2
  <2>5. P!Id(s, name) = i - 1
    BY <1>1, <2>2, <2>3, <2>4
  <2> QED
    BY <2>2, <2>3, <2>5 DEF P!Runs
<1>3. CASE s = "Uniwill"
  <2> DEFINE n == machine.profiles
             all == <<"power_save", "enthusiast", "overboost">>
  <2>1. n \in {0, 2, 3} /\ seq = SubSeq(all, 1, n)
    BY <1>3 DEF P!Machines, P!Available
  <2>2. /\ Len(seq) = n /\ DOMAIN seq = 1 .. n
        /\ \A i \in 1 .. n : seq[i] = all[i]
    BY <2>1
  <2>3. PICK i \in 1 .. n : seq[i] = name
    BY <2>2 DEF P!Knows, P!ToSet
  <2>4. all[1] = "power_save" /\ all[2] = "enthusiast" /\ all[3] = "overboost"
    OBVIOUS
  <2> HIDE DEF seq, all, n
  <2>5. \A j \in 1 .. n : seq[j] = seq[i] => j = i
    BY <2>1, <2>2, <2>4
  <2>6. P!Id(s, name) = i - 1
    BY <1>1, <2>1, <2>2, <2>3, <2>5
  <2>7. i - 1 \in 1 .. 3
    BY <1>3, <2>6 DEF P!Settable
  <2>8. i = 2 \/ i = 3
    BY <2>1, <2>3, <2>7
  <2> QED
    BY <2>2, <2>3, <2>4, <2>6, <2>8 DEF P!Runs
<1>4. CASE s = "None"
  BY <1>4 DEF P!Settable
<1> QED
  BY <1>2, <1>3, <1>4 DEF P!Interfaces

\* What a call will write.
LEMMA PerfModesFacts ==
    ASSUME machine \in P!Machines, NEW s \in P!Interfaces, NEW name, NEW tdp \in BOOLEAN,
           name # NoName => P!Knows(s, name) /\ P!Settable(s, P!Id(s, name)),
           NEW m, m = P!Modes(s, name, tdp), m # <<>>
    PROVE  /\ m \in Seq(0 .. 3) /\ Len(m) \in 1 .. 2
           /\ m[Len(m)] = IF Len(m) = 2 \/ name = NoName THEN P!Enthusiast ELSE P!Runs[name]
<1>1. name # NoName => P!Id(s, name) = P!Runs[name] /\ P!Runs[name] \in 0 .. 3
  BY PerfIdFacts
<1> DEFINE first == IF name = NoName THEN <<>> ELSE <<P!Id(s, name)>>
           second == IF tdp /\ s = "Uniwill" /\ machine.custom THEN <<P!Enthusiast>> ELSE <<>>
<1>2. m = first \o second
  BY DEF P!Modes
<1>3. P!Enthusiast \in 0 .. 3
  BY DEF P!Enthusiast
<1>4. \A x \in 0 .. 3 : <<x>> \in Seq(0 .. 3) /\ Len(<<x>>) = 1 /\ <<x>>[1] = x
  OBVIOUS
<1>5. \A x, y \in 0 .. 3 : /\ <<x>> \o <<y>> \in Seq(0 .. 3) /\ Len(<<x>> \o <<y>>) = 2
                           /\ (<<x>> \o <<y>>)[2] = y
  OBVIOUS
<1>6. \A x \in 0 .. 3 : <<>> \o <<x>> = <<x>> /\ <<x>> \o <<>> = <<x>>
  OBVIOUS
<1>7. <<>> \o <<>> = <<>>
  OBVIOUS
<1>8. CASE name = NoName
  <2>1. m = <<P!Enthusiast>>
    BY <1>2, <1>3, <1>6, <1>7, <1>8
  <2>2. m \in Seq(0 .. 3) /\ Len(m) = 1 /\ m[1] = P!Enthusiast
    BY <1>3, <1>4, <2>1
  <2>3. Len(m) \in 1 .. 2 /\ m[Len(m)] = P!Enthusiast
    BY <2>2
  <2> QED
    BY <1>8, <2>2, <2>3
<1>9. CASE name # NoName
  <2> DEFINE x == P!Runs[name]
  <2>1. x \in 0 .. 3 /\ first = <<x>>
    BY <1>1, <1>9
  <2> HIDE DEF x, first
  <2>2. CASE second = <<P!Enthusiast>>
    <3>1. m = <<x>> \o <<P!Enthusiast>>
      BY <1>2, <2>1, <2>2
    <3> QED
      BY <1>3, <1>5, <2>1, <3>1
  <2>3. CASE second = <<>>
    <3>1. m = <<x>>
      BY <1>2, <1>6, <2>1, <2>3
    <3> QED
      BY <1>4, <1>9, <2>1, <3>1 DEF x
  <2> QED
    BY <2>2, <2>3
<1> QED
  BY <1>8, <1>9

LEMMA PerfIdleFacts ==
    P!Idle.step = "idle" /\ P!Idle.modes = <<>> /\ P!Idle.saw \in PerfReg
BY DEF P!Idle, PerfReg

LEMMA PerfSharedFacts ==
    ASSUME PerfInv
    PROVE  P!Shared \subseteq P!Interfaces \cup {"unset", "failed"}
BY DEF PerfInv, PerfType, P!Shared, P!Machines, P!Interfaces

LEMMA PerfInit ==
    ASSUME P!Init
    PROVE  PerfInv
<1>1. machine \in P!Machines /\ reg \in PerfReg /\ fans = {} /\ client = P!Idle
  <2>1. reg \in [mode : 1 .. 3, full : {FALSE}]
    BY DEF P!Init
  <2>2. \A n \in 1 .. 3 : n \in 0 .. 3
    OBVIOUS
  <2>3. reg.mode \in 0 .. 3
    BY <2>1, <2>2
  <2>4. reg = [mode |-> reg.mode, full |-> reg.full] /\ reg.full \in BOOLEAN
    BY <2>1
  <2>5. reg \in PerfReg
    BY <2>3, <2>4 DEF PerfReg
  <2> QED
    BY <2>5 DEF P!Init
<1>2. ghost = [chosen |-> NoName, limited |-> FALSE, raced |-> FALSE]
  BY DEF P!Init
<1>3. shared \in P!Interfaces \cup {"unset", "failed"}
  BY DEF P!Init, P!Machines, P!Interfaces
<1> QED
  BY <1>1, <1>2, <1>3 DEF PerfInv, PerfType, PerfChosen

\* A call begins, or is refused.
LEMMA PerfStartStep ==
    ASSUME PerfInv, NEW name, NEW tdp \in BOOLEAN, P!Start(name, tdp)
    PROVE  PerfInv'
<1> DEFINE able(s) == \/ name = NoName
                      \/ /\ device /\ s \in P!Interfaces
                         /\ P!Knows(s, name) /\ P!Settable(s, P!Id(s, name))
           modes(s) == IF able(s) /\ s \in P!Interfaces THEN P!Modes(s, name, tdp) ELSE <<>>
<1>1. PICK s \in IF name # NoName /\ ~device THEN {shared} ELSE P!Shared :
         /\ client.step = "idle"
         /\ shared' = s
         /\ client' = IF modes(s) = <<>> THEN P!Idle
                      ELSE [P!Idle EXCEPT !.step = "read", !.modes = modes(s)]
         /\ ghost' = IF modes(s) = <<>> THEN ghost
                     ELSE [ghost EXCEPT
                         !.chosen = IF name = NoName THEN @ ELSE name,
                         !.limited = Len(modes(s)) = 2 \/ name = NoName]
         /\ UNCHANGED <<machine, device, reg, fans>>
  BY DEF P!Start
<1>2. s \in P!Interfaces \cup {"unset", "failed"}
  BY PerfSharedFacts DEF PerfInv, PerfType
<1> DEFINE m == modes(s)
<1>3. CASE m = <<>>
  <2>1. client' = P!Idle /\ ghost' = ghost /\ client = P!Idle
    BY <1>1, <1>3 DEF PerfInv, PerfType
  <2>2. UNCHANGED <<machine, reg, fans, client, ghost>> /\ shared' = s
    BY <1>1, <2>1
  <2> HIDE DEF m
  <2>3. PerfType'
    BY <1>2, <2>2 DEF PerfInv, PerfType, PerfReg, P!Machines, P!Interfaces
  <2>4. PerfChosen'
    BY <2>2 DEF PerfInv, PerfChosen, PerfExpected
  <2> QED
    BY <2>3, <2>4 DEF PerfInv
<1>4. CASE m # <<>>
  <2>1. s \in P!Interfaces /\ m = P!Modes(s, name, tdp)
        /\ (name # NoName => P!Knows(s, name) /\ P!Settable(s, P!Id(s, name)))
    BY <1>4
  <2>2. /\ m \in Seq(0 .. 3) /\ Len(m) \in 1 .. 2
        /\ m[Len(m)] = IF Len(m) = 2 \/ name = NoName THEN P!Enthusiast ELSE P!Runs[name]
    <3> HIDE DEF m
    <3> QED
      BY <1>4, <2>1, PerfModesFacts DEF PerfInv, PerfType
  <2>3. /\ client' = [P!Idle EXCEPT !.step = "read", !.modes = m]
        /\ ghost' = [ghost EXCEPT !.chosen = IF name = NoName THEN @ ELSE name,
                                  !.limited = Len(m) = 2 \/ name = NoName]
    BY <1>1, <1>4
  <2> HIDE DEF m
  <2>4. /\ client'.step = "read" /\ client'.modes = m /\ client'.saw \in PerfReg
        /\ client' = [step |-> client'.step, modes |-> client'.modes, saw |-> client'.saw]
    BY <2>3, PerfIdleFacts DEF P!Idle
  <2>5. /\ ghost' = [chosen |-> ghost'.chosen, limited |-> ghost'.limited, raced |-> ghost'.raced]
        /\ ghost'.chosen = IF name = NoName THEN ghost.chosen ELSE name
        /\ ghost'.limited = (Len(m) = 2 \/ name = NoName)
        /\ ghost'.raced = ghost.raced
    <3>1. ghost = [chosen |-> ghost.chosen, limited |-> ghost.limited, raced |-> ghost.raced]
      BY DEF PerfInv, PerfType
    <3> DEFINE limited == Len(m) = 2 \/ name = NoName
    <3>2. ghost' = [ghost EXCEPT !.chosen = IF name = NoName THEN @ ELSE name,
                                 !.limited = limited]
      BY <2>3
    <3> HIDE DEF limited
    <3>3. /\ ghost' = [chosen |-> ghost'.chosen, limited |-> ghost'.limited, raced |-> ghost'.raced]
          /\ ghost'.chosen = IF name = NoName THEN ghost.chosen ELSE name
          /\ ghost'.limited = limited
          /\ ghost'.raced = ghost.raced
      BY <3>1, <3>2
    <3> QED
      BY <3>3 DEF limited
  <2>6. PerfType'
    BY <1>1, <1>2, <2>2, <2>4, <2>5 DEF PerfInv, PerfType, PerfReg, P!Machines,
                                        P!Interfaces
  <2>7. PerfExpected' = m[Len(m)] \/ ghost'.chosen = NoName
    BY <2>2, <2>5 DEF PerfExpected
  <2>8. PerfChosen'
    BY <1>1, <2>4, <2>5, <2>7 DEF PerfInv, PerfChosen
  <2> QED
    BY <2>6, <2>8 DEF PerfInv
<1> QED
  BY <1>3, <1>4

\* What a step leaves alone of the type invariant.
LEMMA PerfClientStep ==
    ASSUME PerfInv, UNCHANGED <<machine, shared, fans>>, reg' \in PerfReg,
           ghost' = [chosen |-> ghost'.chosen, limited |-> ghost'.limited, raced |-> ghost'.raced],
           \/ client' = P!Idle
           \/ /\ client' = [step |-> client'.step, modes |-> client'.modes, saw |-> client'.saw]
              /\ client'.step \in {"read", "write"}
              /\ client'.modes \in Seq(0 .. 3) /\ Len(client'.modes) \in 1 .. 2
              /\ client'.saw \in PerfReg
    PROVE  PerfType'
BY DEF PerfInv, PerfType, PerfReg, P!Machines, P!Interfaces

LEMMA PerfReadModeStep ==
    ASSUME PerfInv, P!ReadMode
    PROVE  PerfInv'
<1>1. /\ client.step = "read" /\ client # P!Idle
      /\ client' = [[client EXCEPT !.step = "write"] EXCEPT !.saw = reg]
      /\ UNCHANGED <<machine, shared, reg, fans, ghost>>
  BY PerfIdleFacts DEF P!ReadMode
<1>2. /\ client = [step |-> client.step, modes |-> client.modes, saw |-> client.saw]
      /\ client.modes \in Seq(0 .. 3) /\ Len(client.modes) \in 1 .. 2 /\ reg \in PerfReg
  BY <1>1 DEF PerfInv, PerfType
<1>3. client' = [step |-> "write", modes |-> client.modes, saw |-> reg]
  <2> DEFINE a == [client EXCEPT !.step = "write"]
  <2>1. a = [step |-> "write", modes |-> client.modes, saw |-> client.saw]
    BY <1>2
  <2>2. client' = [a EXCEPT !.saw = reg]
    BY <1>1
  <2> HIDE DEF a
  <2> QED
    BY <2>1, <2>2
<1>4. /\ client'.step = "write" /\ client'.modes = client.modes /\ client'.saw = reg
      /\ client' = [step |-> client'.step, modes |-> client'.modes, saw |-> client'.saw]
  BY <1>3
<1>5. PerfType'
  <2>1. ghost = [chosen |-> ghost.chosen, limited |-> ghost.limited, raced |-> ghost.raced]
    BY DEF PerfInv, PerfType
  <2> QED
    BY <1>1, <1>2, <1>4, <2>1, PerfClientStep
<1>6. PerfChosen'
  BY <1>1, <1>4 DEF PerfInv, PerfChosen, PerfExpected
<1> QED
  BY <1>5, <1>6 DEF PerfInv

LEMMA PerfWriteModeStep ==
    ASSUME PerfInv, P!WriteMode
    PROVE  PerfInv'
<1> DEFINE m == client.modes
<1>1. /\ client.step = "write" /\ client # P!Idle
      /\ reg' = [client.saw EXCEPT !.mode = Head(m)]
      /\ client' = IF Len(m) = 1 THEN P!Idle
                   ELSE [[client EXCEPT !.step = "read"] EXCEPT !.modes = Tail(m)]
      /\ ghost' = [ghost EXCEPT !.raced = @ \/ fans # {}]
      /\ UNCHANGED <<machine, shared, fans>>
  BY PerfIdleFacts DEF P!WriteMode
<1>2. /\ client = [step |-> client.step, modes |-> m, saw |-> client.saw]
      /\ m \in Seq(0 .. 3) /\ Len(m) \in 1 .. 2 /\ client.saw \in PerfReg
      /\ ghost = [chosen |-> ghost.chosen, limited |-> ghost.limited, raced |-> ghost.raced]
  BY <1>1 DEF PerfInv, PerfType
<1>m. m \in Seq(0 .. 3) /\ Len(m) \in 1 .. 2
  BY <1>1 DEF PerfInv, PerfType
<1>3. /\ Head(m) = m[1] /\ Head(m) \in 0 .. 3
      /\ Len(m) = 2 => Tail(m) \in Seq(0 .. 3) /\ Len(Tail(m)) = 1 /\ Tail(m)[1] = m[2]
  <2> HIDE DEF m
  <2>1. m # <<>> /\ Len(m) \in Nat
    <3>1. Len(m) # 0 /\ Len(m) \in Nat /\ Len(<<>>) = 0
      BY <1>m
    <3> QED
      BY <3>1
  <2>2. Head(m) = m[1] /\ Head(m) \in 0 .. 3
    BY <1>m, <2>1
  <2>3. Len(m) = 2 => Tail(m) \in Seq(0 .. 3) /\ Len(Tail(m)) = 1 /\ Tail(m)[1] = m[2]
    BY <1>m, <2>1
  <2> QED
    BY <2>2, <2>3
<1>4. reg' \in PerfReg /\ reg'.mode = m[1]
  <2> HIDE DEF m
  <2> QED
    BY <1>1, <1>2, <1>3 DEF PerfReg
<1>5. /\ ghost' = [chosen |-> ghost'.chosen, limited |-> ghost'.limited, raced |-> ghost'.raced]
      /\ ghost'.chosen = ghost.chosen /\ ghost'.limited = ghost.limited
      /\ ghost'.raced = (ghost.raced \/ fans # {})
  <2> DEFINE spanned == ghost.raced \/ fans # {}
  <2>1. ghost' = [ghost EXCEPT !.raced = spanned]
    BY <1>1
  <2> HIDE DEF spanned
  <2>2. /\ ghost' = [chosen |-> ghost'.chosen, limited |-> ghost'.limited, raced |-> ghost'.raced]
        /\ ghost'.chosen = ghost.chosen /\ ghost'.limited = ghost.limited
        /\ ghost'.raced = spanned
    BY <1>2, <2>1
  <2> QED
    BY <2>2 DEF spanned
<1>6. PerfExpected' = PerfExpected
  BY <1>5 DEF PerfExpected
<1>7. CASE Len(m) = 1
  <2>1. client' = P!Idle
    BY <1>1, <1>7
  <2>2. PerfType'
    BY <1>1, <1>4, <1>5, <2>1, PerfClientStep
  <2>3. PerfChosen'
    <3> SUFFICES ASSUME ~ghost'.raced
                 PROVE  fans' = {} /\ (ghost'.chosen # NoName => reg'.mode = PerfExpected')
      BY <2>1, PerfIdleFacts DEF PerfChosen
    <3>1. ~ghost.raced /\ fans = {} /\ client.step # "idle"
      BY <1>1, <1>5
    <3>2. ghost.chosen # NoName => m[Len(m)] = PerfExpected
      BY <3>1 DEF PerfInv, PerfChosen
    <3> QED
      BY <1>1, <1>4, <1>5, <1>6, <1>7, <3>1, <3>2
  <2> QED
    BY <2>2, <2>3 DEF PerfInv
<1>8. CASE Len(m) = 2
  <2>1. client' = [step |-> "read", modes |-> Tail(m), saw |-> client.saw]
    <3> DEFINE a == [client EXCEPT !.step = "read"]
    <3>1. a = [step |-> "read", modes |-> m, saw |-> client.saw]
      BY <1>2
    <3>2. client' = [a EXCEPT !.modes = Tail(m)]
      BY <1>1, <1>8
    <3> HIDE DEF a
    <3> QED
      BY <3>1, <3>2
  <2>2. /\ client'.step = "read" /\ client'.modes = Tail(m) /\ client'.saw = client.saw
        /\ client' = [step |-> client'.step, modes |-> client'.modes, saw |-> client'.saw]
    BY <2>1
  <2>3. PerfType'
    <3>1. client'.modes \in Seq(0 .. 3) /\ Len(client'.modes) \in 1 .. 2
      BY <1>3, <1>8, <2>2
    <3> QED
      BY <1>1, <1>2, <1>4, <1>5, <2>2, <3>1, PerfClientStep
  <2>4. client'.modes[Len(client'.modes)] = m[2]
    BY <1>3, <1>8, <2>2
  <2>5. PerfChosen'
    <3> SUFFICES ASSUME ~ghost'.raced
                 PROVE  fans' = {} /\ (ghost'.chosen # NoName =>
                                          client'.modes[Len(client'.modes)] = PerfExpected')
      BY <2>2 DEF PerfChosen
    <3>1. ~ghost.raced /\ fans = {} /\ client.step # "idle"
      BY <1>1, <1>5
    <3>2. ghost.chosen # NoName => m[Len(m)] = PerfExpected
      BY <3>1 DEF PerfInv, PerfChosen
    <3> QED
      BY <1>1, <1>5, <1>6, <1>8, <2>4, <3>1, <3>2
  <2> QED
    BY <2>3, <2>5 DEF PerfInv
<1> QED
  BY <1>2, <1>7, <1>8

\* The fans, the keyboard preview and the driver leave the call under way alone.
LEMMA PerfOtherStep ==
    ASSUME PerfInv,
           \/ P!PreviewKeyboard \/ P!ReadFanMode \/ P!LoadDriver
           \/ \E full \in BOOLEAN : P!WriteFanMode(full)
           \/ UNCHANGED P!vars
    PROVE  PerfInv'
<1>1. /\ machine' = machine /\ client' = client /\ ghost' = ghost
      /\ shared' = shared \/ shared' \in P!Shared
  BY DEF P!PreviewKeyboard, P!ReadFanMode, P!LoadDriver, P!WriteFanMode, P!vars
<1>2. shared' \in P!Interfaces \cup {"unset", "failed"}
  BY <1>1, PerfSharedFacts DEF PerfInv, PerfType
<1>3. /\ reg' \in PerfReg /\ fans' \subseteq PerfReg
      /\ ~ghost.raced => reg'.mode = reg.mode /\ \A saw \in fans' : saw.mode = reg.mode
  <2>1. /\ reg \in PerfReg /\ fans \subseteq PerfReg
        /\ ~ghost.raced => \A saw \in fans : saw.mode = reg.mode
    BY DEF PerfInv, PerfType, PerfChosen
  <2>2. CASE P!PreviewKeyboard \/ P!LoadDriver \/ UNCHANGED P!vars
    BY <2>1, <2>2 DEF P!PreviewKeyboard, P!LoadDriver, P!vars
  <2>3. CASE P!ReadFanMode
    BY <2>1, <2>3 DEF P!ReadFanMode
  <2>4. ASSUME NEW full \in BOOLEAN, P!WriteFanMode(full)
        PROVE  /\ reg' \in PerfReg /\ fans' \subseteq PerfReg
               /\ ~ghost.raced => reg'.mode = reg.mode /\ \A saw \in fans' : saw.mode = reg.mode
    <3>1. PICK saw \in fans : /\ reg' = IF full /\ saw.full THEN reg ELSE [saw EXCEPT !.full = full]
                              /\ fans' = {}
      BY <2>4 DEF P!WriteFanMode
    <3>2. saw \in PerfReg /\ (~ghost.raced => saw.mode = reg.mode)
      BY <2>1
    <3>3. [saw EXCEPT !.full = full] \in PerfReg /\ [saw EXCEPT !.full = full].mode = saw.mode
      BY <3>2 DEF PerfReg
    <3> QED
      BY <2>1, <3>1, <3>2, <3>3
  <2> QED
    BY <2>2, <2>3, <2>4
<1>4. PerfType'
  BY <1>1, <1>2, <1>3 DEF PerfInv, PerfType, PerfReg, P!Machines, P!Interfaces
<1>5. PerfChosen'
  BY <1>1, <1>3 DEF PerfInv, PerfChosen, PerfExpected
<1> QED
  BY <1>4, <1>5 DEF PerfInv

LEMMA PerfNext ==
    ASSUME PerfInv, P!Next
    PROVE  PerfInv'
BY PerfStartStep, PerfReadModeStep, PerfWriteModeStep, PerfOtherStep DEF P!Next

LEMMA PerfSafe ==
    ASSUME PerfInv
    PROVE  P!TypeOK /\ P!ChoiceStays
<1>1. client.step \in {"idle", "read", "write"} /\ Len(client.modes) \in 0 .. 2
  <2>1. CASE client = P!Idle
    BY <2>1 DEF P!Idle
  <2>2. CASE client # P!Idle
    BY <2>2 DEF PerfInv, PerfType
  <2> QED
    BY <2>1, <2>2
<1>2. P!TypeOK
  BY <1>1 DEF PerfInv, PerfType, PerfReg, P!TypeOK
<1>3. P!ChoiceStays
  BY DEF PerfInv, PerfChosen, P!ChoiceStays, P!Settled, PerfExpected
<1> QED
  BY <1>2, <1>3

-----------------------------------------------------------------------------
LightColors == UNION {[1 .. n -> L!Color] : n \in 0 .. 3}
LightModes == [kind : L!Kind, colors : LightColors, bright : L!Bright]
LightSettings == [control : BOOLEAN, mode : LightModes]

LightZoned == [effect : {"static", "breathe", "wave"}, color : L!Color, bright : L!Bright]

LightKbdWrite ==
    {w \in [field : {"effect", "color", "bright"}, zones : SUBSET L!Zone,
            value : {"static", "breathe", "wave"} \cup L!Color \cup L!Bright] :
        /\ w.field = "effect" => w.value \in {"static", "breathe", "wave"}
        /\ w.field = "color" => w.value \in L!Color
        /\ w.field = "bright" => w.value \in L!Bright}

LightElements(list) == {list[i] : i \in DOMAIN list}

LightType ==
    /\ keyboard \in Keyboards
    /\ kbd \in [L!Zone -> LightZoned]
    /\ draft \in LightSettings /\ lastSettings \in LightSettings
    /\ DOMAIN lights = L!Client
    /\ \A c \in L!Client : lights[c] \in Seq(LightKbdWrite)
    /\ asked \in [asked : LightModes \cup {NoMode}, raced : BOOLEAN, failed : BOOLEAN,
                 previewed : BOOLEAN]

\* The page's mode is one that the capabilities let it offer.
LightFits(mode) ==
    /\ mode.kind \in {"single", "breathe"} => DOMAIN mode.colors = 1 .. 1
    /\ mode.kind \in {"zones", "keys"} => DOMAIN mode.colors = 1 .. L!Caps.zones
    /\ mode.kind = "wave" => DOMAIN mode.colors = {}
    /\ mode.kind = "zones" => L!Caps.zones > 1
    /\ mode.kind = "keys" => L!Caps.keys
    /\ mode.kind \notin L!Static => L!Caps.effects

\* Every write in W to a field of zone z writes v, and there is one unless the
\* controller k has v already.
LightSettles(k, W, z, field, v) ==
    /\ \A w \in W : w.field = field /\ z \in w.zones => w.value = v
    /\ k[z][field] = v \/ \E w \in W : w.field = field /\ z \in w.zones

\* The writes in W leave a keyboard with these LEDs and colours as the mode has it.
LightLeads(leds, color, clevo, k, mode, W) ==
    \A z \in 1 .. leds :
        /\ LightSettles(k, W, z, "bright", mode.bright)
        /\ color /\ mode.colors # <<>> => LightSettles(k, W, z, "color", L!ColorOf(mode, z))
        /\ clevo \/ mode.kind \notin L!Static => LightSettles(k, W, z, "effect", L!Effect(mode.kind))

\* The mode that Save writes
LightSavedMode(settings) == IF settings.control THEN settings.mode ELSE L!White

\* While no other call interferes and no write fails, the page's writes lead to the
\* mode that it asked for, and to the one saved last unless another was previewed.
LightFollows ==
    ~asked.raced =>
        /\ ~L!Busy("other")
        /\ ~asked.failed =>
              /\ asked.asked # NoMode => 
                    LightLeads(L!Leds, L!Caps.color, L!OnClevo, kbd, asked.asked, LightElements(lights["page"]))
              /\ ~asked.previewed => 
                    LightLeads(L!Leds, L!Caps.color, L!OnClevo, kbd, LightSavedMode(lastSettings), LightElements(lights["page"]))

LightInv == L!KeyboardConstants /\ LightType /\ LightFits(draft.mode) /\ LightFollows

-----------------------------------------------------------------------------
(* Keyboard backlight *)

LEMMA LightConcatElements ==
    ASSUME NEW S, NEW s \in Seq(S), NEW t \in Seq(S)
    PROVE  s \o t \in Seq(S) /\ LightElements(s \o t) = LightElements(s) \cup LightElements(t)
<1>1. /\ Len(s) \in Nat /\ Len(t) \in Nat /\ DOMAIN s = 1 .. Len(s) /\ DOMAIN t = 1 .. Len(t)
      /\ s \o t \in Seq(S) /\ DOMAIN (s \o t) = 1 .. (Len(s) + Len(t))
      /\ \A i \in 1 .. (Len(s) + Len(t)) :
            (s \o t)[i] = IF i <= Len(s) THEN s[i] ELSE t[i - Len(s)]
  OBVIOUS
<1> DEFINE r == s \o t
<1> HIDE DEF r
<1>2. /\ DOMAIN r = 1 .. (Len(s) + Len(t))
      /\ \A i \in 1 .. (Len(s) + Len(t)) : r[i] = IF i <= Len(s) THEN s[i] ELSE t[i - Len(s)]
  BY <1>1 DEF r
<1>3. \A i \in DOMAIN r : (i \in DOMAIN s /\ r[i] = s[i])
                          \/ (i - Len(s) \in DOMAIN t /\ r[i] = t[i - Len(s)])
  BY <1>1, <1>2
<1>4. \A i \in DOMAIN s : i \in DOMAIN r /\ r[i] = s[i]
  BY <1>1, <1>2
<1>5. \A i \in DOMAIN t : i + Len(s) \in DOMAIN r /\ r[i + Len(s)] = t[i]
  BY <1>1, <1>2
<1>6. LightElements(r) = LightElements(s) \cup LightElements(t)
  BY <1>3, <1>4, <1>5 DEF LightElements
<1> QED
  BY <1>1, <1>6 DEF r

LEMMA LightHeadElements ==
    ASSUME NEW S, NEW s \in Seq(S), s # <<>>
    PROVE  /\ Head(s) \in S /\ Tail(s) \in Seq(S)
           /\ LightElements(s) = {Head(s)} \cup LightElements(Tail(s))
<1>1. /\ Len(s) \in Nat /\ Len(s) # 0 /\ DOMAIN s = 1 .. Len(s)
      /\ Head(s) = s[1] /\ Tail(s) \in Seq(S) /\ DOMAIN Tail(s) = 1 .. (Len(s) - 1)
      /\ \A i \in 1 .. (Len(s) - 1) : Tail(s)[i] = s[i + 1]
  OBVIOUS
<1>2. Head(s) \in S
  BY <1>1, ElementOfSeq
<1> DEFINE r == Tail(s)
           h == Head(s)
<1>3. /\ DOMAIN r = 1 .. (Len(s) - 1) /\ h = s[1]
      /\ \A i \in 1 .. (Len(s) - 1) : r[i] = s[i + 1]
  BY <1>1
<1> HIDE DEF r, h
<1>4. \A i \in DOMAIN s : s[i] = h \/ (i - 1 \in DOMAIN r /\ s[i] = r[i - 1])
  BY <1>1, <1>3
<1>5. \A i \in DOMAIN r : i + 1 \in DOMAIN s /\ r[i] = s[i + 1]
  BY <1>1, <1>3
<1>6. 1 \in DOMAIN s /\ s[1] = h
  BY <1>1, <1>3
<1>7. LightElements(s) = {h} \cup LightElements(r)
  BY <1>4, <1>5, <1>6 DEF LightElements
<1> QED
  BY <1>1, <1>2, <1>7 DEF r, h

\* A list of writes, and the set of those in it.
LightWritesAre(list, W) == list \in Seq(LightKbdWrite) /\ LightElements(list) = W

LEMMA LightWritesFacts ==
    /\ LightWritesAre(<<>>, {})
    /\ \A w \in LightKbdWrite : LightWritesAre(<<w>>, {w})
    /\ \A condition, list, W :
          (condition => LightWritesAre(list, W)) =>
              LightWritesAre(L!If(condition, list), IF condition THEN W ELSE {})
    /\ \A s, t, V, W : LightWritesAre(s, V) /\ LightWritesAre(t, W) => LightWritesAre(s \o t, V \cup W)
<1>1. LightWritesAre(<<>>, {})
  BY DEF LightWritesAre, LightElements
<1>2. ASSUME NEW w \in LightKbdWrite PROVE LightWritesAre(<<w>>, {w})
  BY DEF LightWritesAre, LightElements
<1>3. ASSUME NEW condition, NEW list, NEW W, condition => LightWritesAre(list, W)
      PROVE  LightWritesAre(L!If(condition, list), IF condition THEN W ELSE {})
  BY <1>1, <1>3 DEF L!If
<1>4. ASSUME NEW s, NEW t, NEW V, NEW W, LightWritesAre(s, V), LightWritesAre(t, W)
      PROVE  LightWritesAre(s \o t, V \cup W)
  BY <1>4, LightConcatElements DEF LightWritesAre
<1> QED
  BY <1>1, <1>2, <1>3, <1>4

LEMMA LightLedFacts ==
    ASSUME L!KeyboardConstants, keyboard \in Keyboards
    PROVE  /\ keyboard \in L!MachineType
           /\ L!Leds \in 0 .. 3 /\ \A z \in 1 .. L!Leds : z \in L!Zone
           /\ L!Leds > 0 /\ L!Caps.color => keyboard.rgb /\ L!Caps.zones = L!Leds
           /\ L!Caps.zones > 1 => L!Caps.zones = L!Leds
           /\ L!Caps.zones \in 0 .. 3
           /\ L!Caps.keys => L!Leds = 0
           /\ L!Leds > 0 /\ L!Caps.effects => keyboard.modeFiles
           /\ L!Leds > 0 => L!Available
<1>1. /\ keyboard \in L!MachineType /\ (keyboard.platform # "none" => keyboard.rgb)
      /\ keyboard.class \in {0, 1, 2, 3} /\ keyboard.platform \in {"none", "three", "rgb"}
  BY DEF L!KeyboardConstants, L!MachineType, L!Zone
<1>2. L!Leds \in 0 .. 3
  BY <1>1 DEF L!Leds
<1>3. CASE keyboard.platform # "none" \/ (keyboard.class > 0 /\ keyboard.rgb)
  <2>1. /\ L!Caps.zones = L!Leds /\ ~L!Caps.keys /\ L!Caps.effects = keyboard.modeFiles
    BY <1>3 DEF L!Caps
  <2>2. keyboard.rgb
    BY <1>1, <1>3
  <2> QED
    BY <1>1, <1>2, <2>1, <2>2 DEF L!Zone, L!Available
<1>4. CASE ~(keyboard.platform # "none" \/ (keyboard.class > 0 /\ keyboard.rgb)) /\ keyboard.class > 0
  <2>1. L!Caps.zones = 1 /\ ~L!Caps.keys /\ ~L!Caps.color /\ ~L!Caps.effects
    BY <1>4 DEF L!Caps
  <2> QED
    BY <1>1, <1>2, <2>1 DEF L!Zone, L!Available
<1>5. CASE keyboard.platform = "none" /\ keyboard.class = 0
  <2>1. L!Caps.zones = 0 /\ ~L!Caps.effects
    BY <1>5 DEF L!Caps
  <2>2. L!Leds = 0
    BY <1>5 DEF L!Leds
  <2> QED
    BY <1>1, <2>1, <2>2 DEF L!Zone, L!Available
<1> QED
  BY <1>1, <1>3, <1>4, <1>5

\* The colour of every zone that a mode colours is a colour.
LEMMA LightColorFacts ==
    ASSUME L!KeyboardConstants, keyboard \in Keyboards, NEW mode, L!IsMode(mode)
    PROVE  \A i \in L!Zone : i <= L!ColoredZones(mode) => L!ColorOf(mode, i) \in L!Color
<1>1. /\ mode.colors \in Seq(L!Color) /\ mode.kind \in L!Kind
      /\ mode.kind \in {"single", "breathe"} => mode.colors # <<>>
  BY DEF L!IsMode
<1>2. mode.colors # <<>> => mode.colors[1] \in L!Color
  <2> DEFINE cs == mode.colors
  <2>1. cs \in Seq(L!Color)
    BY <1>1
  <2> HIDE DEF cs
  <2>2. cs # <<>> => cs[1] \in L!Color
    <3> SUFFICES ASSUME cs # <<>> PROVE cs[1] \in L!Color
      OBVIOUS
    <3>1. 1 \in 1 .. Len(cs)
      BY <2>1
    <3> QED
      BY <2>1, <3>1, ElementOfSeq
  <2> QED
    BY <2>2 DEF cs
<1>3. CASE mode.kind \in {"zones", "keys"}
  <2>1. L!ColoredZones(mode) = Len(mode.colors)
    BY <1>3 DEF L!ColoredZones
  <2>2. \A i \in L!Zone : i <= Len(mode.colors) => mode.colors[i] \in L!Color
    <3> DEFINE cs == mode.colors
    <3>1. cs \in Seq(L!Color)
      BY <1>1
    <3> HIDE DEF cs
    <3>2. ASSUME NEW i \in L!Zone, i <= Len(cs) PROVE cs[i] \in L!Color
      <4>1. i \in 1 .. Len(cs)
        BY <3>1, <3>2 DEF L!Zone
      <4> QED
        BY <3>1, <4>1, ElementOfSeq
    <3> QED
      BY <3>2 DEF cs
  <2> QED
    BY <1>3, <2>1, <2>2 DEF L!ColorOf
<1>4. CASE mode.kind \in {"single", "breathe"}
  BY <1>1, <1>2, <1>4 DEF L!ColorOf
<1>5. CASE mode.kind = "wave"
  <2>1. L!ColoredZones(mode) = 0
    BY <1>5 DEF L!ColoredZones
  <2> QED
    BY <2>1 DEF L!Zone
<1> QED
  BY <1>1, <1>3, <1>4, <1>5 DEF L!Kind, L!Static

LEMMA LightFitsIsMode ==
    ASSUME L!KeyboardConstants, keyboard \in Keyboards, NEW mode \in LightModes, LightFits(mode)
    PROVE  L!IsMode(mode)
<1>1. /\ mode = [kind |-> mode.kind, colors |-> mode.colors, bright |-> mode.bright]
      /\ mode.kind \in L!Kind /\ mode.bright \in L!Bright
  BY DEF LightModes
<1>2. PICK n \in 0 .. 3 : mode.colors \in [1 .. n -> L!Color]
  BY DEF LightModes, LightColors
<1> DEFINE cs == mode.colors
<1>3. cs \in [1 .. n -> L!Color]
  BY <1>2
<1>4. mode.kind \in {"single", "breathe"} => DOMAIN cs = 1 .. 1
  BY DEF LightFits
<1> HIDE DEF cs
<1>5. cs \in Seq(L!Color)
  BY <1>3
<1>6. DOMAIN cs = 1 .. 1 => cs # <<>>
  BY <1>3
<1> QED
  BY <1>1, <1>4, <1>5, <1>6 DEF L!IsMode, cs

\* What set_mode writes, as sets
LightEffectSet(kind) ==
    (IF L!OnClevo THEN {L!Write("effect", L!Zone, L!Effect(kind))} ELSE {})
        \cup IF kind \notin L!Static /\ keyboard.modeFiles
               THEN {L!Write("effect", {i}, kind) : i \in 1 .. L!Leds} ELSE {}

LightZoneSet(i, color) ==
    (IF L!OnClevo /\ i \in L!Zone THEN {L!Write("color", {i}, color)} ELSE {})
        \cup IF i <= L!Leds /\ keyboard.rgb THEN {L!Write("color", {i}, color)} ELSE {}

LightNthSet(mode, i) ==
    IF i <= L!ColoredZones(mode) THEN LightZoneSet(i, L!ColorOf(mode, i)) ELSE {}

LightBrightSet(bright) ==
    (IF L!OnClevo THEN {L!Write("bright", L!Zone, bright)} ELSE {})
        \cup {L!Write("bright", {i}, bright) : i \in 1 .. L!Leds}

LightModeSet(mode) ==
    (LightEffectSet(mode.kind) \cup (LightNthSet(mode, 1) \cup LightNthSet(mode, 2) \cup LightNthSet(mode, 3)))
        \cup LightBrightSet(mode.bright)

LEMMA LightSetModeFacts ==
    ASSUME L!KeyboardConstants, keyboard \in Keyboards, NEW mode, L!IsMode(mode)
    PROVE  LightWritesAre(L!SetMode(mode), LightModeSet(mode))
<1>1. mode.kind \in L!Kind /\ mode.bright \in L!Bright
  BY DEF L!IsMode
<1>2. L!Leds \in 0 .. 3 /\ \A i \in 1 .. L!Leds : i \in L!Zone
  BY LightLedFacts
<1>3. LightWritesAre(L!EffectWrites(mode.kind), LightEffectSet(mode.kind))
  <2> DEFINE clevo == <<L!Write("effect", L!Zone, L!Effect(mode.kind))>>
             files == [i \in 1 .. L!Leds |-> L!Write("effect", {i}, mode.kind)]
  <2>1. L!Write("effect", L!Zone, L!Effect(mode.kind)) \in LightKbdWrite
    BY <1>1 DEF L!Write, LightKbdWrite, L!Effect, L!Kind, L!Static
  <2>2. LightWritesAre(L!If(L!OnClevo, clevo),
                  IF L!OnClevo THEN {L!Write("effect", L!Zone, L!Effect(mode.kind))} ELSE {})
    <3>1. LightWritesAre(clevo, {L!Write("effect", L!Zone, L!Effect(mode.kind))})
      BY <2>1, LightWritesFacts
    <3> HIDE DEF clevo
    <3> QED
      BY <3>1, LightWritesFacts
  <2>3. mode.kind \notin L!Static =>
          LightWritesAre(files, {L!Write("effect", {i}, mode.kind) : i \in 1 .. L!Leds})
    <3> SUFFICES ASSUME mode.kind \notin L!Static
                 PROVE  LightWritesAre(files, {L!Write("effect", {i}, mode.kind) : i \in 1 .. L!Leds})
      OBVIOUS
    <3>1. \A i \in 1 .. L!Leds : L!Write("effect", {i}, mode.kind) \in LightKbdWrite
      BY <1>1, <1>2 DEF L!Write, LightKbdWrite, L!Kind, L!Static
    <3> DEFINE W == {L!Write("effect", {i}, mode.kind) : i \in 1 .. L!Leds}
    <3>2. files \in [1 .. L!Leds -> LightKbdWrite] /\ \A w : w \in W <=> \E i \in 1 .. L!Leds : w = files[i]
      BY <3>1
    <3> HIDE DEF files, W
    <3>3. files \in Seq(LightKbdWrite) /\ DOMAIN files = 1 .. L!Leds
      BY <1>2, <3>2
    <3>4. LightWritesAre(files, W)
      BY <3>2, <3>3 DEF LightWritesAre, LightElements
    <3> QED
      BY <3>4 DEF W
  <2> DEFINE condition == mode.kind \notin L!Static /\ keyboard.modeFiles
             shown == {L!Write("effect", {i}, mode.kind) : i \in 1 .. L!Leds}
  <2>4. LightWritesAre(L!If(condition, files), IF condition THEN shown ELSE {})
    <3>1. condition => LightWritesAre(files, shown)
      BY <2>3
    <3> HIDE DEF condition, files, shown
    <3> QED
      BY <3>1, LightWritesFacts
  <2>5. L!EffectWrites(mode.kind) = L!If(L!OnClevo, clevo) \o L!If(condition, files)
    BY DEF L!EffectWrites, L!Each
  <2>6. LightEffectSet(mode.kind)
          = (IF L!OnClevo THEN {L!Write("effect", L!Zone, L!Effect(mode.kind))} ELSE {})
              \cup IF condition THEN shown ELSE {}
    BY DEF LightEffectSet
  <2> HIDE DEF clevo, files, condition, shown
  <2> QED
    BY <2>2, <2>4, <2>5, <2>6, LightWritesFacts
<1>4. ASSUME NEW i \in L!Zone, NEW color \in L!Color
      PROVE  LightWritesAre(L!ZoneWrites(i, color), LightZoneSet(i, color))
  <2>1. L!Write("color", {i}, color) \in LightKbdWrite
    BY DEF L!Write, LightKbdWrite, L!Color
  <2> DEFINE w == L!Write("color", {i}, color)
             ioctl == L!OnClevo /\ i \in L!Zone
             file == i <= L!Leds /\ keyboard.rgb
  <2>2. LightWritesAre(<<w>>, {w})
    BY <2>1, LightWritesFacts
  <2>3. L!ZoneWrites(i, color) = L!If(ioctl, <<w>>) \o L!If(file, <<w>>)
    BY DEF L!ZoneWrites
  <2>4. LightZoneSet(i, color) = (IF ioctl THEN {w} ELSE {}) \cup IF file THEN {w} ELSE {}
    BY DEF LightZoneSet
  <2> HIDE DEF w, ioctl, file
  <2>5. LightWritesAre(L!If(ioctl, <<w>>), IF ioctl THEN {w} ELSE {})
    BY <2>2, LightWritesFacts
  <2>6. LightWritesAre(L!If(file, <<w>>), IF file THEN {w} ELSE {})
    BY <2>2, LightWritesFacts
  <2> QED
    BY <2>3, <2>4, <2>5, <2>6, LightWritesFacts
<1>5. ASSUME NEW i \in L!Zone
      PROVE  LightWritesAre(L!If(i <= L!ColoredZones(mode), L!ZoneWrites(i, L!ColorOf(mode, i))),
                       LightNthSet(mode, i))
  <2> DEFINE c == i <= L!ColoredZones(mode)
             list == L!ZoneWrites(i, L!ColorOf(mode, i))
             W == LightZoneSet(i, L!ColorOf(mode, i))
  <2>1. c => LightWritesAre(list, W)
    BY <1>4, LightColorFacts
  <2>2. LightNthSet(mode, i) = IF c THEN W ELSE {}
    BY DEF LightNthSet
  <2> HIDE DEF c, list, W
  <2>3. LightWritesAre(L!If(c, list), LightNthSet(mode, i))
    BY <2>1, <2>2, LightWritesFacts
  <2> QED
    BY <2>3 DEF c, list
<1>6. LightWritesAre(L!ColorWrites(mode), LightNthSet(mode, 1) \cup LightNthSet(mode, 2) \cup LightNthSet(mode, 3))
  <2> DEFINE nth(i) == L!If(i <= L!ColoredZones(mode), L!ZoneWrites(i, L!ColorOf(mode, i)))
  <2>1. LightWritesAre(nth(1), LightNthSet(mode, 1)) /\ LightWritesAre(nth(2), LightNthSet(mode, 2))
        /\ LightWritesAre(nth(3), LightNthSet(mode, 3))
    BY <1>5 DEF L!Zone
  <2>2. L!ColorWrites(mode) = nth(1) \o nth(2) \o nth(3)
    BY DEF L!ColorWrites
  <2> HIDE DEF nth
  <2>3. LightWritesAre(nth(1) \o nth(2), LightNthSet(mode, 1) \cup LightNthSet(mode, 2))
    BY <2>1, LightWritesFacts
  <2> QED
    BY <2>1, <2>2, <2>3, LightWritesFacts
<1>7. LightWritesAre(L!BrightWrites(mode.bright), LightBrightSet(mode.bright))
  <2> DEFINE clevo == L!Write("bright", L!Zone, mode.bright)
             files == [i \in 1 .. L!Leds |-> L!Write("bright", {i}, mode.bright)]
             shown == {L!Write("bright", {i}, mode.bright) : i \in 1 .. L!Leds}
  <2>1. clevo \in LightKbdWrite
    BY <1>1 DEF L!Write, LightKbdWrite, L!Bright
  <2>2. \A i \in 1 .. L!Leds : L!Write("bright", {i}, mode.bright) \in LightKbdWrite
    BY <1>1, <1>2 DEF L!Write, LightKbdWrite, L!Bright
  <2>3. LightWritesAre(files, shown)
    <3>1. files \in [1 .. L!Leds -> LightKbdWrite]
          /\ \A w : w \in shown <=> \E i \in 1 .. L!Leds : w = files[i]
      BY <2>2
    <3> HIDE DEF files, shown
    <3>2. files \in Seq(LightKbdWrite) /\ DOMAIN files = 1 .. L!Leds
      BY <1>2, <3>1
    <3> QED
      BY <3>1, <3>2 DEF LightWritesAre, LightElements
  <2>4. L!BrightWrites(mode.bright) = L!If(L!OnClevo, <<clevo>>) \o files
    BY DEF L!BrightWrites, L!Each
  <2>5. LightBrightSet(mode.bright) = (IF L!OnClevo THEN {clevo} ELSE {}) \cup shown
    BY DEF LightBrightSet
  <2> HIDE DEF clevo, files, shown
  <2>6. LightWritesAre(L!If(L!OnClevo, <<clevo>>), IF L!OnClevo THEN {clevo} ELSE {})
    BY <2>1, LightWritesFacts
  <2> QED
    BY <2>3, <2>4, <2>5, <2>6, LightWritesFacts
<1>8. L!SetMode(mode) = (L!EffectWrites(mode.kind) \o L!ColorWrites(mode)) \o L!BrightWrites(mode.bright)
  BY DEF L!SetMode
<1> DEFINE colored == LightNthSet(mode, 1) \cup LightNthSet(mode, 2) \cup LightNthSet(mode, 3)
           e == L!EffectWrites(mode.kind)
           c == L!ColorWrites(mode)
           b == L!BrightWrites(mode.bright)
<1>9. LightWritesAre(e, LightEffectSet(mode.kind)) /\ LightWritesAre(c, colored)
      /\ LightWritesAre(b, LightBrightSet(mode.bright))
  BY <1>3, <1>6, <1>7
<1>10. LightModeSet(mode) = (LightEffectSet(mode.kind) \cup colored) \cup LightBrightSet(mode.bright)
  BY DEF LightModeSet
<1>11. L!SetMode(mode) = (e \o c) \o b
  BY <1>8
<1> HIDE DEF colored, e, c, b
<1>12. LightWritesAre(e \o c, LightEffectSet(mode.kind) \cup colored)
  BY <1>9, LightWritesFacts
<1> QED
  BY <1>9, <1>10, <1>11, <1>12, LightWritesFacts

\* Every LED is a zone that the mode colours, if it has colours.
LEMMA LightColoredFacts ==
    ASSUME L!KeyboardConstants, keyboard \in Keyboards, NEW mode \in LightModes, LightFits(mode),
           mode.colors # <<>>
    PROVE  \A z \in 1 .. L!Leds : z <= L!ColoredZones(mode)
<1> SUFFICES ASSUME NEW z \in 1 .. L!Leds PROVE z <= L!ColoredZones(mode)
  OBVIOUS
<1>1. L!Leds \in 0 .. 3 /\ (L!Caps.zones > 1 => L!Caps.zones = L!Leds) /\ (L!Caps.keys => L!Leds = 0)
      /\ z \in L!Zone /\ L!Leds > 0
  BY LightLedFacts
<1>2. CASE mode.kind = "single"
  BY <1>1, <1>2 DEF L!ColoredZones, L!Zone
<1>3. CASE mode.kind = "zones"
  <2>1. DOMAIN mode.colors = 1 .. L!Leds
    BY <1>1, <1>3 DEF LightFits
  <2>2. mode.colors \in Seq(L!Color)
    BY LightFitsIsMode DEF L!IsMode
  <2>3. Len(mode.colors) = L!Leds
    BY <1>1, <2>1, <2>2
  <2> QED
    BY <1>1, <1>3, <2>3 DEF L!ColoredZones
<1>4. CASE mode.kind = "keys"
  BY <1>1, <1>4 DEF LightFits
<1>5. CASE mode.kind = "breathe"
  BY <1>1, <1>5 DEF L!ColoredZones
<1>6. CASE mode.kind = "wave"
  <2>1. DOMAIN mode.colors = {}
    BY <1>6 DEF LightFits
  <2>2. mode.colors \in Seq(L!Color)
    BY LightFitsIsMode DEF L!IsMode
  <2>3. mode.colors = <<>>
    <3> DEFINE cs == mode.colors
    <3>1. cs \in Seq(L!Color) /\ DOMAIN cs = {}
      BY <2>1, <2>2
    <3> HIDE DEF cs
    <3>2. Len(cs) = 0
      <4>1. Len(cs) \in Nat /\ DOMAIN cs = 1 .. Len(cs)
        BY <3>1
      <4> QED
        BY <3>1, <4>1
    <3>3. cs = <<>>
      BY <3>1, <3>2
    <3> QED
      BY <3>3 DEF cs
  <2> QED
    BY <2>3
<1> QED
  BY <1>2, <1>3, <1>4, <1>5, <1>6 DEF LightModes, L!Kind, L!Static

LEMMA LightSetModeLeads ==
    ASSUME L!KeyboardConstants, keyboard \in Keyboards, NEW mode \in LightModes, LightFits(mode), NEW k
    PROVE  LightLeads(L!Leds, L!Caps.color, L!OnClevo, k, mode, LightModeSet(mode))
<1> SUFFICES ASSUME NEW z \in 1 .. L!Leds
             PROVE  /\ LightSettles(k, LightModeSet(mode), z, "bright", mode.bright)
                    /\ L!Caps.color /\ mode.colors # <<>> =>
                          LightSettles(k, LightModeSet(mode), z, "color", L!ColorOf(mode, z))
                    /\ L!OnClevo \/ mode.kind \notin L!Static =>
                          LightSettles(k, LightModeSet(mode), z, "effect", L!Effect(mode.kind))
  BY DEF LightLeads
<1>1. /\ L!Leds \in 0 .. 3 /\ z \in L!Zone /\ L!Leds > 0
      /\ (L!Caps.color => keyboard.rgb) /\ (L!Caps.effects => keyboard.modeFiles)
      /\ \A i \in 1 .. L!Leds : i \in L!Zone
  BY LightLedFacts
<1>2. \A w \in LightEffectSet(mode.kind) : w.field = "effect" /\ w.value = L!Effect(mode.kind)
  BY DEF LightEffectSet, L!Write, L!Effect
<1>3. \A w \in LightBrightSet(mode.bright) : w.field = "bright" /\ w.value = mode.bright
  BY DEF LightBrightSet, L!Write
<1>4. \A i \in L!Zone : \A w \in LightNthSet(mode, i) :
          w.field = "color" /\ w.zones = {i} /\ w.value = L!ColorOf(mode, i)
  BY DEF LightNthSet, LightZoneSet, L!Write
<1>5. \A w \in LightModeSet(mode) :
          \/ w \in LightEffectSet(mode.kind) \/ w \in LightBrightSet(mode.bright)
          \/ \E i \in L!Zone : w \in LightNthSet(mode, i)
  BY DEF LightModeSet, L!Zone
<1>6. LightSettles(k, LightModeSet(mode), z, "bright", mode.bright)
  <2>1. L!Write("bright", {z}, mode.bright) \in LightModeSet(mode)
    BY DEF LightModeSet, LightBrightSet
  <2>2. L!Write("bright", {z}, mode.bright).field = "bright"
        /\ z \in L!Write("bright", {z}, mode.bright).zones
    BY DEF L!Write
  <2>3. \A w \in LightModeSet(mode) : w.field = "bright" => w.value = mode.bright
    BY <1>2, <1>3, <1>4, <1>5
  <2> QED
    BY <2>1, <2>2, <2>3 DEF LightSettles
<1>7. ASSUME L!Caps.color, mode.colors # <<>>
      PROVE  LightSettles(k, LightModeSet(mode), z, "color", L!ColorOf(mode, z))
  <2> DEFINE w == L!Write("color", {z}, L!ColorOf(mode, z))
  <2>1. w \in LightZoneSet(z, L!ColorOf(mode, z))
    <3>1. z <= L!Leds /\ keyboard.rgb
      BY <1>1, <1>7
    <3> QED
      BY <3>1 DEF LightZoneSet
  <2>2. w \in LightNthSet(mode, z)
    BY <1>7, <2>1, LightColoredFacts DEF LightNthSet
  <2>3. w \in LightModeSet(mode)
    BY <1>1, <2>2 DEF LightModeSet, L!Zone
  <2>4. w.field = "color" /\ z \in w.zones
    BY DEF L!Write
  <2>5. \A v \in LightModeSet(mode) : v.field = "color" /\ z \in v.zones => v.value = L!ColorOf(mode, z)
    BY <1>2, <1>3, <1>4, <1>5
  <2> HIDE DEF w
  <2> QED
    BY <2>3, <2>4, <2>5 DEF LightSettles
<1>8. ASSUME L!OnClevo \/ mode.kind \notin L!Static
      PROVE  LightSettles(k, LightModeSet(mode), z, "effect", L!Effect(mode.kind))
  <2>1. \A v \in LightModeSet(mode) : v.field = "effect" => v.value = L!Effect(mode.kind)
    BY <1>2, <1>3, <1>4, <1>5
  <2>2. \E v \in LightEffectSet(mode.kind) : v.field = "effect" /\ z \in v.zones
    <3>1. CASE L!OnClevo
      <4>1. L!Write("effect", L!Zone, L!Effect(mode.kind)) \in LightEffectSet(mode.kind)
        BY <3>1 DEF LightEffectSet
      <4>2. L!Write("effect", L!Zone, L!Effect(mode.kind)).field = "effect"
            /\ L!Write("effect", L!Zone, L!Effect(mode.kind)).zones = L!Zone
        BY DEF L!Write
      <4> QED
        BY <1>1, <4>1, <4>2
    <3>2. CASE mode.kind \notin L!Static
      <4>1. keyboard.modeFiles
        BY <1>1, <3>2 DEF LightFits
      <4>2. L!Write("effect", {z}, mode.kind) \in LightEffectSet(mode.kind)
        BY <3>2, <4>1 DEF LightEffectSet
      <4>3. L!Write("effect", {z}, mode.kind).field = "effect"
            /\ z \in L!Write("effect", {z}, mode.kind).zones
        BY DEF L!Write
      <4> QED
        BY <4>2, <4>3
    <3> QED
      BY <1>8, <3>1, <3>2
  <2>3. LightEffectSet(mode.kind) \subseteq LightModeSet(mode)
    BY DEF LightModeSet
  <2> QED
    BY <2>1, <2>2, <2>3 DEF LightSettles
<1> QED
  BY <1>6, <1>7, <1>8

\* A write of the list leads on to the same mode.
LEMMA LightLeadsOn ==
    ASSUME NEW leds \in 0 .. 3, NEW color, NEW clevo, NEW k \in [L!Zone -> LightZoned], NEW mode,
           NEW list \in Seq(LightKbdWrite), list # <<>>,
           LightLeads(leds, color, clevo, k, mode, LightElements(list)),
           NEW after,
           after = [z \in L!Zone |-> IF z \in Head(list).zones
                                     THEN [k[z] EXCEPT ![Head(list).field] = Head(list).value]
                                     ELSE k[z]]
    PROVE  LightLeads(leds, color, clevo, after, mode, LightElements(Tail(list)))
<1> DEFINE w == Head(list)
           W == LightElements(list)
           T == LightElements(Tail(list))
<1>1. w \in LightKbdWrite /\ W = {w} \cup T
  BY LightHeadElements
<1>2. w.field \in {"effect", "color", "bright"}
  BY <1>1 DEF LightKbdWrite
<1>3. after = [z \in L!Zone |-> IF z \in w.zones THEN [k[z] EXCEPT ![w.field] = w.value]
                              ELSE k[z]]
  OBVIOUS
<1>4. LightLeads(leds, color, clevo, k, mode, W)
  OBVIOUS
<1> HIDE DEF w, W, T
<1>5. ASSUME NEW z \in L!Zone, NEW f \in {"effect", "color", "bright"}
      PROVE  after[z][f] = IF z \in w.zones /\ w.field = f THEN w.value ELSE k[z][f]
  <2>1. DOMAIN k[z] = {"effect", "color", "bright"}
    BY DEF LightZoned
  <2>2. after[z] = IF z \in w.zones THEN [k[z] EXCEPT ![w.field] = w.value] ELSE k[z]
    BY <1>3
  <2> DEFINE cell == k[z]
  <2>3. DOMAIN cell = {"effect", "color", "bright"}
    BY <2>1
  <2> HIDE DEF cell
  <2>4. [cell EXCEPT ![w.field] = w.value][f] = IF w.field = f THEN w.value ELSE cell[f]
    BY <2>3
  <2> QED
    BY <2>2, <2>4 DEF cell
<1>6. ASSUME NEW z \in L!Zone, NEW f \in {"effect", "color", "bright"}, NEW v,
             LightSettles(k, W, z, f, v)
      PROVE  LightSettles(after, T, z, f, v)
  BY <1>1, <1>5, <1>6 DEF LightSettles
<1>7. \A z \in 1 .. leds : z \in L!Zone
  BY DEF L!Zone
<1>8. LightLeads(leds, color, clevo, after, mode, T)
  BY <1>4, <1>6, <1>7 DEF LightLeads
<1> QED
  BY <1>8 DEF T

LEMMA LightLedsStay ==
    ASSUME UNCHANGED keyboard
    PROVE  /\ L!Leds' = L!Leds /\ L!Caps' = L!Caps /\ L!OnClevo' = L!OnClevo /\ L!Available' = L!Available
           /\ \A mode : LightFits(mode)' <=> LightFits(mode)
<1>1. L!Leds' = L!Leds
  BY DEF L!Leds
<1>2. L!Caps' = L!Caps
  BY <1>1 DEF L!Caps
<1> QED
  BY <1>1, <1>2 DEF L!OnClevo, L!Available, LightFits

LEMMA LightWhiteFacts ==
    ASSUME L!KeyboardConstants, keyboard \in Keyboards
    PROVE  L!White \in LightModes /\ L!DefaultSettings \in LightSettings /\ LightFits(L!White)
           /\ L!DefaultSettings.mode = L!White /\ L!DefaultSettings.control = FALSE
<1>1. <<"white">> \in [1 .. 1 -> L!Color]
  BY DEF L!Color
<1>2. <<"white">> \in LightColors
  BY <1>1 DEF LightColors
<1>3. /\ L!White.kind = "single" /\ L!White.colors = <<"white">> /\ L!White.bright = "half"
      /\ L!White \in LightModes
  BY <1>2 DEF L!White, L!Mode, LightModes, L!Kind, L!Static, L!Bright
<1>4. DOMAIN L!White.colors = 1 .. 1
  BY <1>1, <1>3
<1> QED
  BY <1>3, <1>4 DEF LightFits, L!Static, L!DefaultSettings, LightSettings

LEMMA LightSavedFacts ==
    ASSUME L!KeyboardConstants, keyboard \in Keyboards, NEW settings \in LightSettings,
           LightFits(settings.mode)
    PROVE  LightSavedMode(settings) \in LightModes /\ LightFits(LightSavedMode(settings))
<1>1. settings.mode \in LightModes
  BY DEF LightSettings
<1> QED
  BY <1>1, LightWhiteFacts DEF LightSavedMode

\* The page's call for a mode that fits leads to it.
LEMMA LightSetLeads ==
    ASSUME L!KeyboardConstants, keyboard \in Keyboards, NEW mode \in LightModes, LightFits(mode), NEW k
    PROVE  /\ L!SetMode(mode) \in Seq(LightKbdWrite)
           /\ LightLeads(L!Leds, L!Caps.color, L!OnClevo, k, mode, LightElements(L!SetMode(mode)))
<1>1. LightWritesAre(L!SetMode(mode), LightModeSet(mode))
  BY LightFitsIsMode, LightSetModeFacts
<1>2. LightLeads(L!Leds, L!Caps.color, L!OnClevo, k, mode, LightModeSet(mode))
  BY LightSetModeLeads
<1> QED
  BY <1>1, <1>2 DEF LightWritesAre

LEMMA LightInit ==
    ASSUME L!KeyboardConstants, L!Init
    PROVE  LightInv
<1>1. keyboard \in Keyboards /\ draft = L!DefaultSettings /\ lastSettings = L!DefaultSettings
      /\ kbd = [z \in L!Zone |-> [effect |-> "static", color |-> "white", bright |-> "half"]]
      /\ lights = [c \in L!Client |-> <<>>]
      /\ asked = [asked |-> NoMode, raced |-> FALSE, failed |-> FALSE, previewed |-> FALSE]
  BY DEF L!Init
<1>2. L!DefaultSettings \in LightSettings /\ L!DefaultSettings.mode = L!White /\ LightFits(L!White)
      /\ L!DefaultSettings.control = FALSE
  BY <1>1, LightWhiteFacts
<1>3. LightType
  <2>1. kbd \in [L!Zone -> LightZoned]
    BY <1>1 DEF LightZoned, L!Color, L!Bright
  <2>2. DOMAIN lights = L!Client /\ \A c \in L!Client : lights[c] = <<>>
    BY <1>1
  <2>3. \A c \in L!Client : lights[c] \in Seq(LightKbdWrite)
    <3>1. <<>> \in Seq(LightKbdWrite)
      OBVIOUS
    <3> QED
      BY <2>2, <3>1
  <2>4. asked \in [asked : LightModes \cup {NoMode}, raced : BOOLEAN, failed : BOOLEAN,
                   previewed : BOOLEAN]
    BY <1>1
  <2> QED
    BY <1>1, <1>2, <2>1, <2>2, <2>3, <2>4 DEF LightType
<1>4. LightFollows
  <2>1. ~L!Busy("other") /\ asked.asked = NoMode /\ lights["page"] = <<>>
    BY <1>1 DEF L!Busy, L!Client
  <2>2. LightSavedMode(lastSettings) = L!White
    BY <1>1, <1>2 DEF LightSavedMode
  <2>3. LightElements(lights["page"]) = {}
    BY <2>1 DEF LightElements
  <2>4. LightLeads(L!Leds, L!Caps.color, L!OnClevo, kbd, L!White, {})
    <3> SUFFICES ASSUME NEW z \in 1 .. L!Leds
                 PROVE  /\ kbd[z]["bright"] = L!White.bright
                        /\ kbd[z]["color"] = L!ColorOf(L!White, z)
                        /\ kbd[z]["effect"] = L!Effect(L!White.kind)
      BY DEF LightLeads, LightSettles
    <3>1. z \in L!Zone
      BY <1>1, LightLedFacts
    <3>2. kbd[z] = [effect |-> "static", color |-> "white", bright |-> "half"]
      BY <1>1, <3>1
    <3>3. L!White.kind = "single" /\ L!White.colors = <<"white">> /\ L!White.bright = "half"
      BY DEF L!White, L!Mode
    <3>4. L!ColorOf(L!White, z) = "white"
      BY <3>3 DEF L!ColorOf
    <3> QED
      BY <3>2, <3>3, <3>4 DEF L!Effect, L!Static
  <2> QED
    BY <2>1, <2>2, <2>3, <2>4 DEF LightFollows
<1> QED
  BY <1>1, <1>2, <1>3, <1>4 DEF LightInv

LEMMA LightPreviewStep ==
    ASSUME LightInv, L!Preview
    PROVE  LightInv'
<1>1. /\ L!KeyboardConstants /\ LightType /\ LightFits(draft.mode)
      /\ lights' = [lights EXCEPT !["page"] = L!SetMode(draft.mode)]
      /\ asked' = [asked |-> draft.mode, raced |-> L!Busy("other"), failed |-> FALSE,
                   previewed |-> TRUE]
      /\ UNCHANGED <<keyboard, kbd, draft, lastSettings>>
  BY DEF LightInv, L!Preview
<1>2. keyboard \in Keyboards /\ draft.mode \in LightModes
  BY <1>1 DEF LightType, LightSettings
<1>3. /\ L!SetMode(draft.mode) \in Seq(LightKbdWrite)
      /\ LightLeads(L!Leds, L!Caps.color, L!OnClevo, kbd, draft.mode, LightElements(L!SetMode(draft.mode)))
  BY <1>1, <1>2, LightSetLeads
<1>4. /\ DOMAIN lights' = L!Client /\ lights'["page"] = L!SetMode(draft.mode)
      /\ lights'["other"] = lights["other"]
  BY <1>1 DEF LightType, L!Client
<1>5. /\ asked'.asked = draft.mode /\ asked'.raced = L!Busy("other") /\ asked'.failed = FALSE
      /\ asked'.previewed = TRUE
  BY <1>1
<1>6. asked' \in [asked : LightModes \cup {NoMode}, raced : BOOLEAN, failed : BOOLEAN,
                  previewed : BOOLEAN]
  BY <1>1, <1>2 DEF L!Busy
<1>7. L!Leds' = L!Leds /\ L!Caps' = L!Caps /\ L!OnClevo' = L!OnClevo
      /\ \A mode : LightFits(mode)' <=> LightFits(mode)
  BY <1>1, LightLedsStay
<1>8. LightType'
  BY <1>1, <1>3, <1>4, <1>6 DEF LightType, L!Client
<1>9. LightFollows'
  BY <1>1, <1>3, <1>4, <1>5, <1>7 DEF LightFollows, L!Busy
<1> QED
  BY <1>1, <1>7, <1>8, <1>9 DEF LightInv

LEMMA LightSaveStep ==
    ASSUME LightInv, L!Save
    PROVE  LightInv'
<1> DEFINE mode == LightSavedMode(draft)
           skipped == draft = lastSettings
<1>1. /\ L!KeyboardConstants /\ LightType /\ LightFits(draft.mode) /\ LightFollows
      /\ ~L!Busy("page") /\ lastSettings' = draft
      /\ UNCHANGED <<keyboard, kbd, draft>>
  BY DEF LightInv, L!Save
<1>2. IF skipped \/ ~L!Available
        THEN /\ UNCHANGED lights
             /\ asked' = [asked EXCEPT !.asked = IF skipped THEN mode ELSE NoMode,
                                       !.raced = @ \/ asked.previewed]
        ELSE /\ lights' = [lights EXCEPT !["page"] = L!SetMode(mode)]
             /\ asked' = [asked |-> mode, raced |-> L!Busy("other"), failed |-> FALSE,
                          previewed |-> FALSE]
  BY DEF L!Save, LightSavedMode
<1>3. keyboard \in Keyboards /\ mode \in LightModes /\ LightFits(mode) /\ draft \in LightSettings
  BY <1>1, LightSavedFacts DEF LightType
<1>4. /\ L!SetMode(mode) \in Seq(LightKbdWrite)
      /\ \A k : LightLeads(L!Leds, L!Caps.color, L!OnClevo, k, mode, LightElements(L!SetMode(mode)))
  BY <1>1, <1>3, LightSetLeads
<1>5. L!Leds' = L!Leds /\ L!Caps' = L!Caps /\ L!OnClevo' = L!OnClevo
      /\ \A m : LightFits(m)' <=> LightFits(m)
  BY <1>1, LightLedsStay
<1>6. mode = LightSavedMode(lastSettings')
  BY <1>1
<1> HIDE DEF mode
<1>7. CASE ~(skipped \/ ~L!Available)
  <2>1. /\ lights' = [lights EXCEPT !["page"] = L!SetMode(mode)]
        /\ asked' = [asked |-> mode, raced |-> L!Busy("other"), failed |-> FALSE,
                     previewed |-> FALSE]
    BY <1>2, <1>7
  <2>2. /\ DOMAIN lights' = L!Client /\ lights'["page"] = L!SetMode(mode)
        /\ lights'["other"] = lights["other"]
    BY <1>1, <2>1 DEF LightType, L!Client
  <2>3. /\ asked'.asked = mode /\ asked'.raced = L!Busy("other")
    BY <2>1
  <2>4. asked' \in [asked : LightModes \cup {NoMode}, raced : BOOLEAN, failed : BOOLEAN,
                    previewed : BOOLEAN]
    BY <1>3, <2>1 DEF L!Busy
  <2>5. LightType'
    BY <1>1, <1>3, <1>4, <2>2, <2>4 DEF LightType, L!Client
  <2>6. LightFollows'
    BY <1>1, <1>4, <1>5, <1>6, <2>2, <2>3 DEF LightFollows, L!Busy
  <2> QED
    BY <1>1, <1>5, <2>5, <2>6 DEF LightInv
<1>8. CASE skipped \/ ~L!Available
  <2>1. /\ UNCHANGED lights
        /\ asked' = [asked EXCEPT !.asked = IF skipped THEN mode ELSE NoMode,
                                  !.raced = @ \/ asked.previewed]
    BY <1>2, <1>8
  <2> DEFINE old == asked
             new == asked'
  <2>2. old \in [asked : LightModes \cup {NoMode}, raced : BOOLEAN, failed : BOOLEAN,
                 previewed : BOOLEAN]
    BY <1>1 DEF LightType
  <2>3. new = [old EXCEPT !.asked = IF skipped THEN mode ELSE NoMode,
                          !.raced = old.raced \/ old.previewed]
    BY <2>1
  <2> HIDE DEF old, new
  <2>4. /\ new.asked = (IF skipped THEN mode ELSE NoMode) /\ new.raced = (old.raced \/ old.previewed)
        /\ new.failed = old.failed /\ new.previewed = old.previewed
        /\ new \in [asked : LightModes \cup {NoMode}, raced : BOOLEAN, failed : BOOLEAN,
                    previewed : BOOLEAN]
    BY <1>3, <2>2, <2>3
  <2> USE DEF old, new
  <2>5. LightType'
    BY <1>1, <1>3, <2>1, <2>4 DEF LightType
  <2>6. LightFollows'
    <3> SUFFICES ASSUME ~asked'.raced
                 PROVE  /\ ~L!Busy("other")'
                        /\ ~asked'.failed =>
                              /\ asked'.asked # NoMode =>
                                    LightLeads(L!Leds', L!Caps'.color, L!OnClevo', kbd', asked'.asked,
                                          LightElements(lights'["page"]))
                              /\ ~asked'.previewed =>
                                    LightLeads(L!Leds', L!Caps'.color, L!OnClevo', kbd', LightSavedMode(lastSettings'),
                                          LightElements(lights'["page"]))
      BY DEF LightFollows
    <3>1. ~asked.raced /\ ~asked.previewed /\ asked'.failed = asked.failed
      BY <2>4
    <3>2. ~L!Busy("other") /\ ~L!Busy("other")'
      BY <1>1, <2>1, <3>1 DEF LightFollows, L!Busy
    <3>3. CASE skipped
      BY <1>1, <1>5, <1>6, <2>1, <2>4, <3>1, <3>2, <3>3 DEF LightFollows
    <3>4. CASE ~skipped
      <4>1. ~L!Available
        BY <1>8, <3>4
      <4>2. L!Leds = 0
        BY <1>1, <1>3, <4>1, LightLedFacts
      <4>3. \A W : LightLeads(L!Leds', L!Caps'.color, L!OnClevo', kbd', LightSavedMode(lastSettings'), W)
        BY <1>5, <4>2 DEF LightLeads
      <4>4. asked'.asked = NoMode
        BY <2>4, <3>4
      <4> QED
        BY <3>2, <4>3, <4>4
    <3> QED
      BY <3>3, <3>4
  <2> QED
    BY <1>1, <1>5, <2>5, <2>6 DEF LightInv
<1> QED
  BY <1>7, <1>8

LEMMA LightOtherPreviewStep ==
    ASSUME LightInv, L!OtherPreview
    PROVE  LightInv'
<1>1. /\ L!KeyboardConstants /\ LightType /\ LightFits(draft.mode)
      /\ asked' = [asked EXCEPT !.raced = TRUE, !.previewed = TRUE]
      /\ UNCHANGED <<keyboard, kbd, draft, lastSettings>>
  BY DEF LightInv, L!OtherPreview
<1>2. PICK mode \in Foreign : lights' = [lights EXCEPT !["other"] = L!SetMode(mode)]
  BY DEF L!OtherPreview
<1>3. L!IsMode(mode) /\ keyboard \in Keyboards
  BY <1>1 DEF L!KeyboardConstants, LightType
<1>4. L!SetMode(mode) \in Seq(LightKbdWrite)
  BY <1>1, <1>3, LightSetModeFacts DEF LightWritesAre
<1>5. DOMAIN lights' = L!Client /\ \A c \in L!Client : lights'[c] \in Seq(LightKbdWrite)
  BY <1>1, <1>2, <1>4 DEF LightType
<1>6. /\ asked' \in [asked : LightModes \cup {NoMode}, raced : BOOLEAN, failed : BOOLEAN,
                     previewed : BOOLEAN]
      /\ asked'.raced = TRUE
  BY <1>1 DEF LightType
<1>7. \A m : LightFits(m)' <=> LightFits(m)
  BY <1>1, LightLedsStay
<1>8. LightType'
  BY <1>1, <1>5, <1>6 DEF LightType
<1>9. LightFollows'
  BY <1>6 DEF LightFollows
<1> QED
  BY <1>1, <1>7, <1>8, <1>9 DEF LightInv

LEMMA LightWriteNextStep ==
    ASSUME LightInv, NEW c \in L!Client, L!WriteNext(c)
    PROVE  LightInv'
<1>1. /\ L!KeyboardConstants /\ LightType /\ LightFits(draft.mode) /\ LightFollows
      /\ L!Busy(c)
      /\ lights' = [lights EXCEPT ![c] = Tail(lights[c])]
      /\ UNCHANGED <<keyboard, draft, lastSettings>>
  BY DEF LightInv, L!WriteNext
<1>2. \/ /\ kbd' = [z \in L!Zone |-> IF z \in Head(lights[c]).zones
                                     THEN [kbd[z] EXCEPT ![Head(lights[c]).field] = Head(lights[c]).value]
                                     ELSE kbd[z]]
         /\ UNCHANGED asked
      \/ /\ asked' = [asked EXCEPT !.failed = TRUE]
         /\ UNCHANGED kbd
  BY DEF L!WriteNext
<1>3. lights[c] \in Seq(LightKbdWrite) /\ lights[c] # <<>>
  BY <1>1 DEF LightType, L!Busy
<1>4. Head(lights[c]) \in LightKbdWrite /\ Tail(lights[c]) \in Seq(LightKbdWrite)
  BY <1>3, LightHeadElements
<1>5. /\ DOMAIN lights' = L!Client /\ lights'[c] = Tail(lights[c])
      /\ \A d \in L!Client : d # c => lights'[d] = lights[d]
  BY <1>1 DEF LightType
<1>6. L!Leds' = L!Leds /\ L!Caps' = L!Caps /\ L!OnClevo' = L!OnClevo
      /\ \A m : LightFits(m)' <=> LightFits(m)
  BY <1>1, LightLedsStay
<1>7. \A d \in L!Client : lights'[d] \in Seq(LightKbdWrite)
  BY <1>1, <1>4, <1>5 DEF LightType
<1>8. CASE kbd' = [z \in L!Zone |-> IF z \in Head(lights[c]).zones
                                    THEN [kbd[z] EXCEPT ![Head(lights[c]).field] = Head(lights[c]).value]
                                    ELSE kbd[z]]
           /\ UNCHANGED asked
  <2> DEFINE w == Head(lights[c])
  <2>1. w \in LightKbdWrite /\ UNCHANGED asked
        /\ kbd' = [z \in L!Zone |-> IF z \in w.zones THEN [kbd[z] EXCEPT ![w.field] = w.value]
                                  ELSE kbd[z]]
    BY <1>4, <1>8
  <2> HIDE DEF w
  <2>2. ASSUME NEW z \in L!Zone PROVE [kbd[z] EXCEPT ![w.field] = w.value] \in LightZoned
    <3> DEFINE cell == kbd[z]
    <3>1. cell \in LightZoned
      BY <1>1 DEF LightType
    <3>2. \/ w.field = "effect" /\ w.value \in {"static", "breathe", "wave"}
          \/ w.field = "color" /\ w.value \in L!Color
          \/ w.field = "bright" /\ w.value \in L!Bright
      BY <2>1 DEF LightKbdWrite
    <3> HIDE DEF cell
    <3>3. [cell EXCEPT ![w.field] = w.value] \in LightZoned
      BY <3>1, <3>2 DEF LightZoned
    <3> QED
      BY <3>3 DEF cell
  <2>3. kbd' \in [L!Zone -> LightZoned]
    BY <1>1, <2>1, <2>2 DEF LightType
  <2>4. LightType'
    BY <1>1, <1>5, <1>7, <2>1, <2>3 DEF LightType
  <2>5. LightFollows'
    <3> SUFFICES ASSUME ~asked.raced
                 PROVE  LightFollows'
      BY <2>1 DEF LightFollows
    <3>1. ~L!Busy("other") /\ c = "page" /\ lights'["other"] = lights["other"]
      BY <1>1, <1>5 DEF LightFollows, L!Client
    <3>2. ~L!Busy("other")'
      BY <3>1 DEF L!Busy
    <3>3. L!Leds \in 0 .. 3 /\ kbd \in [L!Zone -> LightZoned]
      BY <1>1, LightLedFacts DEF LightType
    <3> DEFINE leds == L!Leds
               color == L!Caps.color
               clevo == L!OnClevo
               list == lights["page"]
    <3>4. /\ list \in Seq(LightKbdWrite) /\ list # <<>> /\ leds \in 0 .. 3
          /\ kbd' = [z \in L!Zone |-> IF z \in Head(list).zones
                                     THEN [kbd[z] EXCEPT ![Head(list).field] = Head(list).value]
                                     ELSE kbd[z]]
      BY <1>3, <1>8, <3>1, <3>3
    <3> HIDE DEF leds, color, clevo, list
    <3>5. \A mode : LightLeads(leds, color, clevo, kbd, mode, LightElements(list))
                      => LightLeads(leds, color, clevo, kbd', mode, LightElements(Tail(list)))
      BY <3>3, <3>4, LightLeadsOn
    <3> USE DEF leds, color, clevo, list
    <3>6. lights'["page"] = Tail(list)
      BY <1>5, <3>1
    <3> QED
      BY <1>1, <1>6, <2>1, <3>2, <3>5, <3>6 DEF LightFollows
  <2> QED
    BY <1>1, <1>6, <2>4, <2>5 DEF LightInv
<1>9. CASE asked' = [asked EXCEPT !.failed = TRUE] /\ UNCHANGED kbd
  <2>1. /\ asked' \in [asked : LightModes \cup {NoMode}, raced : BOOLEAN, failed : BOOLEAN,
                       previewed : BOOLEAN]
        /\ asked'.failed = TRUE /\ asked'.raced = asked.raced
    BY <1>1, <1>9 DEF LightType
  <2>2. LightType'
    BY <1>1, <1>5, <1>7, <1>9, <2>1 DEF LightType
  <2>3. ~asked'.raced => ~L!Busy("other")'
    <3> SUFFICES ASSUME ~asked.raced PROVE ~L!Busy("other")'
      BY <2>1
    <3>1. ~L!Busy("other") /\ c = "page" /\ lights'["other"] = lights["other"]
      BY <1>1, <1>5 DEF LightFollows, L!Client
    <3> QED
      BY <3>1 DEF L!Busy
  <2>4. LightFollows'
    BY <2>1, <2>3 DEF LightFollows
  <2> QED
    BY <1>1, <1>6, <2>2, <2>4 DEF LightInv
<1> QED
  BY <1>2, <1>8, <1>9

\* What the page edits, it can be asked for.
LEMMA LightEditStep ==
    ASSUME LightInv, NEW settings \in LightSettings, LightFits(settings.mode), L!Edit(settings)
    PROVE  LightInv'
<1>1. /\ L!KeyboardConstants /\ LightType /\ LightFollows
      /\ draft' = settings
      /\ UNCHANGED <<keyboard, kbd, lastSettings, lights, asked>>
  BY DEF LightInv, L!Edit
<1>2. L!Leds' = L!Leds /\ L!Caps' = L!Caps /\ L!OnClevo' = L!OnClevo
      /\ \A m : LightFits(m)' <=> LightFits(m)
  BY <1>1, LightLedsStay
<1>3. LightType'
  BY <1>1 DEF LightType
<1>4. LightFollows'
  BY <1>1, <1>2 DEF LightFollows, L!Busy
<1> QED
  BY <1>1, <1>2, <1>3, <1>4 DEF LightInv

LEMMA LightEditFacts ==
    ASSUME LightInv
    PROVE  /\ L!KeyboardConstants /\ keyboard \in Keyboards
           /\ draft \in LightSettings /\ draft.mode \in LightModes
           /\ draft.control \in BOOLEAN /\ LightFits(draft.mode)
  BY DEF LightInv, LightType, LightSettings

LEMMA LightToggleStep ==
    ASSUME LightInv, L!ToggleControl
    PROVE  LightInv'
<1> DEFINE old == draft
<1>1. old \in LightSettings /\ LightFits(old.mode)
  BY LightEditFacts
<1>2. L!Edit(IF draft.control THEN L!DefaultSettings ELSE [old EXCEPT !.control = TRUE])
  BY DEF L!ToggleControl
<1> HIDE DEF old
<1>3. [old EXCEPT !.control = TRUE] \in LightSettings /\ [old EXCEPT !.control = TRUE].mode = old.mode
  BY <1>1 DEF LightSettings
<1>4. L!DefaultSettings \in LightSettings /\ LightFits(L!DefaultSettings.mode)
  BY LightEditFacts, LightWhiteFacts
<1>5. CASE draft.control
  BY <1>2, <1>4, <1>5, LightEditStep
<1>6. CASE ~draft.control
  BY <1>1, <1>2, <1>3, <1>6, LightEditStep
<1> QED
  BY <1>5, <1>6

LEMMA LightResetStep ==
    ASSUME LightInv, L!Reset
    PROVE  LightInv'
<1>1. L!DefaultSettings \in LightSettings /\ LightFits(L!DefaultSettings.mode)
  BY LightEditFacts, LightWhiteFacts
<1> QED
  BY <1>1, LightEditStep DEF L!Reset

\* The page writes its draft with another mode.
LEMMA LightModeEdit ==
    ASSUME NEW old \in LightSettings, NEW mode \in LightModes
    PROVE  /\ [old EXCEPT !.mode = mode] \in LightSettings
           /\ [old EXCEPT !.mode = mode].mode = mode
  BY DEF LightSettings

LEMMA LightSelectModeStep ==
    ASSUME LightInv, NEW kind \in L!Kind, L!SelectMode(kind)
    PROVE  LightInv'
<1> DEFINE mode == L!NewMode(kind)
<1>1. draft \in LightSettings /\ L!Offered(kind) /\ L!Edit([draft EXCEPT !.mode = mode])
  BY LightEditFacts DEF L!SelectMode
<1>2. L!Caps.zones \in 0 .. 3
  BY LightEditFacts, LightLedFacts
<1> DEFINE colors == CASE kind \in {"single", "breathe"} -> <<"white">>
                       [] kind \in {"zones", "keys"} -> [i \in 1 .. L!Caps.zones |-> "white"]
                       [] kind = "wave" -> <<>>
<1>3. mode.kind = kind /\ mode.colors = colors /\ mode.bright = "half"
      /\ mode = [kind |-> kind, colors |-> colors, bright |-> "half"]
  BY DEF L!NewMode, L!Mode
<1>4. /\ kind \in {"single", "breathe"} => colors \in [1 .. 1 -> L!Color]
      /\ kind \in {"zones", "keys"} => colors \in [1 .. L!Caps.zones -> L!Color]
      /\ kind = "wave" => colors \in [1 .. 0 -> L!Color]
  BY <1>2 DEF L!Color, L!Kind, L!Static
<1>5. kind \in {"single", "breathe", "zones", "keys", "wave"}
  BY DEF L!Kind, L!Static
<1> HIDE DEF colors
<1>6. colors \in LightColors
  <2> DEFINE n == IF kind \in {"single", "breathe"} THEN 1
                  ELSE IF kind = "wave" THEN 0 ELSE L!Caps.zones
  <2>1. n \in 0 .. 3 /\ colors \in [1 .. n -> L!Color]
    <3>1. CASE kind \in {"single", "breathe"}
      BY <1>4, <3>1
    <3>2. CASE kind \in {"zones", "keys"}
      BY <1>2, <1>4, <3>2
    <3>3. CASE kind = "wave"
      BY <1>4, <3>3
    <3> QED
      BY <1>5, <3>1, <3>2, <3>3
  <2> HIDE DEF n
  <2> QED
    BY <2>1 DEF LightColors
<1>7. mode \in LightModes
  BY <1>3, <1>6 DEF LightModes, L!Bright
<1>8. LightFits(mode)
  <2>1. /\ kind = "zones" => L!Caps.zones > 1
        /\ kind = "keys" => L!Caps.keys
        /\ kind \notin L!Static => L!Caps.effects
    BY <1>1, <1>5 DEF L!Offered, L!Static
  <2>2. /\ kind \in {"single", "breathe"} => DOMAIN colors = 1 .. 1
        /\ kind \in {"zones", "keys"} => DOMAIN colors = 1 .. L!Caps.zones
        /\ kind = "wave" => DOMAIN colors = {}
    BY <1>4
  <2> HIDE DEF mode
  <2> QED
    BY <1>3, <2>1, <2>2 DEF LightFits
<1> HIDE DEF mode
<1> QED
  BY <1>1, <1>7, <1>8, LightModeEdit, LightEditStep

LEMMA LightEditColorStep ==
    ASSUME LightInv, NEW i \in L!Zone, NEW color \in L!Color, L!EditColor(i, color)
    PROVE  LightInv'
<1> DEFINE old == draft
           m == draft.mode
           cs == draft.mode.colors
           new == [cs EXCEPT ![i] = color]
           mode == [m EXCEPT !.colors = new]
<1>1. old \in LightSettings /\ m \in LightModes /\ LightFits(m) /\ i \in DOMAIN cs
      /\ L!Edit([draft EXCEPT !.mode.colors[i] = color])
  BY LightEditFacts DEF L!EditColor
<1>2. [draft EXCEPT !.mode.colors[i] = color] = [old EXCEPT !.mode = mode]
  OBVIOUS
<1>3. PICK n \in 0 .. 3 : cs \in [1 .. n -> L!Color]
  BY <1>1 DEF LightModes, LightColors
<1> HIDE DEF cs
<1>4. new \in [1 .. n -> L!Color] /\ DOMAIN new = DOMAIN cs
  BY <1>3
<1> HIDE DEF new
<1>5. new \in LightColors
  BY <1>3, <1>4 DEF LightColors
<1>6. m.colors = cs
  BY DEF cs
<1> HIDE DEF m
<1>7. mode \in LightModes /\ mode.kind = m.kind /\ mode.colors = new
  BY <1>1, <1>5 DEF LightModes
<1> HIDE DEF mode
<1>8. LightFits(mode)
  BY <1>1, <1>4, <1>6, <1>7 DEF LightFits
<1> QED
  BY <1>1, <1>2, <1>7, <1>8, LightModeEdit, LightEditStep

LEMMA LightEditBrightnessStep ==
    ASSUME LightInv, NEW bright \in L!Bright, L!EditBrightness(bright)
    PROVE  LightInv'
<1> DEFINE old == draft
           m == draft.mode
           mode == [m EXCEPT !.bright = bright]
<1>1. old \in LightSettings /\ m \in LightModes /\ LightFits(m)
      /\ L!Edit([draft EXCEPT !.mode.bright = bright])
  BY LightEditFacts DEF L!EditBrightness
<1>2. [draft EXCEPT !.mode.bright = bright] = [old EXCEPT !.mode = mode]
  OBVIOUS
<1> HIDE DEF m
<1>3. mode \in LightModes /\ mode.kind = m.kind /\ mode.colors = m.colors
  BY <1>1 DEF LightModes
<1> HIDE DEF mode
<1>4. LightFits(mode)
  BY <1>1, <1>3 DEF LightFits
<1> QED
  BY <1>1, <1>2, <1>3, <1>4, LightModeEdit, LightEditStep

LEMMA LightNext ==
    ASSUME LightInv, L!Next
    PROVE  LightInv'
<1>1. CASE L!Preview
  BY <1>1, LightPreviewStep
<1>2. CASE L!Save
  BY <1>2, LightSaveStep
<1>3. CASE L!OtherPreview
  BY <1>3, LightOtherPreviewStep
<1>4. CASE \E c \in L!Client : L!WriteNext(c)
  BY <1>4, LightWriteNextStep
<1>5. CASE L!ToggleControl
  BY <1>5, LightToggleStep
<1>6. CASE L!Reset
  BY <1>6, LightResetStep
<1>7. CASE \E kind \in L!Kind : L!SelectMode(kind)
  BY <1>7, LightSelectModeStep
<1>8. CASE \E i \in L!Zone, color \in L!Color : L!EditColor(i, color)
  BY <1>8, LightEditColorStep
<1>9. CASE \E bright \in L!Bright : L!EditBrightness(bright)
  BY <1>9, LightEditBrightnessStep
<1> QED
  BY <1>1, <1>2, <1>3, <1>4, <1>5, <1>6, <1>7, <1>8, <1>9 DEF L!Next

LEMMA LightStutter ==
    ASSUME LightInv, UNCHANGED L!vars
    PROVE  LightInv'
<1>1. UNCHANGED <<keyboard, kbd, draft, lastSettings, lights, asked>>
  BY DEF L!vars
<1>2. L!Leds' = L!Leds /\ L!Caps' = L!Caps /\ L!OnClevo' = L!OnClevo
      /\ \A m : LightFits(m)' <=> LightFits(m)
  BY <1>1, LightLedsStay
<1> QED
  BY <1>1, <1>2 DEF LightInv, LightType, LightFollows, L!Busy

LEMMA LightSafe ==
    ASSUME LightInv
    PROVE  L!TypeOK /\ L!AskedIsShown
<1>1. /\ LightType /\ LightFollows /\ keyboard \in Keyboards
      /\ asked.asked \in LightModes \cup {NoMode}
  BY DEF LightInv, LightType
<1>2. ASSUME NEW c \in L!Client, NEW i \in DOMAIN lights[c]
      PROVE  lights[c][i].field \in {"effect", "color", "bright"} /\ lights[c][i].zones \subseteq L!Zone
  <2> DEFINE list == lights[c]
  <2>1. list \in Seq(LightKbdWrite) /\ i \in DOMAIN list
    BY <1>1, <1>2 DEF LightType
  <2> HIDE DEF list
  <2>2. list[i] \in LightKbdWrite
    BY <2>1, ElementOfSeq
  <2> QED
    BY <2>2 DEF list, LightKbdWrite
<1>3. L!TypeOK
  BY <1>1, <1>2 DEF L!TypeOK, LightType, LightSettings, LightModes, LightColors,
                    LightZoned
<1>4. L!AskedIsShown
  <2> SUFFICES ASSUME L!Quiet, asked.asked # NoMode, ~asked.raced, ~asked.failed,
                      NEW z \in 1 .. L!Leds
               PROVE  LET mode == asked.asked IN
                      /\ kbd[z].bright = mode.bright
                      /\ L!Caps.color /\ mode.colors # <<>> => kbd[z].color = L!ColorOf(mode, z)
                      /\ L!OnClevo \/ mode.kind \notin L!Static => kbd[z].effect = L!Effect(mode.kind)
    BY DEF L!AskedIsShown
  <2>1. lights["page"] = <<>>
    BY DEF L!Quiet, L!Busy, L!Client
  <2>2. LightElements(lights["page"]) = {}
    BY <2>1 DEF LightElements
  <2>3. LightLeads(L!Leds, L!Caps.color, L!OnClevo, kbd, asked.asked, {})
    BY <1>1, <2>2 DEF LightFollows
  <2>4. \A field, v : LightSettles(kbd, {}, z, field, v) => kbd[z][field] = v
    BY DEF LightSettles
  <2> QED
    BY <2>3, <2>4 DEF LightLeads
<1> QED
  BY <1>3, <1>4

-----------------------------------------------------------------------------
(* The setters together *)

SettersInv == Types /\ FreqInv /\ ChargeInv /\ PerfInv /\ LightInv

LEMMA SettersInitially == SettersInit => SettersInv
<1> SUFFICES ASSUME SettersInit PROVE SettersInv
  OBVIOUS
<1>1. Types
  BY InitTypes DEF SettersInit
<1>2. FreqInv
  BY FreqInit, SettersAssumption DEF SettersInit
<1>3. ChargeInv
  BY ChargeInit, SettersAssumption DEF SettersInit
<1>4. PerfInv
  BY PerfInit DEF SettersInit
<1>5. LightInv
  BY LightInit, SettersAssumption DEF SettersInit
<1> QED
  BY <1>1, <1>2, <1>3, <1>4, <1>5 DEF SettersInv

\* A part that does not move keeps its invariant.
LEMMA SettersStay ==
    ASSUME SettersInv
    PROVE  /\ UNCHANGED vars => Types'
           /\ UNCHANGED freqVars => FreqInv'
           /\ UNCHANGED chargeVars => ChargeInv'
           /\ UNCHANGED perfVars => PerfInv'
           /\ UNCHANGED lightVars => LightInv'
<1>1. UNCHANGED vars => Types'
  BY StepTypes DEF SettersInv
<1>2. ASSUME UNCHANGED freqVars PROVE FreqInv'
  <2>1. UNCHANGED C!vars
    BY <1>2 DEF freqVars, C!vars
  <2> QED
    BY <2>1, FreqStutter DEF SettersInv
<1>3. ASSUME UNCHANGED chargeVars PROVE ChargeInv'
  <2>1. UNCHANGED B!vars
    BY <1>3 DEF chargeVars, B!vars, B!pageVars
  <2> QED
    BY <2>1, ChargeStutter DEF SettersInv
<1>4. ASSUME UNCHANGED perfVars PROVE PerfInv'
  <2>1. UNCHANGED P!vars
    BY <1>4 DEF perfVars, P!vars
  <2> QED
    BY <2>1, PerfOtherStep DEF SettersInv
<1>5. ASSUME UNCHANGED lightVars PROVE LightInv'
  <2>1. UNCHANGED L!vars
    BY <1>5 DEF lightVars, L!vars
  <2> QED
    BY <2>1, LightStutter DEF SettersInv
<1> QED
  BY <1>1, <1>2, <1>3, <1>4, <1>5

LEMMA SettersStep == SettersInv /\ [SettersNext]_settersVars => SettersInv'
<1> SUFFICES ASSUME SettersInv, [SettersNext]_settersVars PROVE SettersInv'
  OBVIOUS
<1>1. CASE ProfileStep
  <2>1. Next /\ UNCHANGED freqVars /\ UNCHANGED chargeVars /\ UNCHANGED perfVars
        /\ UNCHANGED lightVars
    BY <1>1 DEF ProfileStep
  <2>2. Types'
    BY <2>1, StepTypes DEF SettersInv
  <2> QED
    BY <2>1, <2>2, SettersStay DEF SettersInv
<1>2. CASE FreqStep
  <2>1. C!Next /\ UNCHANGED vars /\ UNCHANGED chargeVars /\ UNCHANGED perfVars
        /\ UNCHANGED lightVars
    BY <1>2 DEF FreqStep
  <2>2. FreqInv'
    BY <2>1, FreqNext DEF SettersInv
  <2> QED
    BY <2>1, <2>2, SettersStay DEF SettersInv
<1>3. CASE ChargeStep
  <2>1. B!Next /\ UNCHANGED vars /\ UNCHANGED freqVars /\ UNCHANGED perfVars
        /\ UNCHANGED lightVars
    BY <1>3 DEF ChargeStep
  <2>2. ChargeInv'
    BY <2>1, ChargeNext DEF SettersInv
  <2> QED
    BY <2>1, <2>2, SettersStay DEF SettersInv
<1>4. CASE PerfStep
  <2>1. P!Next /\ UNCHANGED vars /\ UNCHANGED freqVars /\ UNCHANGED chargeVars
        /\ UNCHANGED lightVars
    BY <1>4 DEF PerfStep
  <2>2. PerfInv'
    BY <2>1, PerfNext DEF SettersInv
  <2> QED
    BY <2>1, <2>2, SettersStay DEF SettersInv
<1>5. CASE LightStep
  <2>1. L!Next /\ UNCHANGED vars /\ UNCHANGED freqVars /\ UNCHANGED chargeVars
        /\ UNCHANGED perfVars
    BY <1>5 DEF LightStep
  <2>2. LightInv'
    BY <2>1, LightNext DEF SettersInv
  <2> QED
    BY <2>1, <2>2, SettersStay DEF SettersInv
<1>6. CASE UNCHANGED settersVars
  <2>1. UNCHANGED vars /\ UNCHANGED freqVars /\ UNCHANGED chargeVars
        /\ UNCHANGED perfVars /\ UNCHANGED lightVars
    BY <1>6 DEF settersVars
  <2> QED
    BY <2>1, SettersStay DEF SettersInv
<1> QED
  BY <1>1, <1>2, <1>3, <1>4, <1>5, <1>6 DEF SettersNext

LEMMA SettersInvariant == SettersSpec => []SettersInv
BY SettersInitially, SettersStep, PTL DEF SettersSpec

\* Every variable of the five setters keeps its type.
THEOREM SettersTypes == SettersSpec => []TypesOK
<1>1. SettersInv => TypesOK
  <2> SUFFICES ASSUME SettersInv PROVE TypesOK
    OBVIOUS
  <2>1. TypeOK
    BY StagesFacts DEF SettersInv, Types, TypeOK, CallKnows, Applying
  <2>2. C!TypeOK /\ B!TypeOK /\ P!TypeOK /\ L!TypeOK
    BY FreqSafe, ChargeSafe, PerfSafe, LightSafe DEF SettersInv
  <2> QED
    BY <2>1, <2>2 DEF TypesOK
<1> QED
  BY SettersInvariant, <1>1, PTL

\* set_cpu_frequency_limits: of the calls that nothing overlaps, one that succeeds
\* has given every online CPU the limits asked for, if the CPU numbers have no gaps,
\* and has them restored at exit; one that is refused, on CPUs that had the same
\* limits, asked for a maximum below their minimum.
THEOREM FreqReplies == SettersSpec => []RepliesAreTrue
<1>1. SettersInv => RepliesAreTrue
  BY FreqSafe DEF SettersInv, RepliesAreTrue
<1> QED
  BY SettersInvariant, <1>1, PTL

\* main: a shutdown that nothing overlaps leaves every online CPU with the hardware's
\* limits, unless a call failed part-way and none succeeded, or the CPU numbers have
\* gaps.
THEOREM FreqRestored == SettersSpec => []RestoredOnExit
<1>1. SettersInv => RestoredOnExit
  BY FreqSafe DEF SettersInv, RestoredOnExit
<1> QED
  BY SettersInvariant, <1>1, PTL

\* The battery calls: a call that overlaps no other changes the EC's values as it was
\* asked to, or when a write fails the ones before it; and a call of the page that is
\* made with the driver's lists, overlaps no other and succeeds leaves charging to
\* start below the threshold where it ends, whatever the EC and the page had before.
THEOREM ChargeAsAsked == SettersSpec => []ThresholdsAsAsked
<1>1. SettersInv => ThresholdsAsAsked
  BY ChargeSafe DEF SettersInv, ThresholdsAsAsked
<1> QED
  BY SettersInvariant, <1>1, PTL

\* set_performance_profile: the profile chosen last with success runs, whatever fan
\* ioctls, keyboard previews and driver loads come after it, until TDP limits are set
\* on a machine that needs the enthusiast profile for them, unless a fan ioctl read
\* the register before the profile was written.
THEOREM PerfStays == SettersSpec => []ChoiceStays
<1>1. SettersInv => ChoiceStays
  BY PerfSafe DEF SettersInv, ChoiceStays
<1> QED
  BY SettersInvariant, <1>1, PTL

\* Preview and Save of the keyboard section: once the page's call has ended
\* undisturbed, every LED shows the mode that the page asked for.
THEOREM LightShown == SettersSpec => []AskedIsShown
<1>1. SettersInv => AskedIsShown
  BY LightSafe DEF SettersInv, AskedIsShown
<1> QED
  BY SettersInvariant, <1>1, PTL
=============================================================================
