--------------------------- MODULE CpuFreqLimits ---------------------------
(***************************************************************************)
(* CPU frequency limits (daemon/src/hardware_control.rs): D-Bus calls and  *)
(* profiles write scaling_min_freq and scaling_max_freq of one CPU after   *)
(* the other, and main() restores the hardware's limits when the daemon    *)
(* is stopped.  The loop runs over the CPU numbers below the count of      *)
(* processors in /proc/cpuinfo, which lists those that are online.         *)
(*                                                                         *)
(* The kernel (external) refuses a minimum above the maximum, as the       *)
(* comment in set_cpu_frequency_limits has it, and has no cpufreq files    *)
(* for a CPU that is offline.                                              *)
(*                                                                         *)
(* `sole', `before', `partial' and `raced' are history variables.         *)
(***************************************************************************)
EXTENDS Integers, FiniteSets

CONSTANTS
    NumCpus,    \* CPUs of the machine
    Siblings,   \* CPUs that go offline when SMT is switched off
    Requests,   \* limits that clients ask for
    Callers,    \* concurrent D-Bus calls
    HwMin, HwMax,
    MaxCalls    \* bound: D-Bus calls in a behaviour

Cpu == 0 .. NumCpus - 1

CpuConstants ==
    /\ NumCpus \in Nat \ {0}
    /\ Siblings \subseteq Cpu \ {0}
    /\ MaxCalls \in Nat
    /\ HwMin \in Nat /\ HwMax \in Nat /\ HwMin <= HwMax
    /\ Requests \subseteq
          {r \in [lo : HwMin .. HwMax, hi : HwMin .. HwMax] : r.lo <= r.hi}
    /\ "main" \notin Callers

Main == "main"

Process == Callers \cup {Main}

VARIABLES
    limits,     \* scaling_min_freq and scaling_max_freq of each CPU
    online,     \* CPUs that are online
    modified,   \* CPU_LIMITS_MODIFIED
    exited,     \* main() has returned
    calls,      \* D-Bus calls made so far
    task,       \* set_cpu_frequency_limits in each process
    sole,      \* calls that no other call or SMT change has overlapped
    before,     \* the limits all CPUs had when that call began, or Mixed
    partial,    \* some call failed after it had written
    raced       \* a call or an SMT change overlapped the shutdown

history == <<sole, before, partial, raced>>
vars == <<limits, online, modified, exited, calls, task, sole, before, partial,
          raced>>

-----------------------------------------------------------------------------
Hardware == [lo |-> HwMin, hi |-> HwMax]
Mixed == [lo |-> HwMax + 1, hi |-> HwMax + 1]
Idle == [pc |-> "idle", want |-> Hardware, count |-> 0, maxFirst |-> FALSE, cpu |-> 0]
Active(p) == task[p].pc \in {"read", "first", "second"}

Init ==
    /\ limits = [i \in Cpu |-> Hardware]
    /\ online = Cpu
    /\ modified = FALSE
    /\ exited = FALSE
    /\ calls = 0
    /\ task = [p \in Process |-> Idle]
    /\ sole = {}
    /\ before = Mixed
    /\ partial = FALSE
    /\ raced = FALSE

\* The kernel: the field is written unless the CPU is offline or the pair
\* would be inverted.
Accepts(i, field, v) ==
    /\ i \in online
    /\ field = "lo" => v <= limits[i].hi
    /\ field = "hi" => v >= limits[i].lo

\* What the next write is to: the order of the two is fixed for the whole call.
Field(c) == IF (c.pc = "first") = c.maxFirst THEN "hi" ELSE "lo"

-----------------------------------------------------------------------------
(* set_cpu_frequency_limits. *)

Begin(p, want) ==
    /\ task' = [task EXCEPT ![p] = [pc |-> "read", want |-> want, cpu |-> 0,
                                    count |-> Cardinality(online),
                                    maxFirst |-> FALSE]]
    /\ sole' = IF \E q \in Process : Active(q) THEN {} ELSE {p}
    /\ before' = IF sole' # {} /\ \A i \in Cpu : limits[i] = limits[0]
                 THEN limits[0] ELSE Mixed
    /\ UNCHANGED <<limits, online, modified, partial>>

\* The order of the two writes is chosen once, from what CPU 0 has (its two
\* files are read in one step here: a change in between can only turn the
\* choice, which a change right after the reads does as well).
ReadCurrent(p) ==
    /\ task[p].pc = "read"
    /\ task' = [task EXCEPT ![p].pc = "first",
           ![p].maxFirst = \/ task[p].want.hi < limits[0].hi
                           \/ task[p].want.lo > limits[0].lo]
    /\ UNCHANGED <<limits, online, modified, exited, calls, history>>

\* Mutant: the second write goes to the field of the first again.
WriteLimitTwice(p) ==
    LET c == task[p]
        f == IF c.maxFirst THEN "hi" ELSE "lo"
    IN  /\ c.pc \in {"first", "second"} /\ c.cpu < c.count
        /\ Accepts(c.cpu, f, c.want[f])
        /\ limits' = [limits EXCEPT ![c.cpu][f] = c.want[f]]
        /\ task' = [task EXCEPT ![p].pc = IF c.pc = "first" THEN "second" ELSE "first",
                                ![p].cpu = IF c.pc = "first" THEN @ ELSE @ + 1]
        /\ UNCHANGED <<online, modified, exited, calls, history>>

\* One of the two writes to the CPU at hand.
WriteLimit(p) ==
    LET c == task[p]
        f == Field(c)
    IN  /\ c.pc \in {"first", "second"} /\ c.cpu < c.count
        /\ Accepts(c.cpu, f, c.want[f])
        /\ limits' = [limits EXCEPT ![c.cpu][f] = c.want[f]]
        /\ task' = [task EXCEPT ![p].pc = IF c.pc = "first" THEN "second" ELSE "first",
                                ![p].cpu = IF c.pc = "first" THEN @ ELSE @ + 1]
        /\ UNCHANGED <<online, modified, exited, calls, history>>

End(p, pc) == task' = [task EXCEPT ![p] = [Idle EXCEPT !.pc = pc, !.want = task[p].want]]

\* A write that the kernel does not take ends the call: the CPUs before keep
\* what they got, and CPU_LIMITS_MODIFIED is not set.
Refuse(p) ==
    LET c == task[p]
    IN  /\ c.pc \in {"first", "second"} /\ c.cpu < c.count
        /\ ~Accepts(c.cpu, Field(c), c.want[Field(c)])
        /\ End(p, IF c.cpu \in online THEN "refused" ELSE "no_cpu")
        /\ partial' = (partial \/ c.cpu > 0 \/ c.pc = "second")
        /\ UNCHANGED <<limits, online, modified, exited, calls, sole, before, raced>>

\* Mutant: the flag is not set.
FinishUnmarked(p) ==
    /\ task[p].pc = "first" /\ task[p].cpu = task[p].count
    /\ End(p, "ok")
    /\ UNCHANGED <<limits, online, modified, exited, calls, history>>

\* Every CPU is written.
Finish(p) ==
    /\ task[p].pc = "first" /\ task[p].cpu = task[p].count
    /\ modified' = TRUE
    /\ End(p, "ok")
    /\ UNCHANGED <<limits, online, exited, calls, history>>

-----------------------------------------------------------------------------
(* The daemon. *)

\* SetCpuFrequencyLimits, or ApplyProfile getting to them.
SetCpuFrequencyLimits(p) ==
    /\ task[p].pc = "idle" /\ ~exited
    /\ calls < MaxCalls /\ calls' = calls + 1
    /\ \E r \in Requests : Begin(p, r)
    /\ raced' = (raced \/ task[Main].pc # "idle")
    /\ UNCHANGED exited

Reply(p) ==
    /\ task[p].pc \in {"ok", "refused", "no_cpu"}
    /\ task' = [task EXCEPT ![p] = Idle]
    /\ UNCHANGED <<limits, online, modified, exited, calls, history>>

\* SetSmt.
SetSmt(on) ==
    /\ ~exited
    /\ online' = IF on THEN Cpu ELSE Cpu \ Siblings
    /\ online' # online
    /\ sole' = {}
    /\ before' = Mixed
    /\ raced' = (raced \/ task[Main].pc # "idle")
    /\ UNCHANGED <<limits, modified, exited, calls, task, partial>>

\* SIGINT: restore_cpu_frequency_limits, unless no call has succeeded.
CtrlC ==
    /\ ~exited /\ task[Main].pc = "idle"
    /\ raced' = \E p \in Callers : Active(p)
    /\ \/ modified /\ Begin(Main, Hardware) /\ UNCHANGED <<exited, calls>>
       \/ /\ ~modified
          /\ exited' = TRUE
          /\ UNCHANGED <<limits, online, modified, calls, task, sole, before, partial>>

\* main() returns, whether the restore worked or not.  A call that is under
\* way on another thread still runs to its end.
Exit ==
    /\ ~exited /\ task[Main].pc \in {"ok", "refused", "no_cpu"}
    /\ exited' = TRUE
    /\ UNCHANGED <<limits, online, modified, calls, task, history>>

-----------------------------------------------------------------------------
Next ==
    \/ \E p \in Callers : SetCpuFrequencyLimits(p) \/ Reply(p)
    \/ \E p \in Process :
          ReadCurrent(p) \/ WriteLimit(p) \/ Refuse(p) \/ Finish(p)
    \/ \E on \in BOOLEAN : SetSmt(on)
    \/ CtrlC
    \/ Exit

Spec == Init /\ [][Next]_vars

-----------------------------------------------------------------------------
(* Properties. *)

Limits == [lo : HwMin .. HwMax, hi : HwMin .. HwMax]
CallType == [pc : {"idle", "read", "first", "second", "ok",
                   "refused", "no_cpu"},
             want : Limits, count : 0 .. NumCpus, maxFirst : BOOLEAN, cpu : 0 .. NumCpus]

\* Every variable keeps its type; a call stays below the processor count it
\* took at its beginning.
TypeOK ==
    /\ limits \in [Cpu -> Limits]
    /\ online \subseteq Cpu
    /\ modified \in BOOLEAN /\ exited \in BOOLEAN
    /\ calls \in 0 .. MaxCalls
    /\ task \in [Process -> CallType]
    /\ sole \subseteq Process
    /\ before \in Limits \cup {Mixed}
    /\ partial \in BOOLEAN /\ raced \in BOOLEAN
    /\ \A p \in Process : task[p].cpu <= task[p].count

\* Online CPUs numbered without a gap.
Contiguous == online = 0 .. Cardinality(online) - 1

\* The order chosen for the two writes is right for every request but one
\* kind: a call that no other disturbs, on CPUs that have the same limits, is
\* refused only if it asks for a maximum below the present minimum.
RefusedOnlyBelow ==
    \A p \in sole : task[p].pc = "refused" /\ before # Mixed
        => task[p].want.hi < before.lo

\* A call that succeeds undisturbed gives every online CPU the limits it was
\* asked for, and has the daemon restore them at exit.
SuccessIsComplete ==
    \A p \in sole : task[p].pc = "ok" /\ Contiguous
        => modified /\ \A i \in online : limits[i] = task[p].want

\* What the reply to a call says of the limits, a refusal or a success, is true.
RepliesAreTrue == RefusedOnlyBelow /\ SuccessIsComplete

\* Whatever order calls came in and wherever they failed, a shutdown that no
\* call overlaps gives the hardware's limits back to every online CPU, unless
\* a call failed part-way and none succeeded, or the CPU numbers have gaps.
RestoredOnExit ==
    (exited /\ ~raced /\ Contiguous /\ (modified \/ ~partial))
        => \A i \in online : limits[i] = Hardware

\* "restores CPU frequency limits if they were modified": no shutdown that
\* nothing overlaps leaves an online CPU with other limits.  It may: a call
\* that fails part-way has modified limits but not set the flag.
RestoredIfModified ==
    (exited /\ ~raced) => \A i \in online : limits[i] = Hardware

=============================================================================
