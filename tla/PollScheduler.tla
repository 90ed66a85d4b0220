--------------------------- MODULE PollScheduler ---------------------------
(***************************************************************************)
(* The daemon's polling scheduler (daemon/src/polling_scheduler.rs) and    *)
(* the D-Bus calls that change its intervals: SyncDaemonPollSettings with  *)
(* daemon_settings::sync_from, and UpdatePollingInterval, which goes past  *)
(* the stored settings.                                                    *)
(*                                                                         *)
(* Time is discrete.  `wait' is next_run relative to now, cut off at       *)
(* -MaxLate; a callback takes any number of ticks.  `since', `overtook',   *)
(* `direct', `overlap' and `removed' are history variables.                *)
(***************************************************************************)
EXTENDS Integers, Sequences, FiniteSets

CONSTANTS
    Jobs,         \* ids of the jobs main() adds
    Others,       \* component names no job has ("cpu", "memory", ...)
    Callers,      \* concurrent D-Bus calls
    Rates,        \* poll rates a GUI payload may carry
    MinInterval,  \* the clamp of DaemonPollSettings (50 ms)
    Payloads,     \* statistics_sections payloads: records of rates
    MaxCalls,     \* bound: D-Bus calls in a behaviour
    MaxLate,      \* bound: how late a job is told apart
    SinceCap      \* bound: time since a run is told apart, above every interval

ASSUME SchedulerAssumption ==
    /\ Jobs \subseteq {"hardware_monitor", "fan_control", "gpu_overclock"}
    /\ Others \cap {"hardware_monitor", "fan_control", "gpu_overclock"} = {}
    /\ Rates \subseteq Nat
    /\ MinInterval \in Nat \ {0}
    /\ Payloads \subseteq [cpu : Rates, gpu : Rates, fans : Rates, oc : Rates]
    /\ MaxCalls \in Nat /\ MaxLate \in Nat
    /\ SinceCap \in Nat /\ MinInterval < SinceCap /\ \A r \in Rates : r < SinceCap

VARIABLES
    settings,     \* DAEMON_POLL_SETTINGS
    commands,     \* the unbounded command channel
    registered,   \* jobs the scheduler owns
    interval,     \* PollJob.interval
    wait,         \* PollJob.next_run - now
    batch,        \* due jobs that execute_due_jobs still has to run
    running,      \* the job whose callback runs, or NoJob
    stopped,      \* the loop was left
    call,         \* what each caller is doing
    calls,        \* D-Bus calls made so far
    since,        \* history: ticks since the job's callback ended
    overtook,     \* history: callbacks of k begun while j was due
    direct,       \* history: jobs set by UpdatePollingInterval
    overlap,      \* history: two syncs were under way together
    removed       \* history: jobs taken away by a command

schedVars == <<registered, interval, wait, batch, running, stopped>>
history == <<since, overtook, direct, overlap, removed>>
vars == <<settings, commands, registered, interval, wait, batch, running,
          stopped, call, calls, since, overtook, direct, overlap, removed>>

-----------------------------------------------------------------------------
Least(a, b) == IF a < b THEN a ELSE b
Greatest(a, b) == IF a < b THEN b ELSE a

NoJob == "none"
AllJobs == {"hardware_monitor", "fan_control", "gpu_overclock"}

\* DaemonPollSettings::from: the monitor feeds several sections and takes the
\* fastest of their rates; every rate is clamped.
FromRates(p) ==
    [hardware_monitor |-> Greatest(Least(p.cpu, p.gpu), MinInterval),
     fan_control      |-> Greatest(p.fans, MinInterval),
     gpu_overclock    |-> Greatest(p.oc, MinInterval)]

Settings == {FromRates(p) : p \in Payloads}

Command(op, id, i) == [op |-> op, id |-> id, interval |-> i]

\* compute_interval_updates: the jobs whose interval differs, in job order.
IntervalUpdates(prev, new) ==
    LET Change(id) == IF prev[id] = new[id] THEN <<>>
                      ELSE <<Command("update", id, new[id])>>
    IN  Change("hardware_monitor") \o Change("fan_control") \o Change("gpu_overclock")

Idle == [pc |-> "idle"]
Send(cmd) == commands' = Append(commands, cmd)

NoneOvertook == [k \in Jobs |-> 0]

Init ==
    /\ settings \in Settings
    /\ LET Add(id) == IF id \in Jobs THEN <<Command("add", id, settings[id])>> ELSE <<>>
       IN  commands = Add("hardware_monitor") \o Add("fan_control") \o Add("gpu_overclock")
    /\ registered = {}
    /\ interval = [j \in Jobs |-> 0]
    /\ wait = [j \in Jobs |-> 0]
    /\ batch = {}
    /\ running = NoJob
    /\ stopped = FALSE
    /\ call = [c \in Callers |-> Idle]
    /\ calls = 0
    /\ since = [j \in Jobs |-> SinceCap]
    /\ overtook = [j \in Jobs |-> NoneOvertook]
    /\ direct = {}
    /\ overlap = FALSE
    /\ removed = {}

-----------------------------------------------------------------------------
(* D-Bus calls. *)

\* SyncDaemonPollSettings, sync_from: the difference is computed under the
\* lock of the stored settings, which is then released.
SyncDiff(c) ==
    /\ call[c].pc = "idle" /\ calls < MaxCalls
    /\ \E p \in Payloads :
          call' = [call EXCEPT ![c] =
              [pc |-> "store", new |-> FromRates(p),
               updates |-> IntervalUpdates(settings, FromRates(p))]]
    /\ calls' = calls + 1
    /\ overlap' = (overlap \/ \E d \in Callers : call[d].pc # "idle")
    /\ UNCHANGED <<settings, commands, schedVars, since, overtook, direct, removed>>

\* sync_from: the settings are stored under a second acquisition of the lock.
SyncStore(c) ==
    /\ call[c].pc = "store"
    /\ settings' = call[c].new
    /\ call' = [call EXCEPT ![c] = [pc |-> "send", updates |-> call[c].updates]]
    /\ UNCHANGED <<commands, schedVars, calls, history>>

\* Mutant: only the first changed job is sent.
SyncSendFirst(c) ==
    /\ call[c].pc = "send"
    /\ commands' = IF call[c].updates = <<>> THEN commands
                   ELSE Append(commands, Head(call[c].updates))
    /\ call' = [call EXCEPT ![c] = Idle]
    /\ UNCHANGED <<settings, schedVars, calls, history>>

\* sync_from: one UpdateInterval is sent per changed job.
SyncSend(c) ==
    /\ call[c].pc = "send"
    /\ \/ /\ call[c].updates # <<>>
          /\ Send(Head(call[c].updates))
          /\ call' = [call EXCEPT ![c].updates = Tail(@)]
       \/ /\ call[c].updates = <<>>
          /\ call' = [call EXCEPT ![c] = Idle]
          /\ UNCHANGED commands
    /\ UNCHANGED <<settings, schedVars, calls, history>>

\* UpdatePollingInterval: unclamped, and the stored settings do not learn it.
UpdatePollingInterval(c) ==
    /\ call[c].pc = "idle" /\ calls < MaxCalls
    /\ calls' = calls + 1
    /\ \E id \in Jobs \cup Others, r \in Rates :
          /\ Send(Command("update", id, r))
          /\ direct' = direct \cup ({id} \cap Jobs)
    /\ UNCHANGED <<settings, schedVars, call, since, overtook, overlap, removed>>

\* SchedulerHandle::remove_job and shutdown: part of the scheduler's interface,
\* though main() calls neither.
RemoveOrShutdown(c) ==
    /\ call[c].pc = "idle" /\ calls < MaxCalls
    /\ calls' = calls + 1
    /\ \/ \E id \in Jobs : Send(Command("remove", id, 0))
       \/ Send(Command("shutdown", NoJob, 0))
    /\ UNCHANGED <<settings, schedVars, call, history>>

-----------------------------------------------------------------------------
(* The scheduler task. *)

Due(j) == j \in registered /\ wait[j] <= 0
Sleeping == ~stopped /\ running = NoJob /\ batch = {}

\* Mutant: the new interval is added to the old one.
UpdateAddsInterval(cmd) ==
    /\ interval' = IF cmd.id \in registered
                   THEN [interval EXCEPT ![cmd.id] = @ + cmd.interval]
                   ELSE interval
    /\ UNCHANGED <<registered, wait, stopped, removed>>

\* Mutant: a new interval leaves next_run alone.
UpdateKeepsNextRun(cmd) ==
    /\ interval' = IF cmd.id \in registered
                   THEN [interval EXCEPT ![cmd.id] = cmd.interval] ELSE interval
    /\ UNCHANGED <<registered, wait, stopped, removed>>

\* update_job_interval: the job starts over with the new interval.
UpdateJobInterval(cmd) ==
    /\ IF cmd.id \in registered
       THEN /\ interval' = [interval EXCEPT ![cmd.id] = cmd.interval]
            /\ wait' = [wait EXCEPT ![cmd.id] = cmd.interval]
       ELSE UNCHANGED <<interval, wait>>
    /\ UNCHANGED <<registered, stopped, removed>>

AddJob(cmd) ==
    /\ registered' = registered \cup {cmd.id}
    /\ interval' = [interval EXCEPT ![cmd.id] = cmd.interval]
    /\ wait' = [wait EXCEPT ![cmd.id] = 0]
    /\ UNCHANGED <<stopped, removed>>

RemoveJob(cmd) ==
    /\ registered' = registered \ {cmd.id}
    /\ removed' = removed \cup {cmd.id}
    /\ UNCHANGED <<interval, wait, stopped>>

Shutdown ==
    /\ stopped' = TRUE
    /\ UNCHANGED <<registered, interval, wait, removed>>

\* The command branch of select!; the other branch is ExecuteDueJobs.
ReceiveCommand ==
    /\ Sleeping /\ commands # <<>>
    /\ commands' = Tail(commands)
    /\ overtook' = [j \in Jobs |-> IF j = Head(commands).id THEN NoneOvertook
                                   ELSE overtook[j]]
    /\ LET cmd == Head(commands)
       IN  \/ cmd.op = "add" /\ AddJob(cmd)
           \/ cmd.op = "update" /\ UpdateJobInterval(cmd)
           \/ cmd.op = "remove" /\ RemoveJob(cmd)
           \/ cmd.op = "shutdown" /\ Shutdown
    /\ UNCHANGED <<settings, batch, running, call, calls, since, direct, overlap>>

\* The timer branch: every job due by now leaves the heap.
ExecuteDueJobs ==
    /\ Sleeping
    /\ batch' = {j \in Jobs : Due(j)}
    /\ batch' # {}
    /\ UNCHANGED <<settings, commands, registered, interval, wait, running,
                   stopped, call, calls, history>>

\* The jobs of the batch run one after the other, the earliest first.
StartJob(j) ==
    /\ running = NoJob /\ j \in batch
    /\ \A k \in batch : wait[j] <= wait[k]
    /\ batch' = batch \ {j}
    /\ running' = j
    /\ overtook' = [k \in Jobs |-> IF k # j /\ Due(k)
                       THEN [overtook[k] EXCEPT ![j] = Least(@ + 1, 3)]
                       ELSE NoneOvertook]
    /\ UNCHANGED <<settings, commands, registered, interval, wait, stopped,
                   call, calls, since, direct, overlap, removed>>

\* Mutant: after each callback the heap is looked at again.
FinishRecollects(j) ==
    /\ running = j
    /\ running' = NoJob
    /\ wait' = [wait EXCEPT ![j] = interval[j]]
    /\ batch' = IF interval[j] = 0 THEN batch \cup {j} ELSE batch
    /\ since' = [since EXCEPT ![j] = 0]
    /\ UNCHANGED <<settings, commands, registered, interval, stopped, call,
                   calls, overtook, direct, overlap, removed>>

\* Mutant: a callback that fails is not put back.
FinishDropsFailed(j) ==
    /\ running = j
    /\ running' = NoJob
    /\ \/ UNCHANGED registered
       \/ registered' = registered \ {j}
    /\ wait' = [wait EXCEPT ![j] = interval[j]]
    /\ since' = [since EXCEPT ![j] = 0]
    /\ UNCHANGED <<settings, commands, interval, batch, stopped, call, calls,
                   overtook, direct, overlap, removed>>

\* PollJob::execute: rescheduled from the end of the callback, even on error.
FinishJob(j) ==
    /\ running = j
    /\ running' = NoJob
    /\ wait' = [wait EXCEPT ![j] = interval[j]]
    /\ since' = [since EXCEPT ![j] = 0]
    /\ UNCHANGED <<settings, commands, registered, interval, batch, stopped,
                   call, calls, overtook, direct, overlap, removed>>

Tick ==
    /\ wait' = [j \in Jobs |-> Greatest(wait[j] - 1, -MaxLate)]
    /\ since' = [j \in Jobs |-> Least(since[j] + 1, SinceCap)]
    /\ UNCHANGED <<settings, commands, registered, interval, batch, running,
                   stopped, call, calls, overtook, direct, overlap, removed>>

-----------------------------------------------------------------------------
Sync(c) == SyncDiff(c) \/ SyncStore(c) \/ SyncSend(c)

Next ==
    \/ \E c \in Callers :
          Sync(c) \/ UpdatePollingInterval(c) \/ RemoveOrShutdown(c)
    \/ ReceiveCommand
    \/ ExecuteDueJobs
    \/ \E j \in Jobs : StartJob(j) \/ FinishJob(j)
    \/ Tick

\* Time passes, callbacks end, and select! picks a ready branch at random, so
\* neither branch can be passed over for ever.
Fairness ==
    /\ WF_vars(Tick)
    /\ SF_vars(ExecuteDueJobs)
    /\ SF_vars(ReceiveCommand)
    /\ \A j \in Jobs : SF_vars(StartJob(j)) /\ WF_vars(FinishJob(j))

Spec == Init /\ [][Next]_vars /\ Fairness

-----------------------------------------------------------------------------
(* Properties. *)

IntervalValues == Rates \cup {MinInterval, 0}
CommandType == [op : {"add", "update", "remove", "shutdown"},
                id : AllJobs \cup Others \cup {NoJob}, interval : IntervalValues]

\* Every variable keeps its type.
TypeOK ==
    /\ settings \in Settings
    /\ commands \in Seq(CommandType)
    /\ registered \subseteq Jobs
    /\ interval \in [Jobs -> IntervalValues]
    /\ wait \in [Jobs -> -MaxLate .. SinceCap]
    /\ batch \subseteq Jobs
    /\ running \in Jobs \cup {NoJob}
    /\ stopped \in BOOLEAN
    /\ calls \in 0 .. MaxCalls
    /\ since \in [Jobs -> 0 .. SinceCap]
    /\ overtook \in [Jobs -> [Jobs -> 0 .. 3]]
    /\ direct \subseteq Jobs /\ removed \subseteq Jobs
    /\ overlap \in BOOLEAN

\* The scheduler, with its heap, batches and command channel, does what
\* PeriodicJobs promises: one callback at a time, none of a removed job or after
\* the shutdown, and none before the interval now in force has passed since its
\* previous run ended, however the interval was changed in between.
Periodic == INSTANCE PeriodicJobs
KeepsPromise == Periodic!Spec

\* No job is starved by the others: while it is due (a new interval starts the
\* wait over) until it runs,
\* each other job starts at most twice, even one with a zero interval.
NoOvertaking ==
    \A j, k \in Jobs : overtook[j][k] <= 2

\* Every job the scheduler was given keeps running, whether its callbacks fail
\* or not, until somebody removes it or stops the scheduler.
JobsKeepRunning ==
    \A j \in Jobs : []<>(running = j \/ j \in removed \/ stopped)

\* When every call has returned and every command is processed, the scheduler
\* uses the stored settings, none of which can make a job spin, except for a job
\* that UpdatePollingInterval went past them for, and unless two syncs
\* interleaved between diff and store.
SettledIntervals ==
    (commands = <<>> /\ ~overlap /\ \A c \in Callers : call[c].pc = "idle")
        => \A j \in registered \ direct :
              interval[j] = settings[j] /\ interval[j] >= MinInterval

=============================================================================
