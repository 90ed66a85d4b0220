---------------------------- MODULE PeriodicJobs ----------------------------
(* What the polling scheduler promises the daemon's jobs: one callback runs *)
(* at a time, never one of a job that was removed or after the shutdown,    *)
(* and none before its interval has passed since its previous run ended.    *)
(* Intervals and the set of jobs change only between callbacks.             *)
EXTENDS Naturals

CONSTANTS
    Jobs,       \* ids of jobs
    NoJob,      \* no callback is running
    SinceCap    \* since counts up to here, which is above every interval

VARIABLES
    registered, \* jobs that may run
    interval,   \* the interval of each job
    running,    \* the job whose callback runs, or NoJob
    since,      \* time since the job's last callback ended
    stopped     \* no callback will run any more

vars == <<registered, interval, running, since, stopped>>

Init ==
    /\ registered = {}
    /\ interval = [j \in Jobs |-> 0]
    /\ running = NoJob
    /\ since = [j \in Jobs |-> SinceCap]
    /\ stopped = FALSE

Between == running = NoJob /\ ~stopped

\* A job is added, or gets a new interval.
Schedule(j, i) ==
    /\ Between
    /\ registered' = registered \cup {j}
    /\ interval' = [interval EXCEPT ![j] = i]
    /\ UNCHANGED <<running, since, stopped>>

Remove(j) ==
    /\ Between
    /\ registered' = registered \ {j}
    /\ UNCHANGED <<interval, running, since, stopped>>

Stop ==
    /\ Between
    /\ stopped' = TRUE
    /\ UNCHANGED <<registered, interval, running, since>>

Start(j) ==
    /\ Between
    /\ j \in registered
    /\ since[j] >= interval[j]
    /\ running' = j
    /\ UNCHANGED <<registered, interval, since, stopped>>

Finish(j) ==
    /\ running = j
    /\ running' = NoJob
    /\ since' = [since EXCEPT ![j] = 0]
    /\ UNCHANGED <<registered, interval, stopped>>

Tick ==
    /\ since' = [j \in Jobs |-> IF since[j] < SinceCap THEN since[j] + 1 ELSE since[j]]
    /\ UNCHANGED <<registered, interval, running, stopped>>

Next ==
    \/ \E j \in Jobs :
          \/ \E i \in 0 .. (SinceCap - 1) : Schedule(j, i)
          \/ Remove(j) \/ Start(j) \/ Finish(j)
    \/ Stop \/ Tick

Spec == Init /\ [][Next]_vars
=============================================================================
