------------------------------ MODULE PollRates ------------------------------
(* The poll rates that the user sets with the sliders of the settings and   *)
(* tuning pages, and the two places they reach: the RefreshCoordinator of   *)
(* the application, which decides when a part of the page asks the daemon   *)
(* again, and the daemon's poll settings and jobs.  The daemon hears of a   *)
(* rate twice: by SyncDaemonPollSettings from every save, and by            *)
(* UpdatePollingInterval from the slider.                                   *)
EXTENDS Naturals, Sequences, FiniteSetsExt

CONSTANTS
    Intervals,      \* the intervals of a slider, in ticks
    Defaults,       \* StatisticsSections::default(), a rate for every Rate
    Empty,          \* the coordinator's sleep while it knows no component
    Bound           \* bounds: edits of the sliders; failures and restarts

VARIABLES
    rates,          \* the rates in the application's configuration
    disk,           \* the rates in its settings.json
    components,     \* the coordinator's components
    commands,       \* its command channel
    sleep,          \* what is left of the sleep it waits for
    calls,          \* calls that wait for the D-Bus worker
    home,           \* does the daemon run with the user's HOME?
    stored,         \* DAEMON_POLL_SETTINGS
    jobs,           \* the intervals of the scheduler's jobs
    ghost,          \* history that the property needs
    left            \* what is left of the bounds

vars == <<rates, disk, components, commands, sleep, calls, home, stored, jobs, ghost, left>>

\* Four of the ten rates stand for the others: "memory" to "gamepad" reach the
\* coordinator as "cpu" does, and fan_control follows "fans" by the sync alone.
Rate == {"cpu", "gpu", "storage", "gpu_overclock"}
Component == Rate \cup {"mount"}
Job == {"hardware_monitor", "gpu_overclock"}

\* A component that was never refreshed is due at once.
Never == Max(Intervals) + 1
ComponentType == [interval : Intervals, age : 0 .. Never]

RateConstants ==
    /\ Intervals \subseteq Nat \ {0} /\ IsFiniteSet(Intervals)
    /\ Defaults \in [Rate -> Intervals] /\ Empty \in Nat \ {0}
    /\ Bound \in [edits : Nat, faults : Nat]

Spend(event) ==
    /\ left[event] > 0
    /\ left' = [left EXCEPT ![event] = @ - 1]

appVars == <<rates, disk, calls>>
coordinatorVars == <<components, commands, sleep>>
daemonVars == <<home, stored, jobs>>

-----------------------------------------------------------------------------
(* The coordinator *)

\* Storage and its mounts share a rate.
RateOf(id) == IF id = "mount" THEN "storage" ELSE id

ComponentsOf(rate) == IF rate = "storage" THEN <<"storage", "mount">> ELSE <<rate>>

\* One command for every component of a sequence
Commands(kind, ids, sections) ==
    [i \in DOMAIN ids |->
        [kind |-> kind, id |-> ids[i], interval |-> sections[RateOf(ids[i])]]]

\* should_refresh
Due(c) == c.age >= c.interval

\* Mutant: the sleep starts anew with every command.
RemainingWhole(c) == IF c.age = Never THEN 0 ELSE c.interval

\* time_until_refresh
Remaining(c) == IF Due(c) THEN 0 ELSE c.interval - c.age

\* The sleep with which the loop starts its next round
SleepFor(known) ==
    IF known = <<>> THEN Empty ELSE Min({Remaining(known[id]) : id \in DOMAIN known})

\* Register replaces a component; UpdateInterval leaves its last refresh alone.
HandleCommand ==
    LET cmd == Head(commands)
        next == CASE cmd.kind = "register" ->
                       [id \in DOMAIN components \cup {cmd.id} |->
                           IF id = cmd.id THEN [interval |-> cmd.interval, age |-> Never]
                           ELSE components[id]]
                  [] cmd.kind = "update" ->
                       IF cmd.id \in DOMAIN components
                         THEN [components EXCEPT ![cmd.id].interval = cmd.interval]
                         ELSE components
    IN  /\ commands # <<>>
        /\ commands' = Tail(commands)
        /\ components' = next
        /\ sleep' = SleepFor(next)
        /\ UNCHANGED <<appVars, daemonVars, ghost, left>>

\* The sleep is over: what is due asks the daemon.
Refresh ==
    LET next == [id \in DOMAIN components |->
                    IF Due(components[id]) THEN [components[id] EXCEPT !.age = 0]
                    ELSE components[id]]
    IN  /\ sleep = 0
        /\ components' = next
        /\ sleep' = SleepFor(next)
        /\ UNCHANGED <<appVars, commands, daemonVars, ghost, left>>

\* Time passes while the coordinator has nothing to do.
Tick ==
    /\ commands = <<>> /\ sleep > 0
    /\ sleep' = sleep - 1
    /\ components' = [id \in DOMAIN components |->
                         [components[id] EXCEPT !.age = IF @ = Never THEN @ ELSE @ + 1]]
    /\ UNCHANGED <<appVars, commands, daemonVars, ghost, left>>

-----------------------------------------------------------------------------
(* The application *)

Call(kind, rate, value) == [kind |-> kind, rate |-> rate, value |-> value]

\* A slider saves the settings, updates the coordinator and tells the daemon;
\* a save that fails does not sync, and its result is dropped.
EditRate(rate, interval) ==
    LET next == [rates EXCEPT ![rate] = interval]
        direct == Call("update", rate, interval)
    IN  /\ interval # rates[rate]
        /\ left.edits > 0
        /\ rates' = next
        /\ commands' = commands \o Commands("update", ComponentsOf(rate), next)
        /\ \/ /\ disk' = next
              /\ calls' = calls \o <<Call("sync", rate, next), direct>>
              /\ ghost' = [ghost EXCEPT !.current = FALSE]
              /\ Spend("edits")
           \/ /\ left.faults > 0
              /\ calls' = Append(calls, direct)
              /\ ghost' = [current |-> FALSE, lost |-> TRUE]
              /\ left' = [edits |-> left.edits - 1, faults |-> left.faults - 1]
              /\ UNCHANGED disk
        /\ UNCHANGED <<components, sleep, daemonVars>>

\* The components that the application registers when it starts
Registrations ==
    Commands("register", <<"cpu", "gpu", "storage", "mount", "gpu_overclock">>, disk)

\* The application starts again, with the rates of its file; what it had not sent
\* or not saved is lost.
Relaunch ==
    /\ Spend("faults")
    /\ rates' = disk
    /\ commands' = Registrations /\ components' = <<>> /\ sleep' = Empty
    /\ calls' = <<>>
    /\ ghost' = [current |-> ghost.current /\ \A i \in DOMAIN calls : calls[i].kind # "sync",
                 lost |-> ghost.lost \/ calls # <<>> \/ rates # disk]
    /\ UNCHANGED <<disk, daemonVars>>

-----------------------------------------------------------------------------
(* The daemon *)

\* DaemonPollSettings::from: one job serves the CPU, the memory and the GPU.
FromSections(sections) ==
    [hardware_monitor |-> Min({sections["cpu"], sections["gpu"]}),
     gpu_overclock |-> sections["gpu_overclock"]]

\* compute_interval_updates, then handle.update_interval for every difference
Rescheduled(prev, next) ==
    [job \in Job |-> IF prev[job] # next[job] THEN next[job] ELSE jobs[job]]

\* Mutant: the settings are stored before they are compared.
SyncFromStored(next) == stored' = next /\ jobs' = Rescheduled(next, next)

\* sync_from compares with what was stored, not with what is in force.
SyncFrom(next) == stored' = next /\ jobs' = Rescheduled(stored, next)

\* The next call reaches the daemon.  An interval for a name that is no job is
\* ignored, which is the case of every slider but one.
Deliver ==
    LET call == Head(calls) IN
    /\ calls # <<>>
    /\ calls' = Tail(calls)
    /\ \/ /\ call.kind = "sync"
          /\ SyncFrom(FromSections(call.value))
          /\ ghost' = [ghost EXCEPT !.current = call.value = rates]
       \/ /\ call.kind = "update"
          /\ jobs' = [job \in Job |-> IF job = call.rate THEN call.value ELSE jobs[job]]
          /\ UNCHANGED <<stored, ghost>>
    /\ UNCHANGED <<rates, disk, coordinatorVars, home, left>>

\* A call fails; the page does not look at the answer.
Lose ==
    /\ calls # <<>>
    /\ Spend("faults")
    /\ calls' = Tail(calls)
    /\ ghost' = [current |-> ghost.current /\ Head(calls).kind # "sync", lost |-> TRUE]
    /\ UNCHANGED <<rates, disk, coordinatorVars, daemonVars>>

\* DaemonPollSettings::load: the file of the daemon's own HOME, or the defaults
Loaded == IF home THEN FromSections(disk) ELSE FromSections(Defaults)

\* The daemon starts again, with the jobs added from what it loads.
Restart ==
    /\ Spend("faults")
    /\ stored' = Loaded /\ jobs' = Loaded
    /\ ghost' = [current |-> home /\ disk = rates, lost |-> FALSE]
    /\ UNCHANGED <<appVars, coordinatorVars, home>>

-----------------------------------------------------------------------------
\* Both have started; the application registers its components.
Init ==
    /\ disk = Defaults /\ rates = disk
    /\ components = <<>> /\ sleep = Empty
    /\ commands = Registrations
    /\ calls = <<>>
    /\ home \in BOOLEAN
    /\ stored = Loaded /\ jobs = Loaded
    /\ ghost = [current |-> home, lost |-> FALSE]
    /\ left = Bound

Next ==
    \/ HandleCommand \/ Refresh \/ Tick
    \/ \E rate \in Rate, interval \in Intervals : EditRate(rate, interval)
    \/ Relaunch \/ Deliver \/ Lose \/ Restart

Spec == Init /\ [][Next]_vars

\* Every variable has its type.
TypeOK ==
    /\ rates \in [Rate -> Intervals] /\ disk \in [Rate -> Intervals]
    /\ DOMAIN components \subseteq Component
    /\ \A id \in DOMAIN components : components[id] \in ComponentType
    /\ \A i \in DOMAIN commands : commands[i].id \in Component
    /\ sleep \in 0 .. Max(Intervals \cup {Empty})
    /\ \A i \in DOMAIN calls : calls[i].kind \in {"sync", "update"}
    /\ home \in BOOLEAN
    /\ stored \in [Job -> Intervals] /\ jobs \in [Job -> Intervals]
    /\ ghost \in [current : BOOLEAN, lost : BOOLEAN]

\* The sliders' rates are the ones in force.  The coordinator never sleeps while
\* a part of the page is due, however the commands fall between refreshes, and
\* once it has read them it has every interval of the configuration.  The daemon,
\* once it has answered the calls, runs its jobs at the rates on the page when
\* the last sync it heard carried them or it started from a file with them; for
\* the job whose slider also sends its interval directly, only if since the daemon
\* started no save or call has failed and the application has forgotten nothing in
\* a new start, for the sync does not see what the direct call did.
RatesInForce ==
    /\ \A id \in DOMAIN components : Due(components[id]) => sleep = 0
    /\ commands = <<>> => \A id \in Component :
          components[id].interval = rates[RateOf(id)]
    /\ calls = <<>> /\ ghost.current =>
          /\ jobs["hardware_monitor"] = FromSections(rates)["hardware_monitor"]
          /\ ~ghost.lost => jobs = FromSections(rates)
=============================================================================
