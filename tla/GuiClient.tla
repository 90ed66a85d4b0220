----------------------------- MODULE GuiClient -----------------------------
(***************************************************************************)
(* How the GUI gets hardware data from the daemon: the refresh coordinator *)
(* (gui/src/polling_scheduler.rs) spawns a task per due component, the     *)
(* task asks through the command queue of the D-Bus worker                 *)
(* (gui/src/dbus_client.rs) and puts the answer in the bounded channel     *)
(* that the UI thread empties (gui/src/app.rs).  The worker serves one     *)
(* command at a time and replaces its connection after failures.  On exit  *)
(* the UI thread queues SetAllFansAuto and ShutdownDaemon, each with a     *)
(* timeout.                                                                *)
(*                                                                         *)
(* A snapshot is the number of daemon updates it includes.  `shared' (in   *)
(* tasks and updates: another request for the component was under way at   *)
(* the same time), `cause' and `served' are history.                       *)
(***************************************************************************)
EXTENDS Naturals, Sequences, FiniteSets

CONSTANTS
    Components,   \* components registered with the coordinator
    Failing,      \* those whose daemon handler always answers with an error
    Tasks,        \* bound: refresh tasks alive at a time
    FailLimit,    \* failures in a row before the next one reconnects (10)
    UpdateCap,    \* capacity of the update channel (100)
    MaxVersion,   \* bound: daemon updates in a behaviour
    MaxFaults     \* bound: lost connections, daemon stops and hangs

FansAuto == "SetAllFansAuto"
Shutdown == "ShutdownDaemon"
ExitCommands == {FansAuto, Shutdown}

ASSUME GuiAssumption ==
    /\ Failing \subseteq Components
    /\ Tasks \cap ExitCommands = {}
    /\ FailLimit \in Nat /\ UpdateCap \in Nat \ {0}
    /\ MaxVersion \in Nat /\ MaxFaults \in Nat

VARIABLES
    task,       \* refresh tasks
    commands,   \* command queue of the worker, unbounded
    worker,     \* where the worker's loop is
    failures,   \* consecutive_failures on this connection
    cause,      \* why the last call on this connection failed, if it did
    link,       \* the connection works
    service,    \* the daemon answers, does not, or is not on the bus
    version,    \* updates of the daemon's cache
    faults,     \* faults so far
    updates,    \* hw_update channel
    shown,      \* AppState: the snapshot shown for each component
    exit,       \* on_exit: where the UI thread is
    served      \* exit commands that the worker has taken, in order

daemonVars == <<service, version>>
workerVars == <<commands, worker, failures, cause, link>>
uiVars == <<updates, shown, exit>>
vars == <<task, commands, worker, failures, cause, link, service, version,
          faults, updates, shown, exit, served>>

-----------------------------------------------------------------------------
Free == [pc |-> "free"]

\* What the worker's loop makes of a failed call: the arm of every command
\* replaces the error by the text "DBus call failed".
ErrorText(why) == "DBus call failed"

\* The texts that are taken for a lost connection or an absent service.
ConnectionTexts == {"connection", "closed", "broken pipe", "serviceunknown",
                    "namehasnoowner", "timeout"}
IsConnectionError(why) == ErrorText(why) \in ConnectionTexts

Init ==
    /\ task = [t \in Tasks |-> Free]
    /\ commands = <<>>
    /\ worker = "connect"
    /\ failures = 0
    /\ cause = "none"
    /\ link = FALSE
    /\ service = "up"
    /\ version = 0
    /\ faults = 0
    /\ updates = <<>>
    /\ shown = [c \in Components |-> 0]
    /\ exit = "run"
    /\ served = <<>>

-----------------------------------------------------------------------------
(* The refresh coordinator and its tasks. *)

Others(t, c) == {u \in Tasks \ {t} : task[u].pc # "free" /\ task[u].comp = c}

\* A due component gets a task and counts as refreshed, whether or not an
\* earlier request for it is still under way.
Refresh(c, t) ==
    /\ exit # "closed" /\ task[t].pc = "free"
    /\ task' = [u \in Tasks |->
          IF u = t THEN [pc |-> "spawned", comp |-> c, version |-> 0,
                         shared |-> Others(t, c) # {}]
          ELSE IF u \in Others(t, c) THEN [task[u] EXCEPT !.shared = TRUE]
          ELSE task[u]]
    /\ UNCHANGED <<workerVars, daemonVars, faults, uiVars, served>>

\* The task runs for the first time and sends its request.
Ask(t) ==
    /\ exit # "closed" /\ task[t].pc = "spawned"
    /\ task' = [task EXCEPT ![t].pc = "waiting"]
    /\ commands' = Append(commands, t)
    /\ UNCHANGED <<worker, failures, cause, link, daemonVars, faults, uiVars, served>>

\* The answer goes to the UI thread, as soon as there is room.
SendUpdate(t) ==
    /\ exit # "closed" /\ task[t].pc = "sending"
    /\ Len(updates) < UpdateCap
    /\ updates' = Append(updates, [comp |-> task[t].comp, version |-> task[t].version,
                                   shared |-> task[t].shared])
    /\ task' = [task EXCEPT ![t] = Free]
    /\ UNCHANGED <<workerVars, daemonVars, faults, shown, exit, served>>

-----------------------------------------------------------------------------
(* dbus_worker. *)

\* A fresh connection and proxy.
Connect ==
    /\ exit # "closed" /\ worker = "connect"
    /\ worker' = "recv" /\ link' = TRUE
    /\ failures' = 0 /\ cause' = "none"
    /\ UNCHANGED <<task, commands, daemonVars, faults, uiVars, served>>

\* The command stays at the head of the queue here until it is answered.
Receive ==
    /\ exit # "closed" /\ worker = "recv" /\ commands # <<>>
    /\ worker' = "call"
    /\ served' = IF Head(commands) \in ExitCommands
                 THEN Append(served, Head(commands)) ELSE served
    /\ UNCHANGED <<task, commands, failures, cause, link, daemonVars, faults, uiVars>>

\* The waiting task gets its answer; the answer to an exit command wakes the
\* UI thread if it still waits for it.
Answer(ok) ==
    LET r == Head(commands)
    IN  IF r \in ExitCommands
        THEN /\ exit' = IF exit = r THEN (IF r = FansAuto THEN "next" ELSE "closed")
                        ELSE exit
             /\ UNCHANGED task
        ELSE /\ task' = [task EXCEPT ![r] =
                            IF ok THEN [@ EXCEPT !.pc = "sending", !.version = version]
                            ELSE Free]
             /\ UNCHANGED exit

CallSucceeds ==
    /\ exit # "closed" /\ worker = "call"
    /\ link /\ service = "up"
    /\ Head(commands) \in Tasks => task[Head(commands)].comp \notin Failing
    /\ Answer(TRUE)
    /\ commands' = Tail(commands)
    /\ worker' = "recv" /\ failures' = 0 /\ cause' = "none"
    /\ UNCHANGED <<link, daemonVars, faults, updates, shown, served>>

\* Mutant: unrecognised failures are not counted.
AfterFailureUncounted(why) ==
    /\ worker' = IF IsConnectionError(why) THEN "backoff" ELSE "recv"
    /\ UNCHANGED failures

\* Mutant: one failure more is let pass.
AfterFailureLate(why) ==
    IF IsConnectionError(why) \/ failures > FailLimit
    THEN worker' = "backoff" /\ UNCHANGED failures
    ELSE worker' = "recv" /\ failures' = failures + 1

\* A recognised error, or one failure too many, ends the use of this
\* connection; any other failure is counted.
AfterFailure(why) ==
    IF IsConnectionError(why) \/ failures >= FailLimit
    THEN worker' = "backoff" /\ UNCHANGED failures
    ELSE worker' = "recv" /\ failures' = failures + 1

\* The call fails: the connection is gone, nobody owns the name, or the
\* daemon's handler (SetAllFansAuto without a fan interface, say) answers
\* with an error.
CallFails ==
    /\ exit # "closed" /\ worker = "call"
    /\ \E why \in {"lost", "absent", "handler"} :
          /\ why = "lost" <=> ~link
          /\ why = "absent" <=> link /\ service = "down"
          /\ why = "handler" => service = "up"
          /\ why = "handler" /\ Head(commands) \in Tasks
                => task[Head(commands)].comp \in Failing
          /\ cause' = why
          /\ AfterFailure(why)
    /\ Answer(FALSE)
    /\ commands' = Tail(commands)
    /\ UNCHANGED <<link, daemonVars, faults, updates, shown, served>>

\* Two seconds later.
Backoff ==
    /\ exit # "closed" /\ worker = "backoff"
    /\ worker' = "connect"
    /\ UNCHANGED <<task, commands, failures, cause, link, daemonVars, faults,
                   uiVars, served>>

-----------------------------------------------------------------------------
(* The UI thread. *)

\* Mutant: the newest update is handled first.
HandleUpdateNewest ==
    /\ exit = "run" /\ updates # <<>>
    /\ LET u == updates[Len(updates)]
       IN  shown' = [shown EXCEPT ![u.comp] = u.version]
    /\ updates' = SubSeq(updates, 1, Len(updates) - 1)
    /\ UNCHANGED <<task, workerVars, daemonVars, faults, exit, served>>

\* handle_hardware_updates: a snapshot replaces the one shown.
HandleUpdate ==
    /\ exit = "run" /\ updates # <<>>
    /\ LET u == Head(updates)
       IN  shown' = [shown EXCEPT ![u.comp] = u.version]
    /\ updates' = Tail(updates)
    /\ UNCHANGED <<task, workerVars, daemonVars, faults, exit, served>>

\* Mutant: the daemon is stopped before the fans are handed back.
OnExitSwapped ==
    /\ \/ exit = "run" /\ exit' = FansAuto /\ commands' = Append(commands, Shutdown)
       \/ exit = "next" /\ exit' = Shutdown /\ commands' = Append(commands, FansAuto)
    /\ UNCHANGED <<task, worker, failures, cause, link, daemonVars, faults,
                   updates, shown, served>>

\* on_exit: SetAllFansAuto is queued, then, when that is answered or timed out,
\* ShutdownDaemon.
OnExit ==
    /\ \/ exit = "run" /\ exit' = FansAuto /\ commands' = Append(commands, FansAuto)
       \/ exit = "next" /\ exit' = Shutdown /\ commands' = Append(commands, Shutdown)
    /\ UNCHANGED <<task, worker, failures, cause, link, daemonVars, faults,
                   updates, shown, served>>

\* Mutant: only the second command has a timeout.
ExitTimeoutLastOnly ==
    /\ exit = Shutdown /\ exit' = "closed"
    /\ UNCHANGED <<task, workerVars, daemonVars, faults, updates, shown, served>>

\* Two seconds without an answer.  After the second command the process ends,
\* and with it the worker and whatever is still queued.
ExitTimeout ==
    /\ \/ exit = FansAuto /\ exit' = "next"
       \/ exit = Shutdown /\ exit' = "closed"
    /\ UNCHANGED <<task, workerVars, daemonVars, faults, updates, shown, served>>

-----------------------------------------------------------------------------
(* The daemon and the bus. *)

DaemonUpdate ==
    /\ service = "up" /\ version < MaxVersion
    /\ version' = version + 1
    /\ UNCHANGED <<task, workerVars, service, faults, uiVars, served>>

LoseLink ==
    /\ link /\ faults < MaxFaults
    /\ link' = FALSE /\ faults' = faults + 1
    /\ UNCHANGED <<task, commands, worker, failures, cause, daemonVars, uiVars, served>>

\* The daemon exits, or one of its handlers blocks; D-Bus calls have no
\* timeout of their own.
ServiceStops ==
    /\ service = "up" /\ faults < MaxFaults
    /\ service' \in {"down", "hung"} /\ faults' = faults + 1
    /\ UNCHANGED <<task, workerVars, version, uiVars, served>>

ServiceStarts ==
    /\ service # "up"
    /\ service' = "up"
    /\ UNCHANGED <<task, workerVars, version, faults, uiVars, served>>

-----------------------------------------------------------------------------
Next ==
    \/ \E t \in Tasks :
          (\E c \in Components : Refresh(c, t)) \/ Ask(t) \/ SendUpdate(t)
    \/ Connect \/ Receive \/ CallSucceeds \/ CallFails \/ Backoff
    \/ HandleUpdate \/ OnExit \/ ExitTimeout
    \/ DaemonUpdate \/ LoseLink \/ ServiceStops \/ ServiceStarts

\* The coordinator's timer, the tasks, the worker and the UI thread are each
\* scheduled for ever; the bound on tasks must not keep a component out.
\* Nothing makes the user quit, the daemon update or answer, or a fault happen.
Fairness ==
    /\ \A c \in Components : SF_vars(\E t \in Tasks : Refresh(c, t))
    /\ \A t \in Tasks : WF_vars(Ask(t)) /\ SF_vars(SendUpdate(t))
    /\ WF_vars(Connect) /\ WF_vars(Receive) /\ WF_vars(Backoff)
    /\ WF_vars(CallSucceeds \/ CallFails)
    /\ WF_vars(HandleUpdate)
    /\ WF_vars(exit = "next" /\ OnExit) /\ WF_vars(ExitTimeout)

Spec == Init /\ [][Next]_vars /\ Fairness

-----------------------------------------------------------------------------
(* Properties. *)

TaskType == [pc : {"spawned", "waiting", "sending"}, comp : Components,
             version : 0 .. MaxVersion, shared : BOOLEAN]
UpdateType == [comp : Components, version : 0 .. MaxVersion, shared : BOOLEAN]

\* Every variable keeps its type; a connection never outlives FailLimit + 1
\* failures in a row, and every task that waits has its request in the queue
\* exactly once.
TypeOK ==
    /\ task \in [Tasks -> TaskType \cup {Free}]
    /\ commands \in Seq(Tasks \cup ExitCommands)
    /\ worker \in {"connect", "recv", "call", "backoff"}
    /\ failures \in 0 .. FailLimit
    /\ cause \in {"none", "lost", "absent", "handler"}
    /\ link \in BOOLEAN /\ service \in {"up", "down", "hung"}
    /\ version \in 0 .. MaxVersion /\ faults \in 0 .. MaxFaults
    /\ updates \in Seq(UpdateType) /\ Len(updates) <= UpdateCap
    /\ shown \in [Components -> 0 .. MaxVersion]
    /\ exit \in {"run", FansAuto, "next", Shutdown, "closed"}
    /\ served \in Seq(ExitCommands)
    /\ \A t \in Tasks :
          Cardinality({i \in DOMAIN commands : commands[i] = t})
             = (IF task[t].pc = "waiting" THEN 1 ELSE 0)

\* What is shown goes back to an older snapshot only when two requests for the
\* component were under way together: one at a time, answers stay in order
\* through the queue, the task and the channel.
BackOnlyByOverlap ==
    [][\A c \in Components : shown'[c] < shown[c] => Head(updates).shared]_vars

\* Once the daemon is there for good, the GUI ends up showing its present
\* state, whatever was lost before: the worker gets rid of a dead connection.
EventuallyShown ==
    <>[](service = "up" /\ exit = "run")
        => \A c \in Components \ Failing : <>[](shown[c] = version)

\* The daemon is never told to stop before it was told to hand the fans back,
\* timeouts or not, and each is sent at most once.
AutoBeforeShutdown ==
    served \in {<<>>, <<FansAuto>>, <<FansAuto, Shutdown>>}

\* The GUI can always be closed, also when the daemon or the bus is gone or a
\* call hangs.
ExitEnds == exit # "run" ~> exit = "closed"

\* "connection/service loss ... cause the worker to discard the
\* proxy/connection": after a call that failed for that reason no other command
\* is taken on the same connection.  One is: the error's text is gone by then.
LossReconnects == worker = "call" => cause \notin {"lost", "absent"}

=============================================================================
