--------------------------- MODULE GuiClient_proofs ---------------------------
(* Proofs of the safety properties of GuiClient, for any components, any     *)
(* number of refresh tasks at a time, any limits and any number of faults.   *)
(*                                                                           *)
(*   Types      the types, and QueueInv: a task's request is in the worker's *)
(*              queue exactly while the task waits, and once;                *)
(*   ExitOrder  what the queue and the history of taken commands can hold at *)
(*              each point of on_exit;                                       *)
(*   Fresh      an answer whose request was alone is as new as all that the  *)
(*              component had before, on the screen or in the channel.       *)
EXTENDS GuiClient, FiniteSetTheorems, SequenceTheorems, TLAPS

Requests == Tasks \cup ExitCommands

QueueInv ==
    /\ \A i \in 1 .. Len(commands) :
          commands[i] \in Tasks => task[commands[i]].pc = "waiting"
    /\ \A i, j \in 1 .. Len(commands) :
          commands[i] \in Tasks /\ commands[i] = commands[j] => i = j
    /\ \A t \in Tasks : task[t].pc = "waiting" =>
          \E i \in 1 .. Len(commands) : commands[i] = t
    /\ worker = "call" => commands # <<>>

Types ==
    /\ task \in [Tasks -> TaskType \cup {Free}]
    /\ commands \in Seq(Requests)
    /\ worker \in {"connect", "recv", "call", "backoff"}
    /\ failures \in 0 .. FailLimit
    /\ cause \in {"none", "lost", "absent", "handler"}
    /\ link \in BOOLEAN /\ service \in {"up", "down", "hung"}
    /\ version \in 0 .. MaxVersion /\ faults \in 0 .. MaxFaults
    /\ updates \in Seq(UpdateType) /\ Len(updates) <= UpdateCap
    /\ shown \in [Components -> 0 .. MaxVersion]
    /\ exit \in {"run", FansAuto, "next", Shutdown, "closed"}
    /\ served \in Seq(ExitCommands)
    /\ QueueInv

-----------------------------------------------------------------------------
(* Sequences and records *)

\* One element and another.
LEMMA PairFacts == ASSUME NEW a, NEW b PROVE Append(<<a>>, b) = <<a, b>>
<1> DEFINE S == {a, b}
<1>1. <<a>> \in Seq(S) /\ <<a, b>> \in Seq(S) /\ b \in S
  OBVIOUS
<1>2. Len(<<a>>) = 1 /\ Len(<<a, b>>) = 2 /\ <<a>>[1] = a /\ <<a, b>>[1] = a /\ <<a, b>>[2] = b
  OBVIOUS
<1>3. /\ Append(<<a>>, b) \in Seq(S) /\ Len(Append(<<a>>, b)) = 2
      /\ Append(<<a>>, b)[1] = a /\ Append(<<a>>, b)[2] = b
  BY <1>1, <1>2, AppendProperties
<1>4. \A i \in 1 .. 2 : Append(<<a>>, b)[i] = <<a, b>>[i]
  BY <1>2, <1>3
<1> QED
  BY <1>1, <1>2, <1>3, <1>4, SeqEqual

\* An element is put at the end.
LEMMA AppendFacts ==
    ASSUME NEW S, NEW s \in Seq(S), NEW e \in S
    PROVE  /\ Append(s, e) \in Seq(S) /\ Len(s) \in Nat
           /\ Len(Append(s, e)) = Len(s) + 1
           /\ \A i \in 1 .. Len(s) : Append(s, e)[i] = s[i]
           /\ Append(s, e)[Len(s) + 1] = e
OBVIOUS

\* The head is taken off.
LEMMA TailFacts ==
    ASSUME NEW S, NEW s \in Seq(S), s # <<>>
    PROVE  /\ Head(s) \in S /\ Head(s) = s[1] /\ Tail(s) \in Seq(S)
           /\ Len(s) \in Nat \ {0} /\ Len(Tail(s)) = Len(s) - 1
           /\ \A i \in 1 .. (Len(s) - 1) : Tail(s)[i] = s[i + 1]
BY HeadTailProperties, EmptySeq

\* A task is free or has all its fields.
LEMMA TaskFacts ==
    ASSUME Types, NEW t \in Tasks
    PROVE  /\ task[t].pc # "free" => task[t] \in TaskType
           /\ task[t].pc \in {"free", "spawned", "waiting", "sending"}
BY DEF Types, TaskType, Free

\* The names of requests and of exit commands differ.
LEMMA NameFacts ==
    /\ FansAuto # Shutdown /\ FansAuto \in ExitCommands /\ Shutdown \in ExitCommands
    /\ \A t \in Tasks : t \notin ExitCommands /\ t # FansAuto /\ t # Shutdown
    /\ \A r \in Requests : r \in Tasks \/ r = FansAuto \/ r = Shutdown
    /\ \A r \in Requests : r \in Tasks <=> r \notin ExitCommands
    /\ {FansAuto, Shutdown} \cap {"run", "next", "closed"} = {}
BY GuiAssumption DEF FansAuto, Shutdown, ExitCommands, Requests

-----------------------------------------------------------------------------
(* What a step does to the tasks *)

\* A task is spawned; others for the component learn that they are not alone.
LEMMA RefreshFacts ==
    ASSUME Types, NEW c \in Components, NEW t \in Tasks, Refresh(c, t)
    PROVE  /\ task' \in [Tasks -> TaskType \cup {Free}]
           /\ task[t].pc = "free" /\ task'[t].pc = "spawned" /\ task'[t].comp = c
           /\ task'[t].shared = (Others(t, c) # {})
           /\ \A u \in Tasks \ {t} :
                 /\ task'[u].pc = task[u].pc
                 /\ task[u].pc # "free" =>
                       /\ task'[u].comp = task[u].comp
                       /\ task'[u].version = task[u].version
                       /\ task'[u].shared = (task[u].shared \/ task[u].comp = c)
<1>1. /\ task[t].pc = "free"
      /\ task' = [u \in Tasks |->
            IF u = t THEN [pc |-> "spawned", comp |-> c, version |-> 0,
                           shared |-> Others(t, c) # {}]
            ELSE IF u \in Others(t, c) THEN [task[u] EXCEPT !.shared = TRUE]
            ELSE task[u]]
  BY DEF Refresh
<1> DEFINE new == [pc |-> "spawned", comp |-> c, version |-> 0,
                   shared |-> Others(t, c) # {}]
<1>2. /\ new \in TaskType /\ new.pc = "spawned" /\ new.comp = c
      /\ new.shared = (Others(t, c) # {})
  BY GuiAssumption DEF TaskType
<1>3. task'[t] = new
  BY <1>1
<1>4. ASSUME NEW u \in Tasks \ {t}
      PROVE  /\ task'[u] \in TaskType \cup {Free}
             /\ task'[u].pc = task[u].pc
             /\ task[u].pc # "free" =>
                   /\ task'[u].comp = task[u].comp
                   /\ task'[u].version = task[u].version
                   /\ task'[u].shared = (task[u].shared \/ task[u].comp = c)
  <2>1. CASE u \in Others(t, c)
    <3>1. /\ task'[u] = [task[u] EXCEPT !.shared = TRUE] /\ task[u].comp = c
          /\ task[u] \in TaskType
      BY <1>1, <2>1, TaskFacts DEF Others
    <3> QED
      BY <3>1 DEF TaskType
  <2>2. CASE u \notin Others(t, c)
    <3>1. task'[u] = task[u] /\ (task[u].pc # "free" => task[u].comp # c)
      BY <1>1, <2>2 DEF Others
    <3>2. task[u].pc # "free" => task[u].shared \in BOOLEAN
      BY TaskFacts DEF TaskType
    <3> QED
      BY <3>1, <3>2 DEF Types
  <2> QED
    BY <2>1, <2>2
<1>5. task' \in [Tasks -> TaskType \cup {Free}]
  <2>1. task' = [u \in Tasks |-> task'[u]]
    BY <1>1
  <2>2. \A u \in Tasks : task'[u] \in TaskType \cup {Free}
    BY <1>2, <1>3, <1>4
  <2> QED
    BY <2>1, <2>2
<1> HIDE DEF new
<1> QED
  BY <1>1, <1>2, <1>3, <1>4, <1>5

\* The command at the head of the queue is answered and leaves it.
LEMMA AnswerFacts ==
    ASSUME Types, worker = "call", NEW ok \in BOOLEAN, Answer(ok),
           commands' = Tail(commands)
    PROVE  /\ commands # <<>> /\ Head(commands) \in Requests
           /\ task' \in [Tasks -> TaskType \cup {Free}]
           /\ exit' = exit \/ (exit = FansAuto /\ exit' = "next")
                           \/ (exit = Shutdown /\ exit' = "closed")
           /\ Head(commands) \in Tasks =>
                 LET r == Head(commands)
                 IN  /\ task[r].pc = "waiting"
                     /\ task'[r].pc \in {"sending", "free"}
                     /\ task'[r].pc = "sending" =>
                           /\ task'[r].version = version
                           /\ task'[r].comp = task[r].comp
                           /\ task'[r].shared = task[r].shared
           /\ \A u \in Tasks \ {Head(commands)} : task'[u] = task[u]
<1> DEFINE r == Head(commands)
<1>1. commands # <<>> /\ r \in Requests /\ r = commands[1] /\ 1 \in 1 .. Len(commands)
  BY TailFacts DEF Types, QueueInv
<1> HIDE DEF r
<1>2. CASE r \in ExitCommands
  BY <1>1, <1>2, NameFacts DEF Answer, Types, r
<1>3. CASE r \in Tasks
  <2>1. task[r].pc = "waiting" /\ task[r] \in TaskType
    BY <1>1, <1>3, TaskFacts DEF Types, QueueInv
  <2>2. UNCHANGED exit
        /\ task' = [task EXCEPT ![r] =
              IF ok THEN [@ EXCEPT !.pc = "sending", !.version = version] ELSE Free]
    BY <1>3, NameFacts DEF Answer, r
  <2> DEFINE done == [task[r] EXCEPT !.pc = "sending", !.version = version]
  <2>3. /\ done \in TaskType /\ done.pc = "sending" /\ done.version = version
        /\ done.comp = task[r].comp /\ done.shared = task[r].shared
    BY <2>1 DEF Types, TaskType
  <2>4. task'[r] = (IF ok THEN done ELSE Free) /\ Free.pc = "free"
    BY <1>3, <2>2 DEF Types, Free
  <2>5. task' \in [Tasks -> TaskType \cup {Free}]
    BY <1>3, <2>2, <2>3 DEF Types
  <2>6. \A u \in Tasks \ {r} : task'[u] = task[u]
    BY <2>2 DEF Types
  <2> HIDE DEF done
  <2> QED
    BY <1>1, <1>3, <2>1, <2>2, <2>3, <2>4, <2>5, <2>6 DEF r
<1> QED
  BY <1>1, <1>2, <1>3, NameFacts

-----------------------------------------------------------------------------
(* The queue and the types *)

LEMMA InitTypes == Init => Types
<1> SUFFICES ASSUME Init PROVE Types
  OBVIOUS
<1>1. \A t \in Tasks : task[t].pc = "free"
  BY DEF Init, Free
<1>2. Len(commands) = 0 /\ commands \in Seq(Requests) /\ updates \in Seq(UpdateType)
      /\ Len(updates) = 0 /\ served \in Seq(ExitCommands)
  BY DEF Init
<1>3. QueueInv
  BY <1>1, <1>2 DEF Init, QueueInv
<1>4. /\ 0 \in 0 .. FailLimit /\ 0 \in 0 .. MaxVersion /\ 0 \in 0 .. MaxFaults
      /\ 0 <= UpdateCap
  BY GuiAssumption
<1> QED
  BY <1>2, <1>3, <1>4 DEF Init, Types

\* The queue when a task or the UI thread puts a command at its end.
LEMMA AppendQueue ==
    ASSUME Types, NEW r \in Requests, commands' = Append(commands, r),
           worker' = worker,
           \A u \in Tasks : u # r => task'[u].pc = task[u].pc,
           r \in Tasks => task[r].pc # "waiting" /\ task'[r].pc = "waiting"
    PROVE  commands' \in Seq(Requests) /\ QueueInv'
<1>1. /\ commands' \in Seq(Requests) /\ Len(commands) \in Nat
      /\ Len(commands') = Len(commands) + 1
      /\ \A i \in 1 .. Len(commands) : commands'[i] = commands[i]
      /\ commands'[Len(commands) + 1] = r
  BY AppendFacts DEF Types
<1>2. \A i \in 1 .. Len(commands) : commands[i] \in Tasks => commands[i] # r
  BY DEF Types, QueueInv
<1>3. \A i \in 1 .. Len(commands') :
         commands'[i] \in Tasks => task'[commands'[i]].pc = "waiting"
  BY <1>1, <1>2 DEF Types, QueueInv
<1>4. \A i, j \in 1 .. Len(commands') :
         commands'[i] \in Tasks /\ commands'[i] = commands'[j] => i = j
  BY <1>1, <1>2 DEF Types, QueueInv
<1>5. ASSUME NEW t \in Tasks, task'[t].pc = "waiting"
      PROVE  \E i \in 1 .. Len(commands') : commands'[i] = t
  <2>1. CASE t = r
    <3>1. Len(commands) + 1 \in 1 .. Len(commands')
      BY <1>1
    <3> QED
      BY <1>1, <2>1, <3>1
  <2>2. CASE t # r
    <3>1. PICK i \in 1 .. Len(commands) : commands[i] = t
      BY <1>5, <2>2 DEF Types, QueueInv
    <3>2. i \in 1 .. Len(commands')
      BY <1>1, <3>1
    <3> QED
      BY <1>1, <3>1, <3>2
  <2> QED
    BY <2>1, <2>2
<1>6. commands' # <<>>
  BY <1>1
<1> QED
  BY <1>1, <1>3, <1>4, <1>5, <1>6 DEF QueueInv

\* The queue when the head is answered.
LEMMA TailQueue ==
    ASSUME Types, worker = "call", worker' # "call", NEW ok \in BOOLEAN, Answer(ok),
           commands' = Tail(commands)
    PROVE  commands' \in Seq(Requests) /\ QueueInv'
<1> DEFINE r == Head(commands)
           n == Len(commands)
<1>1. /\ r = commands[1] /\ n \in Nat \ {0} /\ Len(commands') = n - 1
      /\ commands' \in Seq(Requests)
      /\ \A i \in 1 .. (n - 1) : commands'[i] = commands[i + 1]
  BY AnswerFacts, TailFacts DEF Types
<1>2. /\ \A u \in Tasks \ {r} : task'[u] = task[u]
      /\ r \in Tasks => task'[r].pc # "waiting"
  BY AnswerFacts
<1>3. \A i \in 1 .. (n - 1) : i + 1 \in 1 .. n
  BY <1>1
<1>4. \A i \in 1 .. (n - 1) : commands'[i] \in Tasks => commands'[i] # r
  BY <1>1, <1>3 DEF Types, QueueInv
<1>5. \A i \in 1 .. (n - 1) : commands'[i] \in Tasks => task'[commands'[i]].pc = "waiting"
  BY <1>1, <1>2, <1>3, <1>4 DEF Types, QueueInv
<1>6. ASSUME NEW i \in 1 .. (n - 1), NEW j \in 1 .. (n - 1), commands'[i] \in Tasks,
             commands'[i] = commands'[j]
      PROVE  i = j
  <2>1. i + 1 = j + 1
    BY <1>1, <1>3, <1>6 DEF Types, QueueInv
  <2> QED
    BY <1>1, <2>1
<1>7. ASSUME NEW t \in Tasks, task'[t].pc = "waiting"
      PROVE  \E i \in 1 .. (n - 1) : commands'[i] = t
  <2>1. t # r /\ task[t].pc = "waiting"
    BY <1>2, <1>7
  <2>2. PICK k \in 1 .. n : commands[k] = t
    BY <2>1 DEF Types, QueueInv
  <2>3. k # 1 /\ k - 1 \in 1 .. (n - 1) /\ (k - 1) + 1 = k
    BY <1>1, <2>1, <2>2
  <2> QED
    BY <1>1, <2>2, <2>3
<1> HIDE DEF n, r
<1> QED
  BY <1>1, <1>5, <1>6, <1>7 DEF QueueInv

\* A step that leaves the queue alone, and spawns or frees tasks at most.
LEMMA SameQueue ==
    ASSUME Types, commands' = commands, worker' = "call" => worker = "call" \/ commands # <<>>,
           \A u \in Tasks : task'[u].pc = "waiting" <=> task[u].pc = "waiting"
    PROVE  QueueInv'
BY DEF Types, QueueInv

\* Receive takes no command off the queue yet, but remembers an exit command.
LEMMA ReceiveTypes ==
    ASSUME Types, Receive
    PROVE  Types'
<1>1. served' \in Seq(ExitCommands)
  <2>1. CASE Head(commands) \in ExitCommands
    BY <2>1, AppendFacts DEF Receive, Types
  <2>2. CASE Head(commands) \notin ExitCommands
    BY <2>2 DEF Receive, Types
  <2> QED
    BY <2>1, <2>2
<1>2. QueueInv'
  BY SameQueue DEF Receive
<1> QED
  BY <1>1, <1>2 DEF Receive, Types, daemonVars, uiVars

\* A call ends.
LEMMA CallTypes ==
    ASSUME Types, CallSucceeds \/ CallFails
    PROVE  Types'
<1>1. PICK ok \in BOOLEAN :
          /\ worker = "call" /\ Answer(ok) /\ commands' = Tail(commands)
          /\ UNCHANGED <<link, daemonVars, faults, updates, shown, served>>
  BY DEF CallSucceeds, CallFails
<1>2. /\ worker' \in {"recv", "backoff"} /\ failures' \in 0 .. FailLimit
      /\ cause' \in {"none", "lost", "absent", "handler"}
  <2>1. CASE CallSucceeds
    BY <2>1, GuiAssumption DEF CallSucceeds
  <2>2. CASE CallFails
    <3>1. PICK why \in {"lost", "absent", "handler"} : cause' = why /\ AfterFailure(why)
      BY <2>2 DEF CallFails
    <3>2. CASE IsConnectionError(why) \/ failures >= FailLimit
      BY <3>1, <3>2 DEF AfterFailure, Types
    <3>3. CASE ~(IsConnectionError(why) \/ failures >= FailLimit)
      BY <3>1, <3>3, GuiAssumption DEF AfterFailure, Types
    <3> QED
      BY <3>2, <3>3
  <2> QED
    BY <2>1, <2>2
<1>3. commands' \in Seq(Requests) /\ QueueInv'
  BY <1>1, <1>2, TailQueue
<1>4. task' \in [Tasks -> TaskType \cup {Free}]
  BY <1>1, AnswerFacts
<1>5. exit' \in {"run", FansAuto, "next", Shutdown, "closed"}
  BY <1>1, AnswerFacts DEF Types
<1> QED
  BY <1>1, <1>2, <1>3, <1>4, <1>5 DEF Types, daemonVars

\* A task asks.
LEMMA AskTypes ==
    ASSUME Types, NEW t \in Tasks, Ask(t)
    PROVE  Types'
<1> DEFINE asked == [task[t] EXCEPT !.pc = "waiting"]
<1>1. task[t] \in TaskType /\ task[t].pc = "spawned"
  BY TaskFacts DEF Ask
<1>2. asked \in TaskType /\ asked.pc = "waiting"
  BY <1>1 DEF TaskType
<1>3. task' = [task EXCEPT ![t] = asked]
  BY DEF Ask
<1> HIDE DEF asked
<1>4. /\ task' \in [Tasks -> TaskType \cup {Free}] /\ task'[t].pc = "waiting"
      /\ \A u \in Tasks \ {t} : task'[u] = task[u]
  BY <1>2, <1>3 DEF Types
<1>5. commands' \in Seq(Requests) /\ QueueInv'
  <2>1. t \in Requests /\ commands' = Append(commands, t) /\ worker' = worker
    BY DEF Requests, Ask
  <2> QED
    BY <1>1, <1>4, <2>1, AppendQueue
<1> QED
  BY <1>4, <1>5 DEF Ask, Types, daemonVars, uiVars

\* What SendUpdate puts into the channel.
LEMMA SendFacts ==
    ASSUME Types, NEW t \in Tasks, SendUpdate(t)
    PROVE  /\ task[t] \in TaskType /\ task[t].pc = "sending"
           /\ task' \in [Tasks -> TaskType \cup {Free}] /\ task'[t].pc = "free"
           /\ \A u \in Tasks \ {t} : task'[u] = task[u]
           /\ updates' \in Seq(UpdateType) /\ Len(updates) \in Nat
           /\ Len(updates') = Len(updates) + 1 /\ Len(updates) < UpdateCap
           /\ \A i \in 1 .. Len(updates) : updates'[i] = updates[i]
           /\ LET u == updates'[Len(updates) + 1]
              IN  u.comp = task[t].comp /\ u.version = task[t].version
                  /\ u.shared = task[t].shared
<1> DEFINE u == [comp |-> task[t].comp, version |-> task[t].version,
                 shared |-> task[t].shared]
<1>1. task[t] \in TaskType /\ task[t].pc = "sending"
  BY TaskFacts DEF SendUpdate
<1>2. /\ u \in UpdateType /\ u.comp = task[t].comp
      /\ u.version = task[t].version /\ u.shared = task[t].shared
  BY <1>1 DEF TaskType, UpdateType
<1>3. updates' = Append(updates, u) /\ Len(updates) < UpdateCap
  BY DEF SendUpdate
<1> HIDE DEF u
<1>4. /\ updates' \in Seq(UpdateType) /\ Len(updates) \in Nat
      /\ Len(updates') = Len(updates) + 1
      /\ \A i \in 1 .. Len(updates) : updates'[i] = updates[i]
      /\ updates'[Len(updates) + 1] = u
  BY <1>2, <1>3, AppendFacts DEF Types
<1>5. /\ task' \in [Tasks -> TaskType \cup {Free}] /\ task'[t].pc = "free"
      /\ \A v \in Tasks \ {t} : task'[v] = task[v]
  BY DEF SendUpdate, Types, Free
<1> QED
  BY <1>1, <1>2, <1>3, <1>4, <1>5

\* What the UI thread takes out of it.
LEMMA HandleFacts ==
    ASSUME Types, HandleUpdate
    PROVE  LET u == updates[1]
           IN  /\ Head(updates) = u /\ u \in UpdateType
               /\ shown' = [shown EXCEPT ![u.comp] = u.version]
               /\ updates' \in Seq(UpdateType) /\ Len(updates) \in Nat \ {0}
               /\ Len(updates') = Len(updates) - 1
               /\ \A i \in 1 .. (Len(updates) - 1) : updates'[i] = updates[i + 1]
BY ZenonT(60), TailFacts DEF HandleUpdate, Types

LEMMA StepTypes == Types /\ [Next]_vars => Types'
<1> SUFFICES ASSUME Types, [Next]_vars PROVE Types'
  OBVIOUS
<1>1. ASSUME NEW c \in Components, NEW t \in Tasks, Refresh(c, t) PROVE Types'
  <2>1. /\ task' \in [Tasks -> TaskType \cup {Free}]
        /\ \A u \in Tasks : task'[u].pc = "waiting" <=> task[u].pc = "waiting"
    BY <1>1, RefreshFacts
  <2>2. QueueInv'
    BY <1>1, <2>1, SameQueue DEF Refresh, workerVars
  <2> QED
    BY <1>1, <2>1, <2>2 DEF Refresh, Types, workerVars, daemonVars, uiVars
<1>2. ASSUME NEW t \in Tasks, SendUpdate(t) PROVE Types'
  <2>1. /\ task' \in [Tasks -> TaskType \cup {Free}]
        /\ \A u \in Tasks : task'[u].pc = "waiting" <=> task[u].pc = "waiting"
        /\ updates' \in Seq(UpdateType) /\ Len(updates') <= UpdateCap
    BY <1>2, SendFacts, GuiAssumption
  <2>2. QueueInv'
    BY <1>2, <2>1, SameQueue DEF SendUpdate, workerVars
  <2> QED
    BY <1>2, <2>1, <2>2 DEF SendUpdate, Types, workerVars, daemonVars
<1>3. CASE Connect \/ Backoff
  <2>1. QueueInv'
    BY <1>3, SameQueue DEF Connect, Backoff
  <2>2. failures' \in 0 .. FailLimit
    BY <1>3, GuiAssumption DEF Connect, Backoff, Types
  <2> QED
    BY <1>3, <2>1, <2>2 DEF Connect, Backoff, Types, daemonVars, uiVars
<1>4. CASE HandleUpdate
  <2>1. QueueInv'
    BY <1>4, SameQueue DEF HandleUpdate, workerVars
  <2>2. updates' \in Seq(UpdateType) /\ Len(updates') <= UpdateCap
    BY <1>4, HandleFacts, GuiAssumption DEF Types
  <2>3. shown' \in [Components -> 0 .. MaxVersion]
    BY <1>4, HandleFacts DEF Types, UpdateType
  <2> QED
    BY <1>4, <2>1, <2>2, <2>3 DEF HandleUpdate, Types, workerVars, daemonVars
<1>5. CASE OnExit
  <2>1. PICK r \in {FansAuto, Shutdown} :
           commands' = Append(commands, r) /\ exit' = r
    BY <1>5 DEF OnExit
  <2>2. r \in Requests /\ r \notin Tasks
    BY <2>1, NameFacts DEF Requests
  <2>3. worker' = worker /\ task' = task
    BY <1>5 DEF OnExit
  <2>4. commands' \in Seq(Requests) /\ QueueInv'
    BY <2>1, <2>2, <2>3, AppendQueue
  <2> QED
    BY <1>5, <2>1, <2>4 DEF OnExit, Types, daemonVars
<1>6. CASE ExitTimeout
  <2>1. QueueInv'
    BY <1>6, SameQueue DEF ExitTimeout, workerVars
  <2> QED
    BY <1>6, <2>1 DEF ExitTimeout, Types, workerVars, daemonVars
<1>7. CASE DaemonUpdate \/ LoseLink \/ ServiceStops \/ ServiceStarts
  <2>1. /\ UNCHANGED <<task, commands, worker, failures, cause, updates, shown, exit,
                       served>>
        /\ link' \in BOOLEAN /\ service' \in {"up", "down", "hung"}
    BY <1>7 DEF DaemonUpdate, LoseLink, ServiceStops, ServiceStarts, Types,
                workerVars, daemonVars, uiVars
  <2>2. version' \in 0 .. MaxVersion /\ faults' \in 0 .. MaxFaults
    BY SMTT(60), <1>7, GuiAssumption
       DEF DaemonUpdate, LoseLink, ServiceStops, ServiceStarts, Types, daemonVars
  <2>3. QueueInv'
    BY <2>1, SameQueue
  <2> QED
    BY <2>1, <2>2, <2>3 DEF Types
<1>8. CASE UNCHANGED vars
  BY <1>8 DEF vars, Types, QueueInv
<1> QED
  BY <1>1, <1>2, <1>3, <1>4, <1>5, <1>6, <1>7, <1>8, AskTypes, ReceiveTypes,
     CallTypes DEF Next

\* Every variable keeps its type, and each waiting task has its request in the
\* queue exactly once.
THEOREM TypeCorrect == Spec => []TypeOK
<1>1. Types => TypeOK
  <2> SUFFICES ASSUME Types, NEW t \in Tasks
               PROVE  Cardinality({i \in DOMAIN commands : commands[i] = t})
                         = (IF task[t].pc = "waiting" THEN 1 ELSE 0)
    BY DEF Types, TypeOK, Requests
  <2> DEFINE at == {i \in DOMAIN commands : commands[i] = t}
  <2>1. at = {i \in 1 .. Len(commands) : commands[i] = t}
    BY DEF Types
  <2>2. CASE task[t].pc = "waiting"
    <3>1. PICK k \in 1 .. Len(commands) : commands[k] = t
      BY <2>2 DEF Types, QueueInv
    <3>2. at = {k}
      BY <2>1, <3>1 DEF Types, QueueInv
    <3> QED
      BY <2>2, <3>2, FS_Singleton
  <2>3. CASE task[t].pc # "waiting"
    <3>1. at = {}
      BY <2>1, <2>3 DEF Types, QueueInv
    <3> QED
      BY <2>3, <3>1, FS_EmptySet
  <2> QED
    BY <2>2, <2>3
<1> QED
  BY InitTypes, StepTypes, <1>1, PTL DEF Spec

-----------------------------------------------------------------------------
(* The order of the exit commands *)

\* The commands that the worker has not taken yet.
Rest == IF worker = "call" THEN Tail(commands) ELSE commands

\* SetAllFansAuto is sent when on_exit begins and ShutdownDaemon at its second
\* half; each is in the queue or taken, and the first stays in front.
ExitOrder ==
    /\ served \in {<<>>, <<FansAuto>>, <<FansAuto, Shutdown>>}
    /\ exit = "run" => served = <<>>
    /\ exit \in {FansAuto, "next"} => served \in {<<>>, <<FansAuto>>}
    /\ exit # "run" /\ served = <<>> =>
          \E i \in 1 .. Len(Rest) : Rest[i] = FansAuto
    /\ \A i \in 1 .. Len(Rest) : Rest[i] = FansAuto =>
          /\ exit # "run" /\ served = <<>>
          /\ \A j \in 1 .. Len(Rest) : Rest[j] = FansAuto => j = i
          /\ \A j \in 1 .. Len(Rest) : Rest[j] = Shutdown => i < j
    /\ \A i \in 1 .. Len(Rest) : Rest[i] = Shutdown =>
          /\ exit \in {Shutdown, "closed"} /\ served \in {<<>>, <<FansAuto>>}
          /\ \A j \in 1 .. Len(Rest) : Rest[j] = Shutdown => j = i

LEMMA RestType ==
    ASSUME Types
    PROVE  Rest \in Seq(Requests) /\ Len(Rest) \in Nat
BY TailFacts DEF Types, QueueInv, Rest

\* A command sent while the worker does something else ends the rest.
LEMMA RestAppend ==
    ASSUME Types, NEW r \in Requests, commands' = Append(commands, r),
           worker' = worker
    PROVE  /\ Len(Rest') = Len(Rest) + 1 /\ Rest'[Len(Rest) + 1] = r
           /\ \A i \in 1 .. Len(Rest) : Rest'[i] = Rest[i]
<1>1. /\ commands' \in Seq(Requests) /\ Len(commands) \in Nat
      /\ Len(commands') = Len(commands) + 1
      /\ \A i \in 1 .. Len(commands) : commands'[i] = commands[i]
      /\ commands'[Len(commands) + 1] = r
  BY AppendFacts DEF Types
<1>2. CASE worker = "call"
  <2>1. commands # <<>> /\ commands' # <<>>
    <3>1. commands # <<>>
      BY <1>2 DEF Types, QueueInv
    <3>2. Len(commands') # 0
      BY <1>1
    <3> QED
      BY <3>1, <3>2, EmptySeq
  <2>2. /\ Rest = Tail(commands) /\ Rest' = Tail(commands')
        /\ Len(commands) \in Nat \ {0}
        /\ Len(Rest) = Len(commands) - 1 /\ Len(Rest') = Len(commands)
        /\ \A i \in 1 .. (Len(commands) - 1) : Rest[i] = commands[i + 1]
    BY <1>1, <1>2, <2>1, TailFacts DEF Types, Rest
  <2>3. \A i \in 1 .. Len(commands) : Rest'[i] = commands'[i + 1]
    BY <1>1, <2>1, <2>2, TailFacts
  <2>4. Rest'[Len(Rest) + 1] = r
    BY <1>1, <2>2, <2>3
  <2>5. ASSUME NEW i \in 1 .. Len(Rest) PROVE Rest'[i] = Rest[i]
    <3>1. i \in 1 .. Len(commands) /\ i + 1 \in 1 .. Len(commands)
          /\ i \in 1 .. (Len(commands) - 1)
      BY <2>2
    <3> QED
      BY <1>1, <2>2, <2>3, <3>1
  <2> QED
    BY <2>2, <2>4, <2>5
<1>3. CASE worker # "call"
  BY <1>1, <1>3 DEF Rest
<1> QED
  BY <1>2, <1>3

\* What the order rests on is not disturbed.
LEMMA SameOrder ==
    ASSUME Types, ExitOrder, Rest' = Rest, served' = served,
           \/ exit' = exit
           \/ exit = FansAuto /\ exit' = "next"
           \/ exit = Shutdown /\ exit' = "closed"
    PROVE  ExitOrder'
BY NameFacts DEF ExitOrder

\* A task's request does not matter.
LEMMA AskOrder ==
    ASSUME Types, ExitOrder, NEW t \in Tasks, Ask(t)
    PROVE  ExitOrder'
<1>1. t \in Requests /\ t # FansAuto /\ t # Shutdown
  BY NameFacts DEF Requests
<1>2. /\ Len(Rest') = Len(Rest) + 1 /\ Rest'[Len(Rest) + 1] = t
      /\ \A i \in 1 .. Len(Rest) : Rest'[i] = Rest[i]
  BY <1>1, RestAppend DEF Ask
<1>3. Len(Rest) \in Nat /\ UNCHANGED <<served, exit>>
  BY RestType DEF Ask, uiVars
<1>4. \A i \in 1 .. Len(Rest') : i \in 1 .. Len(Rest) \/ Rest'[i] = t
  BY <1>2, <1>3
<1>5. \A i \in 1 .. Len(Rest) : i \in 1 .. Len(Rest')
  BY <1>2, <1>3
<1>6. (\E i \in 1 .. Len(Rest) : Rest[i] = FansAuto)
         => \E i \in 1 .. Len(Rest') : Rest'[i] = FansAuto
  BY <1>2, <1>5
<1> QED
  BY <1>1, <1>2, <1>3, <1>4, <1>6 DEF ExitOrder

\* on_exit sends its next command.
LEMMA ExitStepOrder ==
    ASSUME Types, ExitOrder, OnExit
    PROVE  ExitOrder'
<1>1. PICK r \in {FansAuto, Shutdown} :
         /\ commands' = Append(commands, r) /\ exit' = r
         /\ r = FansAuto => exit = "run"
         /\ r = Shutdown => exit = "next"
  BY NameFacts DEF OnExit
<1>2. /\ Len(Rest') = Len(Rest) + 1 /\ Rest'[Len(Rest) + 1] = r
      /\ \A i \in 1 .. Len(Rest) : Rest'[i] = Rest[i]
  <2>1. r \in Requests /\ worker' = worker
    BY <1>1 DEF OnExit, Requests, ExitCommands
  <2> QED
    BY <1>1, <2>1, RestAppend
<1>3. Len(Rest) \in Nat /\ UNCHANGED served
  BY RestType DEF OnExit
<1>4. /\ \A i \in 1 .. Len(Rest') : i \in 1 .. Len(Rest) \/ i = Len(Rest) + 1
      /\ \A i \in 1 .. Len(Rest) : i \in 1 .. Len(Rest') /\ i < Len(Rest) + 1
      /\ Len(Rest) + 1 \in 1 .. Len(Rest')
  BY <1>2, <1>3
<1>5. CASE r = FansAuto
  <2>1. \A i \in 1 .. Len(Rest) : Rest[i] # FansAuto /\ Rest[i] # Shutdown
    BY <1>1, <1>5, NameFacts DEF ExitOrder
  <2>2. exit' # "run" /\ served' = <<>> /\ exit' = FansAuto
    BY <1>1, <1>3, <1>5, NameFacts DEF ExitOrder
  <2> QED
    BY <1>2, <1>4, <1>5, <2>1, <2>2, NameFacts DEF ExitOrder
<1>6. CASE r = Shutdown
  <2>1. \A i \in 1 .. Len(Rest) : Rest[i] # Shutdown
    BY <1>1, <1>6, NameFacts DEF ExitOrder
  <2>2. /\ exit' = Shutdown /\ served' = served /\ served \in {<<>>, <<FansAuto>>}
        /\ served = <<>> => \E i \in 1 .. Len(Rest) : Rest[i] = FansAuto
    BY <1>1, <1>3, <1>6, NameFacts DEF ExitOrder
  <2>3. served = <<>> => \E i \in 1 .. Len(Rest') : Rest'[i] = FansAuto
    BY <1>2, <1>4, <2>2
  <2> QED
    BY ZenonT(60), <1>2, <1>4, <1>6, <2>1, <2>2, <2>3, NameFacts
       DEF ExitOrder
<1> QED
  BY <1>5, <1>6

\* The worker takes a command: the first of the rest.
LEMMA ReceiveOrder ==
    ASSUME Types, ExitOrder, Receive
    PROVE  ExitOrder'
<1> DEFINE n == Len(commands)
           h == Head(commands)
<1>1. /\ h = commands[1] /\ h \in Requests /\ n \in Nat \ {0}
      /\ Rest = commands /\ Rest' = Tail(commands)
      /\ Len(Tail(commands)) = n - 1
      /\ \A i \in 1 .. (n - 1) : Tail(commands)[i] = commands[i + 1]
      /\ UNCHANGED exit
  BY TailFacts DEF Types, Receive, Rest, uiVars
<1>2. \A i \in 1 .. (n - 1) : i + 1 \in 1 .. n /\ i + 1 # 1
  BY <1>1
<1>3. served' = IF h \in ExitCommands THEN Append(served, h) ELSE served
  BY DEF Receive
<1> HIDE DEF n, h
<1>4. \A i \in 1 .. n : i = 1 \/ (i - 1 \in 1 .. (n - 1) /\ (i - 1) + 1 = i)
  BY <1>1
<1>5. Len(Rest') = n - 1 /\ \A i \in 1 .. (n - 1) : Rest'[i] = commands[i + 1]
  BY <1>1
<1>6. 1 \in 1 .. n /\ Len(Rest) = n /\ Rest[1] = h
  BY <1>1 DEF n
<1>7. /\ \A i \in 1 .. n : commands[i] = FansAuto =>
            /\ exit # "run" /\ served = <<>>
            /\ \A j \in 1 .. n : commands[j] = FansAuto => j = i
            /\ \A j \in 1 .. n : commands[j] = Shutdown => i < j
      /\ \A i \in 1 .. n : commands[i] = Shutdown =>
            /\ exit \in {Shutdown, "closed"} /\ served \in {<<>>, <<FansAuto>>}
            /\ \A j \in 1 .. n : commands[j] = Shutdown => j = i
      /\ exit # "run" /\ served = <<>> => \E i \in 1 .. n : commands[i] = FansAuto
  <2>1. Rest = commands /\ Len(Rest) = n
    BY <1>1, <1>6
  <2> QED
    BY <2>1 DEF ExitOrder
<1>8. CASE h \in Tasks
  <2>1. served' = served /\ h # FansAuto
    BY <1>3, <1>8, NameFacts
  <2>2. (\E i \in 1 .. n : commands[i] = FansAuto)
           => \E i \in 1 .. (n - 1) : Rest'[i] = FansAuto
    BY <1>1, <1>4, <1>5, <2>1
  <2> QED
    BY <1>1, <1>2, <1>5, <1>7, <2>1, <2>2 DEF ExitOrder
<1>9. CASE h = FansAuto
  <2>1. served = <<>> /\ exit # "run"
    BY <1>1, <1>6, <1>7, <1>9
  <2>2. served' = <<FansAuto>>
    BY <1>3, <1>9, <2>1, NameFacts
  <2>3. ASSUME NEW i \in 1 .. (n - 1) PROVE Rest'[i] # FansAuto
    <3>1. i + 1 \in 1 .. n /\ i + 1 # 1 /\ Rest'[i] = commands[i + 1]
      BY <1>2, <1>5
    <3> QED
      BY <1>1, <1>6, <1>7, <1>9, <3>1
  <2> QED
    BY <1>1, <1>2, <1>5, <1>7, <2>1, <2>2, <2>3, NameFacts DEF ExitOrder
<1>10. CASE h = Shutdown
  <2>1. ASSUME NEW i \in 1 .. n PROVE commands[i] # FansAuto
    <3>1. ~(i < 1)
      BY <1>1
    <3> QED
      BY <1>1, <1>6, <1>7, <1>10, <3>1
  <2>2. exit \in {Shutdown, "closed"} /\ served \in {<<>>, <<FansAuto>>}
    BY <1>1, <1>6, <1>7, <1>10
  <2>3. served = <<FansAuto>>
    BY <1>7, <2>1, <2>2, NameFacts
  <2>4. served' = <<FansAuto, Shutdown>>
    <3>1. served' = Append(<<FansAuto>>, Shutdown)
      BY <1>3, <1>10, <2>3, NameFacts
    <3> QED
      BY <3>1, PairFacts
  <2>5. ASSUME NEW i \in 1 .. (n - 1) PROVE Rest'[i] # Shutdown /\ Rest'[i] # FansAuto
    <3>1. i + 1 \in 1 .. n /\ i + 1 # 1 /\ Rest'[i] = commands[i + 1]
      BY <1>2, <1>5
    <3> QED
      BY ZenonT(60), <1>1, <1>6, <1>7, <1>10, <2>1, <3>1
  <2> QED
    BY <1>1, <1>5, <2>2, <2>4, <2>5, NameFacts DEF ExitOrder
<1> QED
  BY <1>1, <1>8, <1>9, <1>10, NameFacts

LEMMA StepOrder == Types /\ ExitOrder /\ [Next]_vars => ExitOrder'
<1> SUFFICES ASSUME Types, ExitOrder, [Next]_vars PROVE ExitOrder'
  OBVIOUS
<1>1. ASSUME UNCHANGED <<commands, worker, exit, served>> PROVE ExitOrder'
  BY <1>1, SameOrder DEF Rest
<1>2. ASSUME NEW c \in Components, NEW t \in Tasks, Refresh(c, t) PROVE ExitOrder'
  BY <1>1, <1>2 DEF Refresh, workerVars, uiVars
<1>3. ASSUME NEW t \in Tasks, SendUpdate(t) PROVE ExitOrder'
  BY <1>1, <1>3 DEF SendUpdate, workerVars
<1>4. CASE Connect \/ Backoff
  BY <1>4, SameOrder DEF Connect, Backoff, Rest, uiVars
<1>5. CASE CallSucceeds \/ CallFails
  <2>1. PICK ok \in BOOLEAN :
           /\ worker = "call" /\ Answer(ok) /\ commands' = Tail(commands)
           /\ UNCHANGED served
    BY <1>5 DEF CallSucceeds, CallFails
  <2>2. worker' # "call"
    BY <1>5 DEF CallSucceeds, CallFails, AfterFailure
  <2>3. Rest' = Rest
    BY <2>1, <2>2 DEF Rest
  <2> QED
    BY <2>1, <2>3, AnswerFacts, SameOrder
<1>6. CASE ExitTimeout
  BY <1>6, SameOrder DEF ExitTimeout, Rest, workerVars
<1>7. CASE HandleUpdate \/ DaemonUpdate \/ LoseLink \/ ServiceStops \/ ServiceStarts
  BY <1>1, <1>7 DEF HandleUpdate, DaemonUpdate, LoseLink, ServiceStops,
                    ServiceStarts, workerVars, uiVars
<1>8. CASE UNCHANGED vars
  BY <1>1, <1>8 DEF vars
<1> QED
  BY <1>2, <1>3, <1>4, <1>5, <1>6, <1>7, <1>8, AskOrder, ExitStepOrder,
     ReceiveOrder DEF Next

\* The daemon is never told to stop before it was told to hand the fans back,
\* timeouts or not, and each is sent at most once.
THEOREM OrderTheorem == Spec => []AutoBeforeShutdown
<1>1. Init => ExitOrder
  <2> SUFFICES ASSUME Init PROVE ExitOrder
    OBVIOUS
  <2>1. Rest = <<>> /\ Len(Rest) = 0 /\ exit = "run" /\ served = <<>>
    BY DEF Init, Rest
  <2> QED
    BY <2>1, NameFacts DEF ExitOrder
<1>2. ExitOrder => AutoBeforeShutdown
  BY DEF ExitOrder, AutoBeforeShutdown
<1> QED
  BY InitTypes, StepTypes, StepOrder, <1>1, <1>2, PTL DEF Spec

-----------------------------------------------------------------------------
(* The order of the answers *)

\* Nothing is newer than the daemon's present state.
Known ==
    /\ \A c \in Components : shown[c] <= version
    /\ \A i \in 1 .. Len(updates) : updates[i].version <= version
    /\ \A t \in Tasks : task[t].pc = "sending" => task[t].version <= version

\* Two tasks of one component both know that they are not alone.
Paired ==
    \A t, u \in Tasks :
        /\ t # u /\ task[t].pc # "free" /\ task[u].pc # "free"
        /\ task[t].comp = task[u].comp
        => task[t].shared /\ task[u].shared

\* A task that is alone brings what is at least as new as all before it.
FreshTask(t) ==
    /\ shown[task[t].comp] <= task[t].version
    /\ \A i \in 1 .. Len(updates) :
          updates[i].comp = task[t].comp => updates[i].version <= task[t].version

\* So does an update that such a task has left in the channel.
FreshUpdate(i) ==
    /\ shown[updates[i].comp] <= updates[i].version
    /\ \A j \in 1 .. (i - 1) :
          updates[j].comp = updates[i].comp => updates[j].version <= updates[i].version

Fresh ==
    /\ Known
    /\ Paired
    /\ \A t \in Tasks : task[t].pc = "sending" /\ ~task[t].shared => FreshTask(t)
    /\ \A i \in 1 .. Len(updates) : ~updates[i].shared => FreshUpdate(i)

\* Versions are numbers.
LEMMA NatFacts ==
    ASSUME Types
    PROVE  /\ version \in Nat /\ \A c \in Components : shown[c] \in Nat
           /\ \A i \in 1 .. Len(updates) : updates[i].version \in Nat
<1>1. 0 .. MaxVersion \subseteq Nat
  BY GuiAssumption
<1>2. \A i \in 1 .. Len(updates) : updates[i] \in UpdateType
  BY DEF Types
<1>3. version \in Nat /\ \A c \in Components : shown[c] \in Nat
  BY <1>1 DEF Types
<1>4. \A i \in 1 .. Len(updates) : updates[i].version \in Nat
  BY <1>1, <1>2 DEF UpdateType
<1> QED
  BY <1>3, <1>4

LEMMA InitFresh == Init => Fresh
<1> SUFFICES ASSUME Init PROVE Fresh
  OBVIOUS
<1>1. /\ \A t \in Tasks : task[t].pc = "free"
      /\ Len(updates) = 0 /\ version = 0 /\ \A c \in Components : shown[c] = 0
  BY DEF Init, Free
<1> QED
  BY <1>1 DEF Fresh, Known, Paired

\* The screen, the channel and the answers under way are as before.
LEMMA SameFresh ==
    ASSUME Types, Types', Fresh, shown' = shown, updates' = updates,
           version' \in Nat, version <= version',
           \A t \in Tasks :
              /\ task'[t].pc # "free" => task[t].pc # "free"
              /\ task'[t].pc # "free" => /\ task'[t].comp = task[t].comp
                                         /\ task'[t].shared = task[t].shared
              /\ task'[t].pc = "sending" =>
                    \/ task[t].pc = "sending" /\ task'[t].version = task[t].version
                    \/ task'[t].version = version
    PROVE  Fresh'
<1>1. /\ version \in Nat /\ \A c \in Components : shown[c] \in Nat
      /\ \A i \in 1 .. Len(updates) : updates[i].version \in Nat
  BY NatFacts
<1>2. \A t \in Tasks : task'[t].pc = "sending" =>
         /\ task'[t].version \in Nat /\ task'[t].comp \in Components
         /\ task'[t].shared \in BOOLEAN
  BY SMTT(60), GuiAssumption DEF Types, TaskType, Free
<1>3. Known'
  BY <1>1, <1>2 DEF Fresh, Known
<1>4. Paired'
  BY DEF Fresh, Paired
<1>5. ASSUME NEW t \in Tasks, task'[t].pc = "sending", ~task'[t].shared
      PROVE  FreshTask(t)'
  <2>1. CASE task[t].pc = "sending" /\ task'[t].version = task[t].version
    BY <1>5, <2>1 DEF Fresh, FreshTask
  <2>2. CASE task'[t].version = version
    BY <1>1, <1>2, <1>5, <2>2 DEF Fresh, Known, FreshTask
  <2> QED
    BY <1>5, <2>1, <2>2
<1>6. \A i \in 1 .. Len(updates') : ~updates'[i].shared => FreshUpdate(i)'
  BY DEF Fresh, FreshUpdate
<1> QED
  BY <1>3, <1>4, <1>5, <1>6 DEF Fresh

\* A new task meets the others of its component.
LEMMA RefreshFresh ==
    ASSUME Types, Fresh, NEW c \in Components, NEW t \in Tasks, Refresh(c, t)
    PROVE  Fresh'
<1>1. /\ task[t].pc = "free" /\ task'[t].pc = "spawned" /\ task'[t].comp = c
      /\ task'[t].shared = (Others(t, c) # {})
      /\ \A u \in Tasks \ {t} :
            /\ task'[u].pc = task[u].pc
            /\ task[u].pc # "free" =>
                  /\ task'[u].comp = task[u].comp
                  /\ task'[u].version = task[u].version
                  /\ task'[u].shared = (task[u].shared \/ task[u].comp = c)
  BY RefreshFacts
<1>2. UNCHANGED <<shown, updates, version>>
  BY DEF Refresh, uiVars, daemonVars
<1>3. \A u \in Tasks : task'[u].pc = "sending" =>
         /\ u # t /\ task[u].pc = "sending" /\ task'[u].comp = task[u].comp
         /\ task'[u].version = task[u].version
         /\ ~task'[u].shared => ~task[u].shared
  BY <1>1
<1>4. Paired'
  <2> SUFFICES ASSUME NEW u \in Tasks, NEW v \in Tasks, u # v,
                      task'[u].pc # "free", task'[v].pc # "free",
                      task'[u].comp = task'[v].comp
               PROVE  task'[u].shared
    BY DEF Paired
  <2>1. CASE u = t
    <3>1. v \in Others(t, c)
      BY <1>1, <2>1 DEF Others
    <3> QED
      BY <1>1, <2>1, <3>1
  <2>2. CASE v = t
    BY ZenonT(60), <1>1, <2>2
  <2>3. CASE u # t /\ v # t
    <3>1. task[u].shared
      BY <1>1, <2>3 DEF Fresh, Paired
    <3> QED
      BY <1>1, <2>3, <3>1
  <2> QED
    BY <2>1, <2>2, <2>3
<1>5. Known' /\ \A u \in Tasks : task'[u].pc = "sending" /\ ~task'[u].shared => FreshTask(u)'
  BY <1>2, <1>3 DEF Fresh, Known, FreshTask
<1>6. \A i \in 1 .. Len(updates') : ~updates'[i].shared => FreshUpdate(i)'
  BY <1>2 DEF Fresh, FreshUpdate
<1> QED
  BY <1>4, <1>5, <1>6 DEF Fresh

\* A task's answer goes to the end of the channel.
LEMMA SendFresh ==
    ASSUME Types, Fresh, NEW t \in Tasks, SendUpdate(t)
    PROVE  Fresh'
<1> DEFINE n == Len(updates)
           last == updates'[n + 1]
<1>1. /\ task[t] \in TaskType /\ task[t].pc = "sending" /\ task'[t].pc = "free"
      /\ \A u \in Tasks \ {t} : task'[u] = task[u]
      /\ n \in Nat /\ Len(updates') = n + 1
      /\ \A i \in 1 .. n : updates'[i] = updates[i]
      /\ last.comp = task[t].comp /\ last.version = task[t].version
      /\ last.shared = task[t].shared
  BY SendFacts
<1>2. UNCHANGED <<shown, version>>
  BY DEF SendUpdate, daemonVars
<1>3. \A i \in 1 .. Len(updates') : i = n + 1 \/ i \in 1 .. n
  BY <1>1
<1>4. task[t].version <= version
  BY <1>1 DEF Fresh, Known
<1> HIDE DEF n
<1>5. Known'
  <2>1. \A i \in 1 .. Len(updates') : updates'[i].version <= version
    BY <1>1, <1>3, <1>4 DEF Fresh, Known, n
  <2>2. \A u \in Tasks : task'[u].pc = "sending" => task'[u].version <= version
    BY <1>1 DEF Fresh, Known
  <2> QED
    BY <1>2, <2>1, <2>2 DEF Fresh, Known
<1>6. Paired'
  BY <1>1 DEF Fresh, Paired
<1>7. ASSUME NEW u \in Tasks, task'[u].pc = "sending", ~task'[u].shared
      PROVE  FreshTask(u)'
  <2>1. u # t /\ task'[u] = task[u] /\ FreshTask(u)
    BY <1>1, <1>7 DEF Fresh
  <2>2. task[u].comp # task[t].comp
    BY <1>1, <1>7, <2>1 DEF Fresh, Paired
  <2>3. ASSUME NEW i \in 1 .. Len(updates'), updates'[i].comp = task[u].comp
        PROVE  updates'[i].version <= task[u].version
    <3>1. i \in 1 .. n
      BY <1>1, <1>3, <2>2, <2>3
    <3> QED
      BY <1>1, <2>1, <2>3, <3>1 DEF FreshTask, n
  <2> QED
    BY <1>2, <2>1, <2>3 DEF FreshTask
<1>8. ASSUME NEW i \in 1 .. Len(updates'), ~updates'[i].shared
      PROVE  FreshUpdate(i)'
  <2>1. CASE i \in 1 .. n
    <3>1. \A j \in 1 .. (i - 1) : j \in 1 .. n
      BY <1>1, <2>1
    <3>2. FreshUpdate(i)
      BY <1>1, <1>8, <2>1 DEF Fresh, n
    <3> QED
      BY <1>1, <1>2, <2>1, <3>1, <3>2 DEF FreshUpdate
  <2>2. CASE i = n + 1
    <3>1. FreshTask(t)
      BY <1>1, <1>8, <2>2 DEF Fresh
    <3>2. \A j \in 1 .. (i - 1) : j \in 1 .. n
      BY <1>1, <2>2
    <3> QED
      BY <1>1, <1>2, <2>2, <3>1, <3>2 DEF FreshTask, FreshUpdate, n
  <2> QED
    BY <1>3, <2>1, <2>2
<1> QED
  BY <1>5, <1>6, <1>7, <1>8 DEF Fresh

\* The UI thread shows the update at the head of the channel.
LEMMA HandleFresh ==
    ASSUME Types, Fresh, HandleUpdate
    PROVE  /\ Fresh'
           /\ \A c \in Components : shown'[c] < shown[c] => Head(updates).shared
<1> DEFINE n == Len(updates)
           h == updates[1]
<1>1. /\ Head(updates) = h /\ h \in UpdateType
      /\ shown' = [shown EXCEPT ![h.comp] = h.version]
      /\ n \in Nat \ {0} /\ Len(updates') = n - 1
      /\ \A i \in 1 .. (n - 1) : updates'[i] = updates[i + 1]
  BY HandleFacts
<1>2. UNCHANGED <<task, version>>
  BY DEF HandleUpdate, daemonVars
<1>3. /\ 1 \in 1 .. n
      /\ \A i \in 1 .. (n - 1) : i + 1 \in 1 .. n /\ (i + 1) - 1 = i /\ 1 \in 1 .. i
      /\ \A i \in 1 .. (n - 1) : \A j \in 1 .. (i - 1) :
            j \in 1 .. (n - 1) /\ j + 1 \in 1 .. i
  BY <1>1
<1> HIDE DEF n, h
<1>4. /\ h.comp \in Components /\ h.version \in Nat /\ h.shared \in BOOLEAN
      /\ shown'[h.comp] = h.version
      /\ \A c \in Components \ {h.comp} : shown'[c] = shown[c]
      /\ \A c \in Components : shown[c] \in Nat
  BY <1>1, GuiAssumption DEF Types, UpdateType
<1>5. Known'
  BY <1>1, <1>2, <1>3, <1>4 DEF Fresh, Known, n, h
<1>6. Paired'
  BY <1>2 DEF Fresh, Paired
<1>7. ASSUME NEW t \in Tasks, task'[t].pc = "sending", ~task'[t].shared
      PROVE  FreshTask(t)'
  <2>1. FreshTask(t) /\ task'[t] = task[t] /\ task[t].comp \in Components
    BY <1>2, <1>7, TaskFacts DEF Fresh, TaskType
  <2>2. shown'[task[t].comp] <= task[t].version
    BY <1>3, <1>4, <2>1 DEF FreshTask, n, h
  <2> QED
    BY <1>1, <1>3, <2>1, <2>2 DEF FreshTask, n
<1>8. ASSUME NEW i \in 1 .. (n - 1), ~updates'[i].shared
      PROVE  FreshUpdate(i)'
  <2> DEFINE u == updates[i + 1]
  <2>1. /\ FreshUpdate(i + 1) /\ updates'[i] = u /\ u.comp \in Components
        /\ i + 1 \in 1 .. n
    <3>1. i + 1 \in 1 .. n /\ updates'[i] = u
      BY <1>1, <1>3
    <3>2. u \in UpdateType
      BY <3>1 DEF Types, n
    <3>3. FreshUpdate(i + 1)
      BY <1>8, <3>1 DEF Fresh, n
    <3> QED
      BY <3>1, <3>2, <3>3 DEF UpdateType
  <2>2. h.comp = u.comp => h.version <= u.version
    BY <1>3, <2>1 DEF FreshUpdate, h
  <2>3. shown'[u.comp] <= u.version
    BY <1>4, <2>1, <2>2 DEF FreshUpdate
  <2>4. ASSUME NEW j \in 1 .. (i - 1), updates'[j].comp = u.comp
        PROVE  updates'[j].version <= u.version
    BY <1>1, <1>3, <2>1, <2>4 DEF FreshUpdate
  <2> QED
    BY <2>1, <2>3, <2>4 DEF FreshUpdate
<1>9. \A c \in Components : shown'[c] < shown[c] => h.shared
  <2>1. ~h.shared => FreshUpdate(1)
    BY <1>3 DEF Fresh, n, h
  <2> QED
    BY <1>4, <2>1 DEF FreshUpdate, h
<1> QED
  BY <1>1, <1>5, <1>6, <1>7, <1>8, <1>9 DEF Fresh

LEMMA StepFresh ==
    Types /\ Types' /\ Fresh /\ [Next]_vars
        => /\ Fresh'
           /\ \A c \in Components : shown'[c] < shown[c] => Head(updates).shared
<1> SUFFICES ASSUME Types, Types', Fresh, [Next]_vars
             PROVE  /\ Fresh'
                    /\ \A c \in Components : shown'[c] < shown[c] => Head(updates).shared
  OBVIOUS
<1> DEFINE Good == /\ Fresh'
                   /\ \A c \in Components : shown'[c] < shown[c] => Head(updates).shared
<1>1. version \in Nat /\ version' \in Nat /\ \A c \in Components : shown[c] \in Nat
  BY GuiAssumption DEF Types
<1>2. ASSUME shown' = shown, Fresh' PROVE Good
  BY <1>1, <1>2
<1>3. ASSUME UNCHANGED <<task, updates, shown>>, version <= version' PROVE Good
  BY <1>1, <1>2, <1>3, SameFresh
<1>4. ASSUME NEW c \in Components, NEW t \in Tasks, Refresh(c, t) PROVE Good
  BY <1>2, <1>4, RefreshFresh DEF Refresh, uiVars
<1>5. ASSUME NEW t \in Tasks, Ask(t) PROVE Good
  <2>1. /\ UNCHANGED <<updates, shown, version>>
        /\ task' = [task EXCEPT ![t].pc = "waiting"] /\ task[t].pc = "spawned"
    BY <1>5 DEF Ask, uiVars, daemonVars
  <2>2. \A u \in Tasks \ {t} : task'[u] = task[u]
    BY <2>1 DEF Types
  <2>3. /\ task'[t].pc = "waiting" /\ task'[t].comp = task[t].comp
        /\ task'[t].shared = task[t].shared
    BY <2>1, TaskFacts DEF Types, TaskType
  <2>4. Fresh'
    BY <1>1, <2>1, <2>2, <2>3, SameFresh
  <2> QED
    BY <1>2, <2>1, <2>4
<1>6. ASSUME NEW t \in Tasks, SendUpdate(t) PROVE Good
  BY <1>2, <1>6, SendFresh DEF SendUpdate
<1>7. CASE CallSucceeds \/ CallFails
  <2>1. PICK ok \in BOOLEAN :
           /\ worker = "call" /\ Answer(ok) /\ commands' = Tail(commands)
           /\ UNCHANGED <<link, daemonVars, faults, updates, shown, served>>
    BY <1>7 DEF CallSucceeds, CallFails
  <2>2. ASSUME NEW u \in Tasks, u = Head(commands)
        PROVE  /\ task[u].pc = "waiting"
               /\ task'[u].pc \in {"sending", "free"}
               /\ task'[u].pc = "sending" =>
                     /\ task'[u].version = version
                     /\ task'[u].comp = task[u].comp
                     /\ task'[u].shared = task[u].shared
    BY <2>1, <2>2, AnswerFacts
  <2>3. \A u \in Tasks : u # Head(commands) => task'[u] = task[u]
    BY <2>1, AnswerFacts
  <2>4. Fresh'
    BY <1>1, <2>1, <2>2, <2>3, SameFresh DEF daemonVars
  <2> QED
    BY <1>2, <2>1, <2>4
<1>8. CASE HandleUpdate
  BY <1>8, HandleFresh
<1>9. CASE Connect \/ Receive \/ Backoff \/ OnExit \/ ExitTimeout
           \/ LoseLink \/ ServiceStops \/ ServiceStarts
  <2>1. UNCHANGED <<task, updates, shown, version>>
    BY <1>9 DEF Connect, Receive, Backoff, OnExit, ExitTimeout, LoseLink,
                ServiceStops, ServiceStarts, uiVars, daemonVars
  <2> QED
    BY <1>1, <1>3, <2>1
<1>10. CASE DaemonUpdate
  BY <1>1, <1>3, <1>10 DEF DaemonUpdate, uiVars
<1>11. CASE UNCHANGED vars
  BY <1>1, <1>3, <1>11 DEF vars
<1> QED
  BY <1>4, <1>5, <1>6, <1>7, <1>8, <1>9, <1>10, <1>11 DEF Next

\* What is shown goes back to an older snapshot only when two requests for the
\* component were under way together.
THEOREM BackTheorem == Spec => BackOnlyByOverlap
<1>1. Types /\ Types' /\ Fresh /\ [Next]_vars
         => [\A c \in Components : shown'[c] < shown[c] => Head(updates).shared]_vars
  BY StepFresh
<1> QED
  BY InitTypes, StepTypes, InitFresh, StepFresh, <1>1, PTL DEF Spec, BackOnlyByOverlap
=============================================================================
