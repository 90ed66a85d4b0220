------------------------ MODULE PollScheduler_proofs ------------------------
(***************************************************************************)
(* Proofs about PollScheduler, for any number of concurrent calls, any     *)
(* rates and any of the daemon's jobs: its types, its invariants and that  *)
(* it implements PeriodicJobs.                                             *)
(***************************************************************************)
EXTENDS PollScheduler, SequenceTheorems, TLAPS

\* What a sync sends, and what a call can be doing.
UpdateType == [op : {"update"}, id : AllJobs, interval : IntervalValues]
CallType ==
    {Idle} \cup [pc : {"store"}, new : Settings, updates : Seq(UpdateType)]
           \cup [pc : {"send"}, updates : Seq(UpdateType)]

\* Only updates may name something that is no job.
SentType == {cmd \in CommandType : cmd.op \in {"add", "remove"} => cmd.id \in Jobs}

Types ==
    /\ TypeOK
    /\ commands \in Seq(SentType)
    /\ call \in [Callers -> CallType]

\* Batches and callbacks are of jobs that are registered and due, and the loop
\* is left between batches only.
LoopInv ==
    /\ batch \subseteq registered
    /\ \A j \in batch : wait[j] <= 0
    /\ running # NoJob => running \in registered \ batch
    /\ stopped => running = NoJob /\ batch = {}

\* A job that waits to be added has never run, and is added once.
AddInv ==
    \A i \in 1 .. Len(commands) : commands[i].op = "add" =>
        /\ commands[i].id \in Jobs \ registered
        /\ since[commands[i].id] = SinceCap
        /\ \A k \in 1 .. Len(commands) :
              commands[k].op = "add" /\ commands[k].id = commands[i].id => k = i

\* The wait that is left and the time since the last callback make up at least
\* the interval in force.
WaitInv ==
    \A j \in registered :
        interval[j] <= since[j] + (IF wait[j] > 0 THEN wait[j] ELSE 0)

RunInv == LoopInv /\ AddInv /\ WaitInv

\* While j is due, each callback begun before it is counted; one more of k can
\* still come in the present batch, and one more batch before that of j.
OvertakeInv ==
    \A j, k \in Jobs :
        /\ overtook[j][k] + (IF k \in batch THEN 1 ELSE 0)
              <= (IF j \in batch THEN 2 ELSE 1)
        /\ ~Due(j) \/ running = j => overtook[j][k] = 0

\* The commands that give job j an interval, and what they lead to once the
\* scheduler has processed them.
Sets(cmd, j) == cmd.id = j /\ cmd.op \in {"add", "update"}
LeadsToStored(j) ==
    /\ \A i \in 1 .. Len(commands) :
          /\ Sets(commands[i], j)
          /\ \A k \in (i + 1) .. Len(commands) : ~Sets(commands[k], j)
          => commands[i].interval = settings[j]
    /\ (\A i \in 1 .. Len(commands) : ~Sets(commands[i], j)) /\ j \in registered
          => interval[j] = settings[j]

Names(updates, j) == \E i \in 1 .. Len(updates) : updates[i].id = j

\* One sync at a time sends what tells its settings from the stored ones; a job
\* that it still has to name follows it, the others have the stored interval or
\* a command for it in the channel.
SyncInv ==
    ~overlap =>
        /\ \A c, d \in Callers : call[c].pc # "idle" /\ call[d].pc # "idle" => c = d
        /\ \A c \in Callers : call[c].pc = "store" =>
              /\ \A i \in 1 .. Len(call[c].updates) :
                    call[c].updates[i].interval = call[c].new[call[c].updates[i].id]
              /\ \A j \in AllJobs : ~Names(call[c].updates, j)
                    => call[c].new[j] = settings[j]
        /\ \A c \in Callers : call[c].pc = "send" =>
              \A i \in 1 .. Len(call[c].updates) :
                 call[c].updates[i].interval = settings[call[c].updates[i].id]
        /\ \A j \in Jobs \ direct :
              (\A c \in Callers : call[c].pc = "send" => ~Names(call[c].updates, j))
                 => LeadsToStored(j)

-----------------------------------------------------------------------------
(* Intervals and sequences of updates. *)

LEMMA SettingsType ==
    ASSUME NEW s \in Settings
    PROVE  /\ s \in [AllJobs -> IntervalValues]
           /\ \A j \in AllJobs : s[j] \in Nat /\ s[j] >= MinInterval
<1>1. PICK p \in Payloads : s = FromRates(p)
  BY DEF Settings
<1>2. /\ p.cpu \in Rates /\ p.gpu \in Rates /\ p.fans \in Rates /\ p.oc \in Rates
      /\ Rates \subseteq Nat /\ MinInterval \in Nat
  BY SchedulerAssumption
<1> DEFINE Clamped(r) == Greatest(r, MinInterval)
<1>3. \A r \in Rates : /\ Clamped(r) \in IntervalValues
                       /\ Clamped(r) \in Nat /\ Clamped(r) >= MinInterval
  BY <1>2 DEF Greatest, IntervalValues
<1>4. Least(p.cpu, p.gpu) \in Rates
  BY <1>2 DEF Least
<1>5. s = [hardware_monitor |-> Clamped(Least(p.cpu, p.gpu)),
           fan_control |-> Clamped(p.fans), gpu_overclock |-> Clamped(p.oc)]
  BY <1>1 DEF FromRates
<1>6. s = [j \in AllJobs |-> IF j = "hardware_monitor" THEN Clamped(Least(p.cpu, p.gpu))
                             ELSE IF j = "fan_control" THEN Clamped(p.fans)
                             ELSE Clamped(p.oc)]
  BY <1>5 DEF AllJobs
<1> HIDE DEF Clamped
<1> QED
  BY <1>2, <1>3, <1>4, <1>6

LEMMA IntervalType ==
    /\ IntervalValues \subseteq 0 .. (SinceCap - 1) /\ SinceCap \in Nat
    /\ IntervalValues \subseteq -MaxLate .. SinceCap
    /\ 0 \in -MaxLate .. SinceCap /\ 0 \in 0 .. SinceCap
<1>1. /\ MaxLate \in Nat /\ SinceCap \in Nat
      /\ \A i \in IntervalValues : i \in Nat /\ i < SinceCap
  BY SchedulerAssumption DEF IntervalValues
<1> QED
  BY <1>1

LEMMA JobIds == Jobs \subseteq AllJobs /\ NoJob \notin Jobs
BY SchedulerAssumption DEF AllJobs, NoJob

\* The updates of a sync are those that change a stored interval.
LEMMA UpdatesOf ==
    ASSUME NEW prev \in Settings, NEW new \in Settings,
           NEW updates, updates = IntervalUpdates(prev, new)
    PROVE  /\ updates \in Seq(UpdateType)
           /\ \A i \in 1 .. Len(updates) : updates[i].interval = new[updates[i].id]
           /\ \A j \in AllJobs : ~Names(updates, j) => new[j] = prev[j]
<1> DEFINE Change(id) == IF prev[id] = new[id] THEN <<>>
                         ELSE <<Command("update", id, new[id])>>
           Good(u) == /\ u \in Seq(UpdateType)
                      /\ \A i \in 1 .. Len(u) : u[i].interval = new[u[i].id]
<1>1. ASSUME NEW j \in AllJobs
      PROVE  Good(Change(j)) /\ (~Names(Change(j), j) => new[j] = prev[j])
  <2>1. CASE prev[j] = new[j]
    BY <2>1, EmptySeq
  <2>2. CASE prev[j] # new[j]
    <3> DEFINE cmd == [op |-> "update", id |-> j, interval |-> new[j]]
    <3>1. cmd \in UpdateType
      BY SettingsType DEF UpdateType
    <3>2. Change(j) = <<cmd>>
      BY <2>2 DEF Command
    <3>3. /\ <<cmd>> \in Seq(UpdateType) /\ Len(<<cmd>>) = 1
          /\ <<cmd>>[1].id = j /\ <<cmd>>[1].interval = new[j]
      BY <3>1
    <3> QED
      BY <3>2, <3>3 DEF Names
  <2> QED
    BY <2>1, <2>2
<1>2. ASSUME NEW u, NEW v, Good(u), Good(v)
      PROVE  /\ Good(u \o v)
             /\ \A j \in AllJobs : Names(u, j) \/ Names(v, j) => Names(u \o v, j)
  <2>1. /\ u \o v \in Seq(UpdateType)
        /\ Len(u \o v) = Len(u) + Len(v)
        /\ \A i \in 1 .. Len(u) + Len(v) :
              (u \o v)[i] = IF i <= Len(u) THEN u[i] ELSE v[i - Len(u)]
    BY <1>2, ConcatProperties
  <2>2. Len(u) \in Nat /\ Len(v) \in Nat
    BY <1>2, LenProperties
  <2>3. Good(u \o v)
    BY <1>2, <2>1, <2>2, SMTT(30)
  <2>4. ASSUME NEW j \in AllJobs, NEW i \in 1 .. Len(u), u[i].id = j
        PROVE  Names(u \o v, j)
    BY <2>1, <2>2, <2>4 DEF Names
  <2>5. ASSUME NEW j \in AllJobs, NEW i \in 1 .. Len(v), v[i].id = j
        PROVE  Names(u \o v, j)
    <3>1. Len(u) + i \in 1 .. Len(u \o v) /\ (u \o v)[Len(u) + i] = v[i]
      BY <2>1, <2>2
    <3> QED
      BY <3>1, <2>5 DEF Names
  <2> QED
    BY <2>3, <2>4, <2>5 DEF Names
<1> DEFINE two == Change("hardware_monitor") \o Change("fan_control")
           three == two \o Change("gpu_overclock")
<1> HIDE DEF Change, Good
<1>3. {"hardware_monitor", "fan_control", "gpu_overclock"} = AllJobs
  BY DEF AllJobs
<1>4. /\ Good(two)
      /\ \A j \in AllJobs : Names(Change("hardware_monitor"), j)
                           \/ Names(Change("fan_control"), j) => Names(two, j)
  BY <1>1, <1>2, <1>3
<1>5. /\ Good(three)
      /\ \A j \in AllJobs : Names(two, j) \/ Names(Change("gpu_overclock"), j)
                           => Names(three, j)
  BY <1>1, <1>2, <1>3, <1>4
<1>6. updates = three
  BY DEF IntervalUpdates, Change
<1> QED
  BY <1>1, <1>3, <1>4, <1>5, <1>6 DEF Good

LEMMA AppendFacts ==
    ASSUME NEW T, NEW s \in Seq(T), NEW e \in T
    PROVE  /\ Append(s, e) \in Seq(T)
           /\ Len(s) \in Nat /\ Len(Append(s, e)) = Len(s) + 1
           /\ \A i \in 1 .. Len(s) : Append(s, e)[i] = s[i]
           /\ Append(s, e)[Len(s) + 1] = e
OBVIOUS

LEMMA TailFacts ==
    ASSUME NEW T, NEW s \in Seq(T), s # <<>>
    PROVE  /\ Head(s) \in T /\ Head(s) = s[1]
           /\ Tail(s) \in Seq(T)
           /\ Len(s) \in Nat \ {0} /\ Len(Tail(s)) = Len(s) - 1
           /\ \A i \in 1 .. (Len(s) - 1) : Tail(s)[i] = s[i + 1]
BY HeadTailProperties, EmptySeq

-----------------------------------------------------------------------------
(* Types. *)

LEMMA SentTypes ==
    /\ UpdateType \subseteq SentType
    /\ \A id \in Jobs \cup Others, r \in Rates : Command("update", id, r) \in SentType
    /\ \A id \in Jobs, i \in IntervalValues : Command("add", id, i) \in SentType
    /\ \A id \in Jobs : Command("remove", id, 0) \in SentType
    /\ Command("shutdown", NoJob, 0) \in SentType
BY JobIds DEF UpdateType, SentType, CommandType, Command, IntervalValues

LEMMA SentAreCommands ==
    ASSUME NEW s \in Seq(SentType)
    PROVE  s \in Seq(CommandType)
BY SeqMonotonic DEF SentType

LEMMA InitCommands ==
    ASSUME Init
    PROVE  /\ commands \in Seq(SentType)
           /\ \A i \in 1 .. Len(commands) :
                 /\ commands[i].op = "add" /\ commands[i].id \in Jobs
                 /\ commands[i].interval = settings[commands[i].id]
                 /\ \A k \in 1 .. Len(commands) :
                       commands[k].id = commands[i].id => k = i
           /\ \A j \in Jobs : \E i \in 1 .. Len(commands) : commands[i].id = j
<1> DEFINE Add(id) == IF id \in Jobs THEN <<Command("add", id, settings[id])>> ELSE <<>>
           Good(u, ids) ==
               /\ u \in Seq(SentType)
               /\ \A i \in 1 .. Len(u) :
                     /\ u[i].op = "add" /\ u[i].id \in Jobs \cap ids
                     /\ u[i].interval = settings[u[i].id]
                     /\ \A k \in 1 .. Len(u) : u[k].id = u[i].id => k = i
               /\ \A j \in Jobs \cap ids : \E i \in 1 .. Len(u) : u[i].id = j
<1>1. ASSUME NEW id \in AllJobs
      PROVE  Good(Add(id), {id})
  <2>1. CASE id \notin Jobs
    BY <2>1, EmptySeq
  <2>2. CASE id \in Jobs
    <3> DEFINE cmd == [op |-> "add", id |-> id, interval |-> settings[id]]
    <3>1. settings[id] \in IntervalValues
      BY SettingsType DEF Init
    <3>2. cmd \in SentType
      BY <3>1, <2>2, SentTypes DEF Command
    <3>3. Add(id) = <<cmd>>
      BY <2>2 DEF Command
    <3>4. /\ <<cmd>> \in Seq(SentType) /\ Len(<<cmd>>) = 1
          /\ <<cmd>>[1] = cmd
      BY <3>2
    <3> QED
      BY <3>3, <3>4, <2>2
  <2> QED
    BY <2>1, <2>2
<1>2. ASSUME NEW A, NEW B, A \cap B = {}, NEW u, NEW v, Good(u, A), Good(v, B)
      PROVE  Good(u \o v, A \cup B)
  <2> DEFINE w == u \o v
  <2>1. /\ w \in Seq(SentType) /\ Len(w) = Len(u) + Len(v)
        /\ \A i \in 1 .. Len(u) + Len(v) :
              w[i] = IF i <= Len(u) THEN u[i] ELSE v[i - Len(u)]
    BY <1>2, ConcatProperties
  <2>2. Len(u) \in Nat /\ Len(v) \in Nat
    BY <1>2, LenProperties
  <2> HIDE DEF w
  <2>3. ASSUME NEW i \in 1 .. Len(w)
        PROVE  /\ w[i].op = "add" /\ w[i].id \in Jobs \cap (A \cup B)
               /\ w[i].interval = settings[w[i].id]
               /\ i <= Len(u) => w[i].id \in A
               /\ i > Len(u) => w[i].id \in B
    <3>1. CASE i <= Len(u)
      BY <3>1, <2>1, <2>2, <1>2
    <3>2. CASE i > Len(u)
      <4>1. i - Len(u) \in 1 .. Len(v) /\ w[i] = v[i - Len(u)]
        BY <3>2, <2>1, <2>2
      <4> QED
        BY <3>2, <4>1, <2>2, <1>2
    <3> QED
      BY <3>1, <3>2, <2>1, <2>2
  <2>4. ASSUME NEW i \in 1 .. Len(w), NEW k \in 1 .. Len(w), w[k].id = w[i].id
        PROVE  k = i
    <3>1. CASE i <= Len(u) /\ k <= Len(u)
      BY SMTT(60), <3>1, <2>4, <2>1, <2>2, <1>2
    <3>2. CASE i > Len(u) /\ k > Len(u)
      <4>1. /\ i - Len(u) \in 1 .. Len(v) /\ w[i] = v[i - Len(u)]
            /\ k - Len(u) \in 1 .. Len(v) /\ w[k] = v[k - Len(u)]
        BY <3>2, <2>1, <2>2
      <4>2. k - Len(u) = i - Len(u)
        BY SMTT(60), <4>1, <2>4, <1>2
      <4> QED
        BY <4>2, <2>1, <2>2
    <3>3. CASE (i <= Len(u)) # (k <= Len(u))
      BY <3>3, <2>3, <2>4, <1>2, <2>1, <2>2
    <3> QED
      BY <3>1, <3>2, <3>3, <2>1, <2>2
  <2>5. ASSUME NEW j \in Jobs \cap (A \cup B)
        PROVE  \E i \in 1 .. Len(w) : w[i].id = j
    <3>1. CASE j \in A
      BY <3>1, <2>1, <2>2, <1>2
    <3>2. CASE j \in B
      <4>1. PICK i \in 1 .. Len(v) : v[i].id = j
        BY <3>2, <1>2
      <4>2. Len(u) + i \in 1 .. Len(w) /\ w[Len(u) + i] = v[i]
        BY <2>1, <2>2
      <4> QED
        BY <4>1, <4>2
    <3> QED
      BY <3>1, <3>2
  <2> QED
    BY <2>1, <2>3, <2>4, <2>5 DEF w
<1> DEFINE two == Add("hardware_monitor") \o Add("fan_control")
           three == two \o Add("gpu_overclock")
<1>3. commands = three
  BY DEF Init
<1> HIDE DEF Add, Good
<1>4. Good(two, {"hardware_monitor"} \cup {"fan_control"})
  BY <1>1, <1>2 DEF AllJobs
<1>5. Good(three, ({"hardware_monitor"} \cup {"fan_control"}) \cup {"gpu_overclock"})
  <2>1. ({"hardware_monitor"} \cup {"fan_control"}) \cap {"gpu_overclock"} = {}
    OBVIOUS
  <2> HIDE DEF two
  <2> QED
    BY <1>1, <1>2, <1>4, <2>1 DEF AllJobs
<1>6. Jobs \subseteq ({"hardware_monitor"} \cup {"fan_control"}) \cup {"gpu_overclock"}
  BY SchedulerAssumption
<1> HIDE DEF three
<1> QED
  BY <1>3, <1>5, <1>6 DEF Good

LEMMA TypeInit == Init => Types
<1> SUFFICES ASSUME Init PROVE Types
  OBVIOUS
<1>1. commands \in Seq(SentType)
  BY InitCommands
<1>2. 0 \in IntervalValues /\ 0 \in -MaxLate .. SinceCap /\ SinceCap \in 0 .. SinceCap
      /\ 0 \in 0 .. MaxCalls
  BY SchedulerAssumption DEF IntervalValues
<1>3. settings \in Settings /\ call \in [Callers -> CallType]
  BY DEF Init, CallType
<1>4. overtook \in [Jobs -> [Jobs -> 0 .. 3]]
  BY DEF Init, NoneOvertook
<1>5. /\ interval \in [Jobs -> IntervalValues] /\ wait \in [Jobs -> -MaxLate .. SinceCap]
      /\ since \in [Jobs -> 0 .. SinceCap]
  BY <1>2 DEF Init
<1> QED
  BY <1>1, <1>2, <1>3, <1>4, <1>5, SentAreCommands DEF Init, Types, TypeOK

\* A call keeps the types.
LEMMA TypeCall ==
    ASSUME Types, NEW c \in Callers,
           Sync(c) \/ UpdatePollingInterval(c) \/ RemoveOrShutdown(c)
    PROVE  Types'
<1> USE DEF Types
<1>1. CASE SyncDiff(c)
  <2>1. PICK p \in Payloads : call' = [call EXCEPT ![c] =
              [pc |-> "store", new |-> FromRates(p),
               updates |-> IntervalUpdates(settings, FromRates(p))]]
    BY <1>1 DEF SyncDiff
  <2>2. FromRates(p) \in Settings
    BY DEF Settings
  <2>3. IntervalUpdates(settings, FromRates(p)) \in Seq(UpdateType)
    BY <2>2, UpdatesOf DEF TypeOK
  <2>4. call' \in [Callers -> CallType]
    BY <2>1, <2>2, <2>3 DEF CallType
  <2>5. calls' \in 0 .. MaxCalls /\ overlap' \in BOOLEAN
    BY <1>1, SchedulerAssumption DEF SyncDiff, TypeOK
  <2> QED
    BY <1>1, <2>4, <2>5 DEF SyncDiff, TypeOK, schedVars
<1>2. CASE SyncStore(c)
  <2>1. call[c] \in [pc : {"store"}, new : Settings, updates : Seq(UpdateType)]
    BY <1>2 DEF SyncStore, CallType, Idle
  <2>2. settings' \in Settings /\ call' \in [Callers -> CallType]
    BY <1>2, <2>1 DEF SyncStore, CallType
  <2> QED
    BY <1>2, <2>2 DEF SyncStore, TypeOK, schedVars, history
<1>3. CASE SyncSend(c)
  <2>1. call[c] \in [pc : {"send"}, updates : Seq(UpdateType)]
    BY <1>3 DEF SyncSend, CallType, Idle
  <2>2. commands' \in Seq(SentType) /\ call' \in [Callers -> CallType]
    <3>1. CASE call[c].updates = <<>>
      BY <1>3, <3>1 DEF SyncSend, CallType, TypeOK
    <3>2. CASE call[c].updates # <<>>
      <4>1. Head(call[c].updates) \in UpdateType /\ Tail(call[c].updates) \in Seq(UpdateType)
        BY <2>1, <3>2, TailFacts
      <4>2. commands' \in Seq(SentType)
        <5>1. Head(call[c].updates) \in SentType
          BY <4>1, SentTypes
        <5>2. commands' = Append(commands, Head(call[c].updates))
          BY <1>3, <3>2 DEF SyncSend, Send
        <5> QED
          BY <5>1, <5>2, AppendFacts
      <4>3. [call[c] EXCEPT !.updates = Tail(call[c].updates)] \in CallType
        BY <2>1, <4>1 DEF CallType
      <4>4. call' = [call EXCEPT ![c] = [call[c] EXCEPT !.updates = Tail(call[c].updates)]]
        BY <1>3, <3>2 DEF SyncSend
      <4> QED
        BY <4>2, <4>3, <4>4
    <3> QED
      BY <3>1, <3>2
  <2> QED
    BY <1>3, <2>2, SentAreCommands DEF SyncSend, TypeOK, schedVars, history
<1>4. CASE UpdatePollingInterval(c)
  <2>1. PICK cmd \in SentType : commands' = Append(commands, cmd)
    BY <1>4, SentTypes DEF UpdatePollingInterval, Send
  <2>2. commands' \in Seq(SentType)
    BY <2>1, AppendFacts
  <2>3. calls' \in 0 .. MaxCalls /\ direct' \subseteq Jobs
    BY <1>4, SchedulerAssumption DEF UpdatePollingInterval, TypeOK
  <2> QED
    BY <1>4, <2>2, <2>3, SentAreCommands DEF UpdatePollingInterval, TypeOK, schedVars
<1>5. CASE RemoveOrShutdown(c)
  <2>1. PICK cmd \in SentType : commands' = Append(commands, cmd)
    BY <1>5, SentTypes DEF RemoveOrShutdown, Send
  <2>2. commands' \in Seq(SentType)
    BY <2>1, AppendFacts
  <2>3. calls' \in 0 .. MaxCalls
    BY <1>5, SchedulerAssumption DEF RemoveOrShutdown, TypeOK
  <2> QED
    BY <1>5, <2>2, <2>3, SentAreCommands DEF RemoveOrShutdown, TypeOK, schedVars, history
<1> QED
  BY <1>1, <1>2, <1>3, <1>4, <1>5 DEF Sync

LEMMA TypeReceive == ASSUME Types, ReceiveCommand PROVE Types'
<1> DEFINE cmd == Head(commands)
<1>1. cmd \in SentType /\ commands' \in Seq(SentType)
  BY TailFacts DEF Types, ReceiveCommand
<1>2. overtook' \in [Jobs -> [Jobs -> 0 .. 3]]
  BY DEF Types, TypeOK, ReceiveCommand, NoneOvertook
<1>3. /\ cmd.interval \in IntervalValues /\ cmd.interval \in -MaxLate .. SinceCap
      /\ 0 \in -MaxLate .. SinceCap
  BY <1>1, IntervalType DEF SentType, CommandType
<1>4. cmd.op \in {"add", "remove"} => cmd.id \in Jobs
  BY <1>1 DEF SentType
<1>5. \/ cmd.op = "add" /\ AddJob(cmd)
      \/ cmd.op = "update" /\ UpdateJobInterval(cmd)
      \/ cmd.op = "remove" /\ RemoveJob(cmd)
      \/ cmd.op = "shutdown" /\ Shutdown
  BY DEF ReceiveCommand
<1> HIDE DEF cmd
<1>6. /\ registered' \subseteq Jobs /\ interval' \in [Jobs -> IntervalValues]
      /\ wait' \in [Jobs -> -MaxLate .. SinceCap]
      /\ stopped' \in BOOLEAN /\ removed' \subseteq Jobs
  BY ZenonT(60), <1>3, <1>4, <1>5
     DEF AddJob, UpdateJobInterval, RemoveJob, Shutdown, Types, TypeOK
<1> QED
  BY <1>1, <1>2, <1>6, SentAreCommands DEF Types, TypeOK, ReceiveCommand

LEMMA TypeRun ==
    ASSUME Types, NEW j \in Jobs, StartJob(j) \/ FinishJob(j)
    PROVE  Types'
<1>1. CASE StartJob(j)
  <2>1. overtook' \in [Jobs -> [Jobs -> 0 .. 3]]
    <3>1. NoneOvertook \in [Jobs -> 0 .. 3]
      BY DEF NoneOvertook
    <3>2. ASSUME NEW k \in Jobs
          PROVE  [overtook[k] EXCEPT ![j] = Least(@ + 1, 3)] \in [Jobs -> 0 .. 3]
      <4>1. overtook[k] \in [Jobs -> 0 .. 3] /\ overtook[k][j] \in 0 .. 3
        BY DEF Types, TypeOK
      <4>2. Least(overtook[k][j] + 1, 3) \in 0 .. 3
        BY <4>1 DEF Least
      <4> QED
        BY <4>1, <4>2
    <3> QED
      BY <1>1, <3>1, <3>2 DEF StartJob
  <2> QED
    BY <1>1, <2>1 DEF Types, TypeOK, StartJob
<1>2. CASE FinishJob(j)
  <2>1. interval[j] \in -MaxLate .. SinceCap /\ 0 \in 0 .. SinceCap
    BY IntervalType DEF Types, TypeOK
  <2> QED
    BY <1>2, <2>1 DEF Types, TypeOK, FinishJob
<1> QED
  BY <1>1, <1>2

LEMMA TypeTick == ASSUME Types, Tick PROVE Types'
<1>1. wait' \in [Jobs -> -MaxLate .. SinceCap] /\ since' \in [Jobs -> 0 .. SinceCap]
  BY SMTT(60), SchedulerAssumption DEF Types, TypeOK, Tick, Greatest, Least
<1> QED
  BY <1>1 DEF Types, TypeOK, Tick

LEMMA TypeStep == Types /\ [Next]_vars => Types'
<1> SUFFICES ASSUME Types, [Next]_vars PROVE Types'
  OBVIOUS
<1>1. CASE \E c \in Callers : Sync(c) \/ UpdatePollingInterval(c) \/ RemoveOrShutdown(c)
  BY <1>1, TypeCall
<1>2. CASE ReceiveCommand
  BY <1>2, TypeReceive
<1>3. CASE ExecuteDueJobs
  BY <1>3 DEF ExecuteDueJobs, Types, TypeOK, history
<1>4. CASE \E j \in Jobs : StartJob(j) \/ FinishJob(j)
  BY <1>4, TypeRun
<1>5. CASE Tick
  BY <1>5, TypeTick
<1>6. CASE UNCHANGED vars
  BY <1>6 DEF vars, Types, TypeOK
<1> QED
  BY <1>1, <1>2, <1>3, <1>4, <1>5, <1>6 DEF Next

\* Every variable of the scheduler and of the calls keeps its type: the commands
\* that daemon_settings.rs and UpdatePollingInterval send, their intervals, the
\* heap and the batch.
THEOREM TypeCorrect == Spec => []TypeOK
<1>1. Types => TypeOK
  BY DEF Types
<1> QED
  BY TypeInit, TypeStep, <1>1, PTL DEF Spec

-----------------------------------------------------------------------------
(* The scheduler implements PeriodicJobs. *)

LEMMA JobTypes ==
    ASSUME Types, NEW j \in Jobs
    PROVE  /\ interval[j] \in Nat /\ interval[j] \in 0 .. (SinceCap - 1)
           /\ since[j] \in Nat /\ wait[j] \in Int
<1>1. MaxLate \in Nat /\ SinceCap \in Nat
  BY SchedulerAssumption
<1>2. /\ interval[j] \in IntervalValues /\ wait[j] \in -MaxLate .. SinceCap
      /\ since[j] \in 0 .. SinceCap
  BY DEF Types, TypeOK
<1>3. interval[j] \in 0 .. (SinceCap - 1)
  BY <1>2, IntervalType
<1> QED
  BY <1>1, <1>2, <1>3

LEMMA RunInit == Init => RunInv
<1> SUFFICES ASSUME Init PROVE RunInv
  OBVIOUS
<1>1. LoopInv /\ WaitInv
  BY DEF Init, LoopInv, WaitInv
<1>2. AddInv
  BY ZenonT(60), InitCommands DEF AddInv, Init
<1> QED
  BY <1>1, <1>2 DEF RunInv

\* A command sent by a call is no add.
LEMMA SendKeepsAdd ==
    ASSUME Types, AddInv, NEW cmd \in SentType, cmd.op # "add",
           commands' = Append(commands, cmd), UNCHANGED <<registered, since>>
    PROVE  AddInv'
<1>1. /\ Len(commands) \in Nat /\ Len(commands') = Len(commands) + 1
      /\ \A i \in 1 .. Len(commands) : commands'[i] = commands[i]
      /\ commands'[Len(commands) + 1] = cmd
  BY AppendFacts DEF Types
<1> QED
  BY <1>1 DEF AddInv

LEMMA RunCall ==
    ASSUME Types, RunInv, NEW c \in Callers,
           Sync(c) \/ UpdatePollingInterval(c) \/ RemoveOrShutdown(c)
    PROVE  RunInv' /\ UNCHANGED <<registered, interval, running, since, stopped>>
<1>1. UNCHANGED schedVars /\ UNCHANGED since
  BY DEF Sync, SyncDiff, SyncStore, SyncSend, UpdatePollingInterval, RemoveOrShutdown,
         history
<1>2. LoopInv' /\ WaitInv'
  BY <1>1 DEF RunInv, LoopInv, WaitInv, schedVars
<1>3. UNCHANGED commands \/ \E cmd \in SentType :
          cmd.op # "add" /\ commands' = Append(commands, cmd)
  <2>1. CASE SyncSend(c) /\ call[c].updates # <<>>
    <3>1. call[c] \in [pc : {"send"}, updates : Seq(UpdateType)]
      BY <2>1 DEF SyncSend, Types, CallType, Idle
    <3>2. Head(call[c].updates) \in UpdateType
      BY <3>1, <2>1, TailFacts
    <3> QED
      BY <3>2, <2>1, SentTypes DEF SyncSend, Send, UpdateType
  <2>2. CASE UpdatePollingInterval(c)
    BY <2>2, SentTypes DEF UpdatePollingInterval, Send, Command
  <2>3. CASE RemoveOrShutdown(c)
    BY <2>3, SentTypes DEF RemoveOrShutdown, Send, Command
  <2> QED
    BY <2>1, <2>2, <2>3 DEF Sync, SyncDiff, SyncStore, SyncSend
<1>4. AddInv'
  <2>1. CASE UNCHANGED commands
    BY <2>1, <1>1 DEF RunInv, AddInv, schedVars
  <2> QED
    BY <2>1, <1>1, <1>3, SendKeepsAdd DEF RunInv, schedVars
<1> QED
  BY <1>1, <1>2, <1>4 DEF RunInv, schedVars

LEMMA RunReceive ==
    ASSUME Types, RunInv, ReceiveCommand
    PROVE  RunInv' /\ [Periodic!Next]_(Periodic!vars)
<1> DEFINE cmd == Head(commands)
<1>1. /\ cmd \in SentType /\ cmd = commands[1]
      /\ Len(commands) \in Nat \ {0} /\ Len(commands') = Len(commands) - 1
      /\ \A i \in 1 .. (Len(commands) - 1) : commands'[i] = commands[i + 1]
  BY TailFacts DEF Types, ReceiveCommand
<1>2. /\ batch = {} /\ running = NoJob /\ ~stopped
      /\ UNCHANGED <<batch, running, since>>
  BY DEF ReceiveCommand, Sleeping
<1>3. \/ cmd.op = "add" /\ AddJob(cmd)
      \/ cmd.op = "update" /\ UpdateJobInterval(cmd)
      \/ cmd.op = "remove" /\ RemoveJob(cmd)
      \/ cmd.op = "shutdown" /\ Shutdown
  BY DEF ReceiveCommand
<1>4. cmd.interval \in 0 .. (SinceCap - 1)
  BY <1>1, IntervalType DEF SentType, CommandType
<1>5. cmd.op = "add" => cmd.id \in Jobs \ registered /\ since[cmd.id] = SinceCap
  BY <1>1 DEF RunInv, AddInv
<1>6. \A i \in 2 .. Len(commands) : commands[i].op = "add" =>
          /\ commands[i].id \in Jobs \ registered
          /\ since[commands[i].id] = SinceCap
          /\ cmd.op = "add" => commands[i].id # cmd.id
          /\ \A k \in 2 .. Len(commands) :
                commands[k].op = "add" /\ commands[k].id = commands[i].id => k = i
  BY <1>1 DEF RunInv, AddInv
<1> HIDE DEF cmd
<1>7. /\ registered \subseteq Jobs /\ interval \in [Jobs -> IntervalValues]
      /\ wait \in [Jobs -> -MaxLate .. SinceCap] /\ since \in [Jobs -> 0 .. SinceCap]
      /\ SinceCap \in Nat /\ MaxLate \in Nat
  BY SchedulerAssumption DEF Types, TypeOK
<1>8. LoopInv'
  BY <1>2 DEF LoopInv
<1>9. WaitInv'
  <2> SUFFICES ASSUME NEW j \in registered'
               PROVE  interval'[j] <= since[j] + (IF wait'[j] > 0 THEN wait'[j] ELSE 0)
    BY <1>2 DEF WaitInv
  <2>1. CASE j = cmd.id /\ cmd.op = "add"
    <3>1. j \in Jobs /\ interval'[j] = cmd.interval /\ since[j] = SinceCap /\ wait'[j] = 0
      BY <2>1, <1>3, <1>5, <1>7 DEF AddJob
    <3> QED
      BY <3>1, <1>4, <1>7
  <2>2. CASE j = cmd.id /\ cmd.op = "update"
    <3>1. /\ j \in Jobs /\ interval'[j] = cmd.interval /\ wait'[j] = cmd.interval
          /\ since[j] \in 0 .. SinceCap
      BY <2>2, <1>3, <1>7 DEF UpdateJobInterval
    <3> QED
      BY <3>1, <1>4, <1>7
  <2>3. CASE ~(j = cmd.id /\ cmd.op \in {"add", "update"})
    <3>1. j \in registered /\ interval'[j] = interval[j] /\ wait'[j] = wait[j]
      BY <2>3, <1>3, <1>7 DEF AddJob, UpdateJobInterval, RemoveJob, Shutdown
    <3> QED
      BY <3>1 DEF RunInv, WaitInv
  <2> QED
    BY <2>1, <2>2, <2>3
<1>10. AddInv'
  <2> SUFFICES ASSUME NEW i \in 1 .. Len(commands'), commands'[i].op = "add"
               PROVE  /\ commands'[i].id \in Jobs \ registered'
                      /\ since[commands'[i].id] = SinceCap
                      /\ \A k \in 1 .. Len(commands') :
                            commands'[k].op = "add" /\ commands'[k].id = commands'[i].id
                              => k = i
    BY <1>2 DEF AddInv
  <2>1. \A k \in 1 .. Len(commands') :
            k + 1 \in 2 .. Len(commands) /\ commands'[k] = commands[k + 1]
    BY <1>1
  <2>2. /\ commands'[i].id \in Jobs \ registered
        /\ since[commands'[i].id] = SinceCap
        /\ cmd.op = "add" => commands'[i].id # cmd.id
    BY <2>1, <1>6
  <2>3. \A k \in 1 .. Len(commands') :
            commands'[k].op = "add" /\ commands'[k].id = commands'[i].id => k + 1 = i + 1
    BY SMTT(60), <2>1, <1>6
  <2>4. registered' \subseteq registered \cup (IF cmd.op = "add" THEN {cmd.id} ELSE {})
    BY <1>3 DEF AddJob, UpdateJobInterval, RemoveJob, Shutdown
  <2>5. \A k \in 1 .. Len(commands') : k + 1 = i + 1 => k = i
    BY <1>1
  <2> QED
    BY <2>2, <2>3, <2>4, <2>5
<1>11. [Periodic!Next]_(Periodic!vars)
  <2>1. CASE cmd.op = "add"
    <3>1. Periodic!Schedule(cmd.id, cmd.interval)
      BY <2>1, <1>2, <1>3 DEF AddJob, Periodic!Schedule, Periodic!Between
    <3> QED
      BY <3>1, <2>1, <1>4, <1>5 DEF Periodic!Next
  <2>2. CASE cmd.op = "update" /\ cmd.id \in registered
    <3>1. Periodic!Schedule(cmd.id, cmd.interval)
      BY <2>2, <1>2, <1>3 DEF UpdateJobInterval, Periodic!Schedule, Periodic!Between
    <3> QED
      BY <3>1, <2>2, <1>4, <1>7 DEF Periodic!Next
  <2>3. CASE cmd.op = "update" /\ cmd.id \notin registered
    BY <2>3, <1>2, <1>3 DEF UpdateJobInterval, Periodic!vars
  <2>4. CASE cmd.op = "remove" /\ cmd.id \in registered
    <3>1. Periodic!Remove(cmd.id)
      BY <2>4, <1>2, <1>3 DEF RemoveJob, Periodic!Remove, Periodic!Between
    <3> QED
      BY <3>1, <2>4, <1>7 DEF Periodic!Next
  <2>5. CASE cmd.op = "remove" /\ cmd.id \notin registered
    BY <2>5, <1>2, <1>3 DEF RemoveJob, Periodic!vars
  <2>6. CASE cmd.op = "shutdown"
    <3>1. Periodic!Stop
      BY <2>6, <1>2, <1>3 DEF Shutdown, Periodic!Stop, Periodic!Between
    <3> QED
      BY <3>1 DEF Periodic!Next
  <2> QED
    BY <1>3, <2>1, <2>2, <2>3, <2>4, <2>5, <2>6
<1> QED
  BY <1>8, <1>9, <1>10, <1>11 DEF RunInv

LEMMA RunDue ==
    ASSUME Types, RunInv, ExecuteDueJobs
    PROVE  RunInv' /\ UNCHANGED <<registered, interval, running, since, stopped>>
<1>1. LoopInv'
  BY DEF ExecuteDueJobs, Sleeping, Due, RunInv, LoopInv
<1>2. AddInv' /\ WaitInv'
  BY DEF ExecuteDueJobs, history, RunInv, AddInv, WaitInv
<1> QED
  BY <1>1, <1>2 DEF RunInv, ExecuteDueJobs, history

LEMMA RunStart ==
    ASSUME Types, RunInv, NEW j \in Jobs, StartJob(j)
    PROVE  RunInv' /\ [Periodic!Next]_(Periodic!vars)
<1>1. /\ j \in registered /\ wait[j] <= 0 /\ ~stopped /\ running = NoJob
      /\ since[j] \in Nat /\ interval[j] \in Nat /\ wait[j] \in Int
  BY JobTypes DEF StartJob, RunInv, LoopInv
<1>2. since[j] >= interval[j]
  BY <1>1 DEF RunInv, WaitInv
<1>3. Periodic!Start(j)
  BY <1>1, <1>2 DEF StartJob, Periodic!Start, Periodic!Between
<1>4. LoopInv'
  BY <1>1 DEF StartJob, RunInv, LoopInv
<1>5. AddInv' /\ WaitInv'
  BY DEF StartJob, RunInv, AddInv, WaitInv
<1> QED
  BY <1>3, <1>4, <1>5 DEF RunInv, Periodic!Next

LEMMA RunFinish ==
    ASSUME Types, RunInv, NEW j \in Jobs, FinishJob(j)
    PROVE  RunInv' /\ [Periodic!Next]_(Periodic!vars)
<1>1. Periodic!Finish(j)
  BY DEF FinishJob, Periodic!Finish
<1>2. j \in registered \ batch /\ j # NoJob /\ ~stopped
  BY JobIds DEF FinishJob, RunInv, LoopInv
<1>3. LoopInv'
  BY <1>2 DEF FinishJob, RunInv, LoopInv, Types, TypeOK
<1>4. AddInv'
  <2>1. \A i \in 1 .. Len(commands) : commands[i].op = "add" => commands[i].id # j
    BY <1>2 DEF RunInv, AddInv
  <2> QED
    BY <2>1 DEF FinishJob, RunInv, AddInv, Types, TypeOK
<1>5. WaitInv'
  <2>1. /\ wait' = [wait EXCEPT ![j] = interval[j]] /\ since' = [since EXCEPT ![j] = 0]
        /\ UNCHANGED <<interval, registered>>
        /\ wait'[j] = interval[j] /\ since'[j] = 0 /\ interval[j] \in Nat
    BY JobTypes DEF FinishJob, Types, TypeOK
  <2>2. \A k \in registered \ {j} : wait'[k] = wait[k] /\ since'[k] = since[k]
    BY <2>1 DEF Types, TypeOK
  <2> QED
    BY <2>1, <2>2 DEF RunInv, WaitInv
<1> QED
  BY <1>1, <1>3, <1>4, <1>5 DEF RunInv, Periodic!Next

LEMMA RunTick ==
    ASSUME Types, RunInv, Tick
    PROVE  RunInv' /\ [Periodic!Next]_(Periodic!vars)
<1>1. /\ SinceCap \in Nat /\ MaxLate \in Nat /\ registered \subseteq Jobs
      /\ wait \in [Jobs -> -MaxLate .. SinceCap] /\ since \in [Jobs -> 0 .. SinceCap]
      /\ \A j \in Jobs : interval[j] \in 0 .. (SinceCap - 1)
  BY IntervalType, SchedulerAssumption DEF Types, TypeOK
<1>2. ASSUME NEW j \in Jobs
      PROVE  /\ wait'[j] = Greatest(wait[j] - 1, -MaxLate)
             /\ since'[j] = IF since[j] < SinceCap THEN since[j] + 1 ELSE since[j]
  BY <1>1 DEF Tick, Least
<1>3. Periodic!Tick
  <2>1. since' = [j \in Jobs |-> IF since[j] < SinceCap THEN since[j] + 1 ELSE since[j]]
    BY <1>2 DEF Tick
  <2> QED
    BY <2>1 DEF Tick, Periodic!Tick
<1>4. LoopInv'
  <2>1. \A j \in batch : wait'[j] <= 0
    BY <1>1, <1>2 DEF RunInv, LoopInv, Greatest
  <2> QED
    BY <2>1 DEF Tick, RunInv, LoopInv
<1>5. AddInv'
  BY SMTT(60), <1>1, <1>2 DEF Tick, RunInv, AddInv
<1>6. WaitInv'
  <2> SUFFICES ASSUME NEW j \in registered
               PROVE  interval[j] <= since'[j] + (IF wait'[j] > 0 THEN wait'[j] ELSE 0)
    BY DEF WaitInv, Tick
  <2>1. interval[j] <= since[j] + (IF wait[j] > 0 THEN wait[j] ELSE 0)
    BY DEF RunInv, WaitInv
  <2>2. /\ wait[j] \in -MaxLate .. SinceCap /\ since[j] \in 0 .. SinceCap
        /\ interval[j] \in 0 .. (SinceCap - 1)
    BY <1>1
  <2> QED
    BY <2>1, <2>2, <1>1, <1>2 DEF Greatest
<1> QED
  BY <1>3, <1>4, <1>5, <1>6 DEF RunInv, Periodic!Next

LEMMA RunStep ==
    Types /\ RunInv /\ [Next]_vars => RunInv' /\ [Periodic!Next]_(Periodic!vars)
<1> SUFFICES ASSUME Types, RunInv, [Next]_vars
             PROVE  RunInv' /\ [Periodic!Next]_(Periodic!vars)
  OBVIOUS
<1>1. CASE \E c \in Callers : Sync(c) \/ UpdatePollingInterval(c) \/ RemoveOrShutdown(c)
  BY <1>1, RunCall DEF Periodic!vars
<1>2. CASE ReceiveCommand
  BY <1>2, RunReceive
<1>3. CASE ExecuteDueJobs
  BY <1>3, RunDue DEF Periodic!vars
<1>4. CASE \E j \in Jobs : StartJob(j) \/ FinishJob(j)
  BY <1>4, RunStart, RunFinish
<1>5. CASE Tick
  BY <1>5, RunTick
<1>6. CASE UNCHANGED vars
  BY <1>6 DEF vars, RunInv, LoopInv, AddInv, WaitInv, Periodic!vars
<1> QED
  BY <1>1, <1>2, <1>3, <1>4, <1>5, <1>6 DEF Next

\* The scheduler's loop, with its heap, its batches and its command channel,
\* implements PeriodicJobs: one callback at a time, none of a job that was removed
\* or after the shutdown, and none before the interval in force has passed since
\* the job's previous callback ended.
THEOREM Refinement == Spec => KeepsPromise
<1>1. Init => Periodic!Init
  BY DEF Init, Periodic!Init
<1> QED
  BY <1>1, TypeInit, TypeStep, RunInit, RunStep, PTL DEF Spec, KeepsPromise, Periodic!Spec

-----------------------------------------------------------------------------
(* No job is starved. *)

LEMMA CountType ==
    ASSUME Types, NEW j \in Jobs, NEW k \in Jobs
    PROVE  overtook[j][k] \in Nat
<1>1. overtook[j] \in [Jobs -> 0 .. 3]
  BY DEF Types, TypeOK
<1>2. overtook[j][k] \in 0 .. 3
  BY <1>1
<1> QED
  BY <1>2

LEMMA OvertakeInit == Init => OvertakeInv
<1> SUFFICES ASSUME Init PROVE OvertakeInv
  OBVIOUS
<1>1. \A j, k \in Jobs : overtook[j][k] = 0
  BY DEF Init, NoneOvertook
<1> QED
  BY <1>1 DEF Init, OvertakeInv

LEMMA OvertakeReceive ==
    ASSUME Types, OvertakeInv, ReceiveCommand
    PROVE  OvertakeInv'
<1> DEFINE cmd == Head(commands)
<1>1. batch = {} /\ batch' = {}
  BY DEF ReceiveCommand, Sleeping
<1>2. running' = NoJob /\ NoJob \notin Jobs
  BY JobIds DEF ReceiveCommand, Sleeping
<1>3. \A j \in Jobs : overtook'[j] = IF j = cmd.id THEN NoneOvertook ELSE overtook[j]
  BY DEF ReceiveCommand
<1>4. \A j \in Jobs : j # cmd.id => (Due(j)' <=> Due(j))
  <2>1. \/ AddJob(cmd) \/ UpdateJobInterval(cmd) \/ RemoveJob(cmd) \/ Shutdown
    BY DEF ReceiveCommand
  <2> HIDE DEF cmd
  <2> QED
    BY <2>1 DEF AddJob, UpdateJobInterval, RemoveJob, Shutdown, Due, Types, TypeOK
<1> HIDE DEF cmd
<1> QED
  BY <1>1, <1>2, <1>3, <1>4 DEF OvertakeInv, NoneOvertook

LEMMA OvertakeStart ==
    ASSUME Types, RunInv, OvertakeInv, NEW s \in Jobs, StartJob(s)
    PROVE  OvertakeInv'
<1>1. batch' = batch \ {s} /\ s \in batch /\ \A j \in Jobs : Due(j)' <=> Due(j)
  BY DEF StartJob, Due
<1>2. Due(s)
  BY <1>1 DEF Due, RunInv, LoopInv
<1> SUFFICES ASSUME NEW j \in Jobs, NEW k \in Jobs
             PROVE  /\ overtook'[j][k] + (IF k \in batch' THEN 1 ELSE 0)
                          <= (IF j \in batch' THEN 2 ELSE 1)
                    /\ ~Due(j) \/ s = j => overtook'[j][k] = 0
  BY <1>1 DEF OvertakeInv, StartJob
<1>3. /\ overtook[j][k] \in Nat
      /\ overtook[j][k] + (IF k \in batch THEN 1 ELSE 0) <= (IF j \in batch THEN 2 ELSE 1)
  BY CountType DEF OvertakeInv
<1>4. CASE j = s \/ ~Due(j)
  BY <1>1, <1>2, <1>4 DEF StartJob, NoneOvertook
<1>5. CASE j # s /\ Due(j)
  <2>1. overtook'[j] = [overtook[j] EXCEPT ![s] = Least(@ + 1, 3)]
    BY <1>5 DEF StartJob
  <2>2. overtook'[j][k] = IF k = s THEN Least(overtook[j][k] + 1, 3) ELSE overtook[j][k]
    BY <2>1 DEF Types, TypeOK
  <2> QED
    BY <2>2, <1>1, <1>3, <1>5 DEF Least
<1> QED
  BY <1>4, <1>5

\* Time and the end of a callback make no other job less due.
LEMMA OvertakeLater ==
    ASSUME Types, RunInv, OvertakeInv, Tick \/ \E s \in Jobs : FinishJob(s)
    PROVE  OvertakeInv'
<1>1. UNCHANGED <<batch, overtook>>
  BY DEF Tick, FinishJob
<1>2. ASSUME NEW j \in Jobs, NEW k \in Jobs, ~Due(j)' \/ running' = j
      PROVE  overtook[j][k] = 0
  <2>1. CASE Tick
    <3>1. running' = running /\ registered' = registered
      BY <2>1 DEF Tick
    <3>2. Due(j) => Due(j)'
      <4>1. wait[j] \in Int /\ MaxLate \in Nat
        BY JobTypes, SchedulerAssumption
      <4>2. wait'[j] = Greatest(wait[j] - 1, -MaxLate)
        BY <2>1 DEF Tick
      <4> QED
        BY <3>1, <4>1, <4>2 DEF Due, Greatest
    <3> QED
      BY <1>2, <3>1, <3>2 DEF OvertakeInv
  <2>2. ASSUME NEW s \in Jobs, FinishJob(s) PROVE overtook[j][k] = 0
    <3>1. CASE j = s
      BY <2>2, <3>1 DEF FinishJob, OvertakeInv
    <3>2. CASE j # s
      <4>1. Due(j)' <=> Due(j)
        BY <2>2, <3>2 DEF FinishJob, Due, Types, TypeOK
      <4>2. running' # j
        BY <2>2, JobIds DEF FinishJob
      <4> QED
        BY <4>1, <4>2, <1>2 DEF OvertakeInv
    <3> QED
      BY <3>1, <3>2
  <2> QED
    BY <2>1, <2>2
<1> QED
  BY <1>1, <1>2 DEF OvertakeInv

LEMMA OvertakeStep == Types /\ RunInv /\ OvertakeInv /\ [Next]_vars => OvertakeInv'
<1> SUFFICES ASSUME Types, RunInv, OvertakeInv, [Next]_vars PROVE OvertakeInv'
  OBVIOUS
<1>1. CASE \E c \in Callers : Sync(c) \/ UpdatePollingInterval(c) \/ RemoveOrShutdown(c)
  <2>1. UNCHANGED <<schedVars, overtook>>
    BY <1>1 DEF Sync, SyncDiff, SyncStore, SyncSend, UpdatePollingInterval,
                RemoveOrShutdown, history
  <2> QED
    BY <2>1 DEF schedVars, OvertakeInv, Due
<1>2. CASE ReceiveCommand
  BY <1>2, OvertakeReceive
<1>3. CASE ExecuteDueJobs
  <2>1. /\ batch = {} /\ batch' = {j \in Jobs : Due(j)} /\ running' = NoJob
        /\ UNCHANGED <<overtook, registered, wait>>
    BY <1>3 DEF ExecuteDueJobs, Sleeping, history
  <2>2. \A j \in Jobs : Due(j)' <=> Due(j)
    BY <2>1 DEF Due
  <2>3. \A j, k \in Jobs :
            /\ overtook[j][k] \in Nat /\ overtook[j][k] <= 1
            /\ ~Due(j) => overtook[j][k] = 0
    BY <2>1, CountType DEF OvertakeInv
  <2>4. ASSUME NEW j \in Jobs, NEW k \in Jobs
        PROVE  /\ overtook'[j][k] + (IF k \in batch' THEN 1 ELSE 0)
                     <= (IF j \in batch' THEN 2 ELSE 1)
               /\ ~Due(j)' \/ running' = j => overtook'[j][k] = 0
    <3>1. overtook'[j][k] = overtook[j][k] /\ running' # j /\ (j \in batch' <=> Due(j))
      BY <2>1, JobIds
    <3> QED
      BY <3>1, <2>2, <2>3
  <2> QED
    BY <2>4 DEF OvertakeInv
<1>4. CASE \E j \in Jobs : StartJob(j)
  BY <1>4, OvertakeStart
<1>5. CASE Tick \/ \E j \in Jobs : FinishJob(j)
  BY <1>5, OvertakeLater
<1>6. CASE UNCHANGED vars
  BY <1>6 DEF vars, OvertakeInv, Due
<1> QED
  BY <1>1, <1>2, <1>3, <1>4, <1>5, <1>6 DEF Next

\* While a job is due, no other job's callback begins more than twice before its
\* own, whatever intervals clients set.
THEOREM NoStarvation == Spec => []NoOvertaking
<1>1. Types /\ OvertakeInv => NoOvertaking
  <2> SUFFICES ASSUME Types, OvertakeInv, NEW j \in Jobs, NEW k \in Jobs
               PROVE  overtook[j][k] <= 2
    BY DEF NoOvertaking
  <2> QED
    BY CountType DEF OvertakeInv
<1> QED
  BY <1>1, TypeInit, TypeStep, RunInit, RunStep, OvertakeInit, OvertakeStep, PTL DEF Spec

-----------------------------------------------------------------------------
(* At rest the scheduler has the stored intervals. *)

LEMMA LeadsUnchanged ==
    ASSUME NEW j \in Jobs, LeadsToStored(j), settings'[j] = settings[j],
           UNCHANGED <<commands, registered, interval>>
    PROVE  LeadsToStored(j)'
BY DEF LeadsToStored

LEMMA LeadsAppend ==
    ASSUME Types, NEW j \in Jobs, NEW cmd \in SentType, commands' = Append(commands, cmd),
           UNCHANGED <<settings, registered, interval>>,
           \/ LeadsToStored(j) /\ ~Sets(cmd, j)
           \/ Sets(cmd, j) /\ cmd.interval = settings[j]
    PROVE  LeadsToStored(j)'
<1>1. /\ Len(commands) \in Nat /\ Len(commands') = Len(commands) + 1
      /\ \A i \in 1 .. Len(commands) : commands'[i] = commands[i]
      /\ commands'[Len(commands) + 1] = cmd
  BY AppendFacts DEF Types
<1>2. ASSUME NEW i \in 1 .. Len(commands'), Sets(commands'[i], j),
             \A k \in (i + 1) .. Len(commands') : ~Sets(commands'[k], j)
      PROVE  commands'[i].interval = settings[j]
  <2>1. CASE Sets(cmd, j)
    <3>1. i = Len(commands) + 1
      BY <2>1, <1>1, <1>2
    <3> QED
      BY <3>1, <2>1, <1>1
  <2>2. CASE ~Sets(cmd, j)
    <3>1. i \in 1 .. Len(commands)
      BY <2>2, <1>1, <1>2
    <3>2. \A k \in (i + 1) .. Len(commands) : ~Sets(commands[k], j)
      <4> SUFFICES ASSUME NEW k \in (i + 1) .. Len(commands) PROVE ~Sets(commands[k], j)
        OBVIOUS
      <4>1. k \in (i + 1) .. Len(commands') /\ k \in 1 .. Len(commands)
        BY <3>1, <1>1
      <4> QED
        BY <4>1, <1>1, <1>2
    <3> QED
      BY <3>1, <3>2, <2>2, <1>1, <1>2 DEF LeadsToStored
  <2> QED
    BY <2>1, <2>2
<1>3. ASSUME \A i \in 1 .. Len(commands') : ~Sets(commands'[i], j), j \in registered
      PROVE  interval[j] = settings[j]
  <2>1. ~Sets(cmd, j)
    BY <1>1, <1>3
  <2>2. \A i \in 1 .. Len(commands) : ~Sets(commands[i], j)
    BY <1>1, <1>3
  <2> QED
    BY <2>1, <2>2, <1>3 DEF LeadsToStored
<1> QED
  BY <1>2, <1>3 DEF LeadsToStored

LEMMA LeadsReceive ==
    ASSUME Types, ReceiveCommand, NEW j \in Jobs, LeadsToStored(j)
    PROVE  LeadsToStored(j)'
<1> DEFINE cmd == Head(commands)
<1>1. /\ cmd = commands[1]
      /\ Len(commands) \in Nat \ {0} /\ Len(commands') = Len(commands) - 1
      /\ \A i \in 1 .. (Len(commands) - 1) : commands'[i] = commands[i + 1]
  BY TailFacts DEF Types, ReceiveCommand
<1>2. \/ cmd.op = "add" /\ AddJob(cmd)
      \/ cmd.op = "update" /\ UpdateJobInterval(cmd)
      \/ cmd.op = "remove" /\ RemoveJob(cmd)
      \/ cmd.op = "shutdown" /\ Shutdown
  BY DEF ReceiveCommand
<1>3. settings' = settings
  BY DEF ReceiveCommand
<1> HIDE DEF cmd
<1>4. ASSUME NEW i \in 1 .. Len(commands'), Sets(commands'[i], j),
             \A k \in (i + 1) .. Len(commands') : ~Sets(commands'[k], j)
      PROVE  commands'[i].interval = settings[j]
  <2>1. i + 1 \in 1 .. Len(commands) /\ commands'[i] = commands[i + 1]
    BY <1>1
  <2>2. ASSUME NEW k \in (i + 2) .. Len(commands) PROVE ~Sets(commands[k], j)
    <3>1. k - 1 \in (i + 1) .. Len(commands') /\ commands'[k - 1] = commands[k]
      BY <1>1
    <3> QED
      BY <3>1, <1>4
  <2>3. (i + 1) + 1 = i + 2
    BY <1>1
  <2> QED
    BY <2>1, <2>2, <2>3, <1>4 DEF LeadsToStored
<1>5. ASSUME \A i \in 1 .. Len(commands') : ~Sets(commands'[i], j), j \in registered'
      PROVE  interval'[j] = settings[j]
  <2>1. ASSUME NEW k \in 2 .. Len(commands) PROVE ~Sets(commands[k], j)
    <3>1. k - 1 \in 1 .. Len(commands') /\ commands'[k - 1] = commands[k]
      BY <1>1
    <3> QED
      BY <3>1, <1>5
  <2>2. CASE Sets(cmd, j)
    <3>1. cmd.interval = settings[j]
      BY <2>1, <2>2, <1>1 DEF LeadsToStored
    <3>2. interval'[j] = cmd.interval
      BY <2>2, <1>2, <1>5 DEF Sets, AddJob, UpdateJobInterval, Types, TypeOK
    <3> QED
      BY <3>1, <3>2
  <2>3. CASE ~Sets(cmd, j)
    <3>1. \A i \in 1 .. Len(commands) : ~Sets(commands[i], j)
      BY <2>1, <2>3, <1>1
    <3>2. j \in registered /\ interval'[j] = interval[j]
      BY <2>3, <1>2, <1>5
         DEF Sets, AddJob, UpdateJobInterval, RemoveJob, Shutdown, Types, TypeOK
    <3> QED
      BY <3>1, <3>2 DEF LeadsToStored
  <2> QED
    BY <2>2, <2>3
<1> QED
  BY <1>3, <1>4, <1>5 DEF LeadsToStored

LEMMA SyncInit == Init => SyncInv
<1> SUFFICES ASSUME Init PROVE SyncInv
  OBVIOUS
<1>1. \A c \in Callers : call[c].pc = "idle"
  BY DEF Init, Idle
<1>2. ASSUME NEW j \in Jobs PROVE LeadsToStored(j)
  BY InitCommands DEF LeadsToStored, Sets
<1> QED
  BY <1>1, <1>2 DEF SyncInv

LEMMA SyncCallDiff ==
    ASSUME Types, SyncInv, NEW c \in Callers, SyncDiff(c)
    PROVE  SyncInv'
<1> SUFFICES ASSUME ~overlap' PROVE SyncInv'
  BY DEF SyncInv
<1>1. ~overlap /\ \A d \in Callers : call[d].pc = "idle"
  BY DEF SyncDiff
<1>2. PICK p \in Payloads : call' = [call EXCEPT ![c] =
            [pc |-> "store", new |-> FromRates(p),
             updates |-> IntervalUpdates(settings, FromRates(p))]]
  BY DEF SyncDiff
<1>3. /\ call'[c].pc = "store" /\ call'[c].new = FromRates(p)
      /\ call'[c].updates = IntervalUpdates(settings, FromRates(p))
      /\ \A d \in Callers \ {c} : call'[d].pc = "idle"
  BY <1>1, <1>2 DEF Types
<1>4. FromRates(p) \in Settings /\ settings \in Settings
  BY DEF Settings, Types, TypeOK
<1>5. /\ \A i \in 1 .. Len(call'[c].updates) :
            call'[c].updates[i].interval = call'[c].new[call'[c].updates[i].id]
      /\ \A j \in AllJobs : ~Names(call'[c].updates, j) => call'[c].new[j] = settings[j]
  BY <1>3, <1>4, UpdatesOf
<1>6. ASSUME NEW j \in Jobs \ direct PROVE LeadsToStored(j)'
  <2>1. LeadsToStored(j)
    BY <1>1 DEF SyncInv
  <2> QED
    BY <2>1, LeadsUnchanged DEF SyncDiff, schedVars
<1>7. settings' = settings /\ direct' = direct
  BY DEF SyncDiff
<1> QED
  BY <1>3, <1>5, <1>6, <1>7 DEF SyncInv

LEMMA SyncCallStore ==
    ASSUME Types, SyncInv, NEW c \in Callers, SyncStore(c)
    PROVE  SyncInv'
<1> SUFFICES ASSUME ~overlap' PROVE SyncInv'
  BY DEF SyncInv
<1>1. ~overlap /\ call[c].pc = "store" /\ settings' = call[c].new
      /\ UNCHANGED <<direct, commands, registered, interval>>
  BY DEF SyncStore, history, schedVars
<1>2. \A d \in Callers \ {c} : call[d].pc = "idle"
  BY <1>1 DEF SyncInv
<1>3. /\ call'[c].pc = "send" /\ call'[c].updates = call[c].updates
      /\ \A d \in Callers \ {c} : call'[d].pc = "idle"
  BY <1>2 DEF SyncStore, Types
<1>4. \A i \in 1 .. Len(call[c].updates) :
          call[c].updates[i].interval = settings'[call[c].updates[i].id]
  BY <1>1 DEF SyncInv
<1>5. ASSUME NEW j \in Jobs \ direct, ~Names(call[c].updates, j)
      PROVE  LeadsToStored(j)'
  <2>1. settings'[j] = settings[j]
    BY <1>1, <1>5, JobIds DEF SyncInv
  <2>2. LeadsToStored(j)
    BY <1>1, <1>2 DEF SyncInv
  <2> QED
    BY <1>1, <2>1, <2>2, LeadsUnchanged
<1> QED
  BY <1>1, <1>3, <1>4, <1>5 DEF SyncInv

LEMMA SyncCallSend ==
    ASSUME Types, SyncInv, NEW c \in Callers, SyncSend(c)
    PROVE  SyncInv'
<1> SUFFICES ASSUME ~overlap' PROVE SyncInv'
  BY DEF SyncInv
<1> DEFINE updates == call[c].updates
<1>1. /\ ~overlap /\ call[c].pc = "send"
      /\ UNCHANGED <<settings, direct, registered, interval>>
  BY DEF SyncSend, history, schedVars
<1>2. \A d \in Callers \ {c} : call[d].pc = "idle" /\ call'[d] = call[d]
  BY <1>1 DEF SyncInv, SyncSend, Types
<1>3. call[c] \in [pc : {"send"}, updates : Seq(UpdateType)]
  BY <1>1 DEF Types, CallType, Idle
<1>4. CASE updates = <<>>
  <2>1. call'[c].pc = "idle" /\ commands' = commands
    BY <1>4 DEF SyncSend, Types, Idle
  <2>2. ASSUME NEW j \in Jobs \ direct PROVE LeadsToStored(j)'
    <3>1. ~Names(updates, j)
      BY <1>4, EmptySeq DEF Names
    <3>2. LeadsToStored(j)
      BY <1>1, <1>2, <3>1 DEF SyncInv
    <3> QED
      BY <1>1, <2>1, <3>2, LeadsUnchanged
  <2> QED
    BY <1>1, <1>2, <2>1, <2>2 DEF SyncInv
<1>5. CASE updates # <<>>
  <2> DEFINE cmd == Head(updates)
             rest == Tail(updates)
  <2>1. /\ cmd \in UpdateType /\ cmd = updates[1]
        /\ Len(updates) \in Nat \ {0} /\ Len(rest) = Len(updates) - 1
        /\ \A i \in 1 .. (Len(updates) - 1) : rest[i] = updates[i + 1]
    BY <1>3, <1>5, TailFacts
  <2>2. /\ call'[c].pc = "send" /\ call'[c].updates = rest
        /\ commands' = Append(commands, cmd)
    <3>1. /\ commands' = Append(commands, cmd)
          /\ call' = [call EXCEPT ![c] = [call[c] EXCEPT !.updates = rest]]
      BY <1>5 DEF SyncSend, Send
    <3>2. call'[c] = [call[c] EXCEPT !.updates = rest]
      BY <3>1 DEF Types
    <3> QED
      BY <3>1, <3>2, <1>3
  <2>3. \A i \in 1 .. Len(updates) : updates[i].interval = settings[updates[i].id]
    BY <1>1 DEF SyncInv
  <2> HIDE DEF cmd, rest, updates
  <2>4. \A i \in 1 .. Len(rest) : rest[i].interval = settings[rest[i].id]
    <3> SUFFICES ASSUME NEW i \in 1 .. Len(rest)
                 PROVE  rest[i].interval = settings[rest[i].id]
      OBVIOUS
    <3>1. i + 1 \in 1 .. Len(updates) /\ rest[i] = updates[i + 1]
      BY <2>1
    <3> QED
      BY <3>1, <2>3
  <2>5. cmd.interval = settings[cmd.id] /\ cmd.op = "update" /\ cmd \in SentType
    BY <2>1, <2>3, SentTypes DEF UpdateType
  <2>6. ASSUME NEW j \in Jobs \ direct, ~Names(rest, j)
        PROVE  LeadsToStored(j)'
    <3>1. CASE cmd.id = j
      <4>1. Sets(cmd, j)
        BY <3>1, <2>5 DEF Sets
      <4> QED
        BY <4>1, <3>1, <2>2, <2>5, <1>1, LeadsAppend
    <3>2. CASE cmd.id # j
      <4>1. ~Names(updates, j)
        <5> SUFFICES ASSUME NEW i \in 1 .. Len(updates), updates[i].id = j PROVE FALSE
          BY DEF Names
        <5>1. i # 1
          BY <3>2, <2>1
        <5>2. i - 1 \in 1 .. Len(rest) /\ rest[i - 1] = updates[i]
          BY <5>1, <2>1
        <5> QED
          BY <5>2, <2>6 DEF Names
      <4>2. LeadsToStored(j)
        BY <1>1, <1>2, <4>1 DEF SyncInv, updates
      <4>3. ~Sets(cmd, j)
        BY <3>2 DEF Sets
      <4> QED
        BY <4>2, <4>3, <2>2, <2>5, <1>1, LeadsAppend
    <3> QED
      BY <3>1, <3>2
  <2>7. settings' = settings /\ direct' = direct
    BY <1>1
  <2> QED
    BY <1>1, <1>2, <2>2, <2>4, <2>6, <2>7 DEF SyncInv
<1> QED
  BY <1>4, <1>5

\* A command from the other calls, which store nothing.
LEMMA SyncCallOther ==
    ASSUME Types, SyncInv, NEW c \in Callers,
           UpdatePollingInterval(c) \/ RemoveOrShutdown(c)
    PROVE  SyncInv'
<1>1. UNCHANGED <<settings, registered, interval, call, overlap>>
  BY DEF UpdatePollingInterval, RemoveOrShutdown, schedVars, history
<1>2. PICK cmd \in SentType :
          /\ commands' = Append(commands, cmd)
          /\ \A j \in Jobs \ direct' : ~Sets(cmd, j)
          /\ direct \subseteq direct'
  <2>1. CASE UpdatePollingInterval(c)
    BY <2>1, SentTypes DEF UpdatePollingInterval, Send, Command, Sets
  <2>2. CASE RemoveOrShutdown(c)
    BY <2>2, SentTypes DEF RemoveOrShutdown, Send, Command, Sets, history
  <2> QED
    BY <2>1, <2>2
<1>3. ASSUME NEW j \in Jobs \ direct', LeadsToStored(j) PROVE LeadsToStored(j)'
  BY <1>1, <1>2, <1>3, LeadsAppend
<1> QED
  BY <1>1, <1>2, <1>3 DEF SyncInv

LEMMA SyncStep == Types /\ SyncInv /\ [Next]_vars => SyncInv'
<1> SUFFICES ASSUME Types, SyncInv, [Next]_vars PROVE SyncInv'
  OBVIOUS
<1>1. CASE \E c \in Callers : Sync(c) \/ UpdatePollingInterval(c) \/ RemoveOrShutdown(c)
  BY <1>1, SyncCallDiff, SyncCallStore, SyncCallSend, SyncCallOther DEF Sync
<1>2. CASE ReceiveCommand
  <2>1. UNCHANGED <<settings, call, overlap, direct>>
    BY <1>2 DEF ReceiveCommand
  <2>2. \A j \in Jobs : LeadsToStored(j) => LeadsToStored(j)'
    BY <1>2, LeadsReceive
  <2> QED
    BY <2>1, <2>2 DEF SyncInv
<1>3. CASE \/ ExecuteDueJobs \/ Tick \/ UNCHANGED vars
           \/ \E j \in Jobs : StartJob(j) \/ FinishJob(j)
  <2>1. UNCHANGED <<settings, call, overlap, direct, commands, registered, interval>>
    BY <1>3 DEF ExecuteDueJobs, Tick, vars, StartJob, FinishJob, history
  <2> QED
    BY <2>1 DEF SyncInv, LeadsToStored
<1> QED
  BY <1>1, <1>2, <1>3 DEF Next

\* Once every call has returned and every command is processed, each job has the
\* stored interval, which is at least the minimum, unless UpdatePollingInterval
\* went past the settings for it or two syncs interleaved.
THEOREM SettledTheorem == Spec => []SettledIntervals
<1>1. Types /\ SyncInv => SettledIntervals
  <2> SUFFICES ASSUME Types, SyncInv, commands = <<>>, ~overlap,
                      \A c \in Callers : call[c].pc = "idle",
                      NEW j \in registered \ direct
               PROVE  interval[j] = settings[j] /\ interval[j] >= MinInterval
    BY DEF SettledIntervals
  <2>1. j \in Jobs \ direct /\ settings \in Settings
    BY DEF Types, TypeOK
  <2>2. LeadsToStored(j)
    BY <2>1 DEF SyncInv
  <2>3. interval[j] = settings[j]
    BY <2>2, EmptySeq DEF LeadsToStored
  <2> QED
    BY <2>1, <2>3, JobIds, SettingsType
<1> QED
  BY <1>1, TypeInit, TypeStep, SyncInit, SyncStep, PTL DEF Spec
=============================================================================
