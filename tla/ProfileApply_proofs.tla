------------------------- MODULE ProfileApply_proofs -------------------------
(* Proofs of the safety properties of ProfileApply, for any profiles, any   *)
(* number of concurrent ApplyProfile calls and any set of single setters.   *)
(*                                                                          *)
(* Two invariants carry them.                                               *)
(*   Follow   while no two calls crossed at most one is between the two     *)
(*            globals, and GPU_DAEMON_STATE already has its profile.        *)
(*   Progress the call that replaced LAST_APPLIED_PROFILE undisturbed has   *)
(*            left behind it stages that are as the profile asks, or failed *)
(*            without ending the call, or can be written over by a tick of  *)
(*            a job that was under way; once it is over every stage is so,  *)
(*            or a failure is on record.                                    *)
EXTENDS ProfileApply, WellFoundedInduction, TLAPS

\* The fan stage is done: the fan job follows the profile, and with its control
\* off the firmware has the fans and no tick of the job is left, unless one was
\* under way when they were handed back.
FansDone(p) ==
    FanDevice => /\ fanState = Wants[p]["fans"]
                 /\ fanState = FansOff /\ "fans" \notin stale
                       => hw["fans"] = FansOff /\ tick.job # "fans"

\* Stage i needs nothing more for profile p.
StageDone(p, i) ==
    LET s == Stages[i]
    IN  IF s = "fans" THEN FansDone(p)
        ELSE \/ Wants[p][s] = NotSet
             \/ Wants[p][s] = hw[s] /\ (s = "gpu_offsets" => tick.job # "gpu")
             \/ failed /\ s \in Silent
             \/ s = "gpu_offsets" /\ ~OwnOffsets(p)

AllDone(p) == \A i \in 1 .. 14 : StageDone(p, i)

\* The steps of a stage other than the fans, and those of the scheduler.
StageStep(c) == WriteStage(c) \/ StageFails(c) \/ NoKeyboard(c)
JobStep == FanTick \/ FanWrite \/ GpuTick \/ GpuWrite \/ EndTick

\* A call knows its profile, is at a stage the profile has something for, and
\* gives the fans back only for a profile that asks so.
CallKnows(c) ==
    /\ call[c].pc # "idle" => call[c].profile \in Profiles
    /\ call[c].pc = "fan_auto" =>
          /\ Stages[call[c].stage] = "fans" /\ FanDevice
          /\ Wants[call[c].profile]["fans"] = FansOff
    /\ Applying(c) => /\ call[c].stage \in 1 .. 14
                      /\ Wants[call[c].profile][Stages[call[c].stage]] # NotSet

Types ==
    /\ last \in Profiles \cup {NoProfile}
    /\ gpuState \in Profiles \cup {NoProfile}
    /\ fanState \in Value \cup {FansOff}
    /\ hw \in [Stage -> Value \cup {Unknown}]
    /\ call \in [Calls -> CallType]
    /\ tick \in [job : {"none", "fans", "gpu"}, curves : Value \cup {FansOff}]
    /\ tick.job = "fans" => tick.curves \in Value
    /\ failed \in BOOLEAN /\ alone \subseteq Calls /\ crossed \in BOOLEAN
    /\ stale \subseteq {"fans", "gpu_offsets"}
    /\ \A c \in Calls : CallKnows(c)

AtCheck(c) == call[c].pc = "check"

Follow ==
    ~crossed =>
        /\ \A c \in Calls : AtCheck(c) => gpuState = call[c].profile
        /\ \A c, d \in Calls : AtCheck(c) /\ AtCheck(d) => c = d
        /\ (\A c \in Calls : ~AtCheck(c)) => gpuState = last

Progress ==
    \A c \in alone :
        /\ alone = {c}
        /\ \A d \in Calls : Applying(d) => d = c
        /\ Applying(c) \/ call[c].pc = "ok" => call[c].profile = last
        /\ Applying(c) =>
              \A i \in 1 .. 14 : i < call[c].stage => StageDone(last, i)
        /\ call[c].pc = "fan_auto" => fanState = FansOff
        /\ call[c].pc = "ok" => AllDone(last)
        /\ ~Applying(c) => failed \/ AllDone(last)

-----------------------------------------------------------------------------
(* The stages *)

\* A set of natural numbers that is not empty has a least element.
LEMMA LeastExists ==
    ASSUME NEW T, T \subseteq Nat, T # {}
    PROVE  \E k \in T : \A m \in T : k <= m
<1> DEFINE R == {ss \in Nat \X Nat : ss[1] < ss[2]}
<1>1. \E k \in T : \A m \in T : <<m, k>> \notin R
  <2>1. IsWellFoundedOn(R, Nat)
    BY NatLessThanWellFounded DEF OpToRel
  <2> HIDE DEF R
  <2> QED
    BY <2>1, WFMin
<1>2. PICK k \in T : \A m \in T : <<m, k>> \notin R
  BY <1>1
<1>3. ASSUME NEW m \in T PROVE k <= m
  <2>1. m \in Nat /\ k \in Nat /\ <<m, k>> \notin R
    BY <1>2
  <2>2. <<m, k>>[1] = m /\ <<m, k>>[2] = k
    OBVIOUS
  <2>3. ~(m < k)
    BY <2>1, <2>2
  <2> QED
    BY <2>1, <2>3
<1> QED
  BY <1>2, <1>3

\* apply_profile has fourteen stages, each once.
LEMMA StagesFacts ==
    /\ Len(Stages) = 14 /\ DOMAIN Stages = 1 .. 14
    /\ \A i \in 1 .. 14 : Stages[i] \in Stage
    /\ \A s \in Stage : \E i \in 1 .. 14 : Stages[i] = s
    /\ \A i, j \in 1 .. 14 : Stages[i] = Stages[j] => i = j
    /\ "fans" \in Stage /\ "gpu_offsets" \in Stage
<1>1. Len(Stages) = 14 /\ DOMAIN Stages = 1 .. 14
  BY DEF Stages
<1>2. \A i \in 1 .. 14 : Stages[i] \in Stage
  BY <1>1 DEF Stage
<1>3. \A s \in Stage : \E i \in 1 .. 14 : Stages[i] = s
  BY <1>1 DEF Stage
<1>4. \A i, j \in 1 .. 14 : Stages[i] = Stages[j] => i = j
  BY SMTT(60) DEF Stages
<1>5. Stages[13] = "fans" /\ Stages[7] = "gpu_offsets"
  BY DEF Stages
<1> QED
  BY <1>1, <1>2, <1>3, <1>4, <1>5

\* What a profile asks for is a value or nothing, and never nothing of the fans.
LEMMA WantsFacts ==
    ASSUME NEW p \in Profiles, NEW s \in Stage
    PROVE  /\ Wants[p][s] \in Value \cup {NotSet}
           /\ Wants[p]["fans"] \in Value /\ Wants[p]["fans"] # NotSet
BY ProfileAssumption, StagesFacts

\* NextStage finds the first stage from i on that the profile has something for.
LEMMA NextStageFacts ==
    ASSUME NEW p, NEW i \in 1 .. 15, NEW k, k = NextStage(p, i)
    PROVE  /\ k \in i .. 15
           /\ k # 15 => Wants[p][Stages[k]] # NotSet
           /\ \A m \in 1 .. 14 : i <= m /\ m < k => Wants[p][Stages[m]] = NotSet
<1> DEFINE Rest == {m \in 1 .. 14 : m >= i /\ Wants[p][Stages[m]] # NotSet}
<1>a. Len(Stages) = 14 /\ DOMAIN Stages = 1 .. 14
  BY StagesFacts
<1>1. k = IF Rest = {} THEN 15 ELSE CHOOSE n \in Rest : \A m \in Rest : n <= m
  <2> DEFINE R == {m \in DOMAIN Stages : m >= i /\ Wants[p][Stages[m]] # NotSet}
  <2>1. NextStage(p, i) = IF R = {} THEN Len(Stages) + 1
                          ELSE CHOOSE n \in R : \A m \in R : n <= m
    BY DEF NextStage
  <2>2. R = Rest
    BY <1>a
  <2>3. Len(Stages) + 1 = 15
    BY <1>a
  <2> HIDE DEF R, Rest
  <2> QED
    BY <2>1, <2>2, <2>3
<1>2. CASE Rest = {}
  <2>1. k = 15
    <3> HIDE DEF Rest
    <3> QED
      BY <1>1, <1>2
  <2>2. \A m \in 1 .. 14 : i <= m => Wants[p][Stages[m]] = NotSet
    BY <1>2
  <2> HIDE DEF Rest
  <2> QED
    BY <2>1, <2>2
<1>3. CASE Rest # {}
  <2>1. \E n \in Rest : \A m \in Rest : n <= m
    <3>1. Rest \subseteq Nat
      OBVIOUS
    <3> HIDE DEF Rest
    <3> QED
      BY <1>3, <3>1, LeastExists
  <2>2. k \in Rest /\ \A m \in Rest : k <= m
    <3> HIDE DEF Rest
    <3> QED
      BY <1>1, <1>3, <2>1
  <2> QED
    BY <2>2
<1> QED
  BY <1>2, <1>3

-----------------------------------------------------------------------------
(* What a step does to a call *)

\* One call changes.
OnlyCall(c) == \A d \in Calls \ {c} : call'[d] = call[d]

LEMMA GotoFacts ==
    ASSUME call \in [Calls -> CallType], NEW c \in Calls,
           NEW pc \in {"idle", "check", "stage", "fan_auto", "ok", "skipped", "error"},
           Goto(c, pc)
    PROVE  /\ call' \in [Calls -> CallType] /\ OnlyCall(c)
           /\ call'[c].pc = pc /\ call'[c].profile = call[c].profile
           /\ call'[c].stage = call[c].stage
BY DEF CallType, Goto, OnlyCall

\* A call goes on to its next stage, over those the profile has nothing for, or
\* is over.
LEMMA ContinueFacts ==
    ASSUME call \in [Calls -> CallType], NEW c \in Calls, NEW i \in 0 .. 14,
           Continue(c, i)
    PROVE  /\ call' \in [Calls -> CallType] /\ OnlyCall(c)
           /\ call'[c].profile = call[c].profile
           /\ call'[c].stage \in (i + 1) .. 15
           /\ call'[c].pc = IF call'[c].stage = 15 THEN "ok" ELSE "stage"
           /\ call'[c].stage # 15
                 => Wants[call[c].profile][Stages[call'[c].stage]] # NotSet
           /\ \A m \in 1 .. 14 : i < m /\ m < call'[c].stage
                 => Wants[call[c].profile][Stages[m]] = NotSet
<1> DEFINE k == NextStage(call[c].profile, i + 1)
<1>1. /\ k \in (i + 1) .. 15
      /\ k # 15 => Wants[call[c].profile][Stages[k]] # NotSet
      /\ \A m \in 1 .. 14 : i + 1 <= m /\ m < k
            => Wants[call[c].profile][Stages[m]] = NotSet
  <2>1. i + 1 \in 1 .. 15
    OBVIOUS
  <2> QED
    BY <2>1, NextStageFacts
<1>2. call' = [call EXCEPT ![c].stage = k,
                           ![c].pc = IF k > 14 THEN "ok" ELSE "stage"]
  BY StagesFacts DEF Continue
<1> HIDE DEF k
<1>3. /\ call' \in [Calls -> CallType] /\ OnlyCall(c)
      /\ call'[c].profile = call[c].profile /\ call'[c].stage = k
      /\ call'[c].pc = IF k > 14 THEN "ok" ELSE "stage"
  <2> DEFINE pc == IF k > 14 THEN "ok" ELSE "stage"
             r == [call[c] EXCEPT !.stage = k, !.pc = pc]
  <2>1. call[c] \in CallType /\ k \in 0 .. Len(Stages) + 1
    BY <1>1, StagesFacts
  <2>2. pc \in {"ok", "stage"}
    OBVIOUS
  <2>3. call' = [call EXCEPT ![c] = r]
    BY <1>2
  <2> HIDE DEF pc
  <2>4. r \in CallType /\ r.profile = call[c].profile /\ r.stage = k /\ r.pc = pc
    BY <2>1, <2>2 DEF CallType
  <2> HIDE DEF r
  <2>5. /\ call' \in [Calls -> CallType] /\ OnlyCall(c)
        /\ call'[c].profile = call[c].profile /\ call'[c].stage = k
        /\ call'[c].pc = pc
    BY SMTT(60), <2>3, <2>4 DEF OnlyCall
  <2> QED
    BY <2>5 DEF pc
<1> QED
  BY <1>1, <1>3

\* The calls keep their knowledge when one that continues changes.
LEMMA ContinueTypes ==
    ASSUME Types, NEW c \in Calls, NEW i \in 0 .. 14, Continue(c, i),
           call[c].profile \in Profiles
    PROVE  call' \in [Calls -> CallType] /\ \A d \in Calls : CallKnows(d)'
<1>1. call \in [Calls -> CallType] /\ \A d \in Calls : CallKnows(d)
  BY SMTT(60) DEF Types
<1>2. CallKnows(c)'
  <2>1. /\ call'[c].pc \in {"ok", "stage"} /\ call'[c].profile \in Profiles
        /\ call'[c].pc = "stage" => call'[c].stage # 15
    BY ZenonT(60), <1>1, ContinueFacts
  <2>2. call'[c].stage # 15 => call'[c].stage \in 1 .. 14
    <3>1. call'[c].stage \in (i + 1) .. 15
      BY ZenonT(60), <1>1, ContinueFacts
    <3> QED
      BY SMTT(60), <3>1
  <2> QED
    BY ZenonT(60), <1>1, <2>1, <2>2, ContinueFacts DEF CallKnows, Applying
<1>3. ASSUME NEW d \in Calls \ {c} PROVE CallKnows(d)'
  BY ZenonT(60), <1>1, ContinueFacts DEF CallKnows, Applying, OnlyCall
<1> QED
  BY ZenonT(60), <1>1, <1>2, <1>3, ContinueFacts

-----------------------------------------------------------------------------
(* Types *)

LEMMA InitTypes == Init => Types
<1> SUFFICES ASSUME Init PROVE Types
  OBVIOUS
<1>1. Idle \in CallType /\ Idle.pc = "idle"
  BY StagesFacts DEF Idle, CallType
<1>2. call \in [Calls -> CallType] /\ \A c \in Calls : CallKnows(c)
  BY <1>1 DEF Init, CallKnows, Applying
<1> QED
  BY <1>2 DEF Init, Types, NoTick

LEMMA StepTypes == Types /\ [Next]_vars => Types'
<1> SUFFICES ASSUME Types, [Next]_vars PROVE Types'
  OBVIOUS
<1>t. /\ call \in [Calls -> CallType] /\ \A c \in Calls : CallKnows(c)
      /\ hw \in [Stage -> Value \cup {Unknown}]
      /\ tick \in [job : {"none", "fans", "gpu"}, curves : Value \cup {FansOff}]
  BY DEF Types
<1>1. ASSUME NEW c \in Calls, ApplyProfile(c) PROVE Types'
  <2>1. PICK p \in Profiles :
           /\ gpuState' = p
           /\ call' = [call EXCEPT ![c] = [pc |-> "check", profile |-> p, stage |-> 0]]
    BY <1>1 DEF ApplyProfile
  <2>2. call' \in [Calls -> CallType] /\ \A d \in Calls : CallKnows(d)'
    BY <1>t, <2>1, StagesFacts DEF CallType, CallKnows, Applying
  <2> QED
    BY <1>1, <2>1, <2>2 DEF Types, ApplyProfile
<1>2. ASSUME NEW c \in Calls, CheckLast(c) PROVE Types'
  <2>1. call[c].profile \in Profiles
    BY <1>t, <1>2 DEF CheckLast, CallKnows
  <2>2. call' \in [Calls -> CallType] /\ \A d \in Calls : CallKnows(d)'
    <3>1. CASE Goto(c, "skipped")
      BY <1>t, <2>1, <3>1, GotoFacts DEF CallKnows, Applying, OnlyCall
    <3>2. CASE Continue(c, 0)
      BY <2>1, <3>2, ContinueTypes
    <3> QED
      BY <1>2, <3>1, <3>2 DEF CheckLast
  <2> QED
    BY <1>2, <2>1, <2>2 DEF Types, CheckLast
<1>3. ASSUME NEW c \in Calls, StageStep(c) PROVE Types'
  <2> DEFINE i == call[c].stage
             s == Stages[i]
  <2>1. /\ i \in 1 .. 14 /\ s \in Stage /\ call[c].profile \in Profiles
        /\ Wants[call[c].profile][s] \in Value
    <3>1. Applying(c) /\ call[c].pc # "idle"
      BY <1>3 DEF StageStep, WriteStage, StageFails, NoKeyboard, Applying
    <3>2. /\ i \in 1 .. 14 /\ call[c].profile \in Profiles
          /\ Wants[call[c].profile][s] # NotSet
      BY <1>t, <3>1 DEF CallKnows
    <3>3. s \in Stage
      BY <3>2, StagesFacts
    <3> HIDE DEF i, s
    <3> QED
      BY <3>2, <3>3, WantsFacts
  <2>2. call' \in [Calls -> CallType] /\ \A d \in Calls : CallKnows(d)'
    <3>1. CASE Goto(c, "error")
      BY <1>t, <2>1, <3>1, GotoFacts DEF CallKnows, Applying, OnlyCall
    <3>2. CASE Continue(c, i)
      BY <2>1, <3>2, ContinueTypes
    <3> QED
      BY <1>3, <3>1, <3>2 DEF StageStep, WriteStage, StageFails, NoKeyboard
  <2>3. hw' \in [Stage -> Value \cup {Unknown}] /\ failed' \in BOOLEAN
    BY <1>t, <1>3, <2>1 DEF StageStep, WriteStage, StageFails, NoKeyboard, Types
  <2>4. /\ UNCHANGED <<last, gpuState, fanState, tick, alone, crossed>>
        /\ stale' \subseteq stale \cup {"gpu_offsets"}
    BY <1>3 DEF StageStep, WriteStage, StageFails, NoKeyboard, Overtaken
  <2> QED
    BY <2>2, <2>3, <2>4 DEF Types
<1>4. ASSUME NEW c \in Calls, SetFanState(c) PROVE Types'
  <2> DEFINE i == call[c].stage
             w == Wants[call[c].profile]["fans"]
  <2>1. i \in 1 .. 14 /\ call[c].profile \in Profiles /\ w \in Value
    BY <1>t, <1>4, StagesFacts, WantsFacts DEF SetFanState, CallKnows, Applying
  <2>2. call' \in [Calls -> CallType] /\ \A d \in Calls : CallKnows(d)'
    <3>1. CASE Goto(c, "fan_auto") /\ FanDevice /\ w = FansOff
      <4>1. CallKnows(c)'
        BY <1>t, <1>4, <2>1, <3>1, GotoFacts DEF SetFanState, CallKnows, Applying
      <4> QED
        BY <1>t, <3>1, <4>1, GotoFacts DEF CallKnows, Applying, OnlyCall
    <3>2. CASE Continue(c, i)
      BY <2>1, <3>2, ContinueTypes
    <3> QED
      BY <1>4, <3>1, <3>2 DEF SetFanState
  <2> QED
    BY <1>4, <2>1, <2>2 DEF Types, SetFanState, history
<1>5. ASSUME NEW c \in Calls, SetFanAuto(c) PROVE Types'
  <2> DEFINE i == call[c].stage
  <2>1. /\ i \in 1 .. 14 /\ call[c].profile \in Profiles
        /\ FansOff \in Value
    BY <1>t, <1>5, StagesFacts, WantsFacts DEF SetFanAuto, CallKnows, Applying
  <2>2. call' \in [Calls -> CallType] /\ \A d \in Calls : CallKnows(d)'
    <3>1. CASE Goto(c, "error")
      BY <1>t, <2>1, <3>1, GotoFacts DEF CallKnows, Applying, OnlyCall
    <3>2. CASE Continue(c, i)
      BY <2>1, <3>2, ContinueTypes
    <3> QED
      BY <1>5, <3>1, <3>2 DEF SetFanAuto
  <2>3. /\ hw' \in [Stage -> Value \cup {Unknown}] /\ failed' \in BOOLEAN
        /\ stale' \subseteq stale \cup {"fans"}
    BY <1>t, <1>5, <2>1 DEF SetFanAuto, Types, Overtaken
  <2> QED
    BY <1>5, <2>2, <2>3 DEF Types, SetFanAuto
<1>6. ASSUME NEW c \in Calls, Reply(c) PROVE Types'
  <2>1. call' \in [Calls -> CallType] /\ \A d \in Calls : CallKnows(d)'
    BY <1>t, <1>6, StagesFacts DEF Reply, Idle, CallType, CallKnows, Applying
  <2> QED
    BY <1>6, <2>1 DEF Types, Reply, history
<1>7. ASSUME NEW s \in Setters, SetOne(s) PROVE Types'
  <2>1. s \in Stage
    BY ProfileAssumption
  <2>2. hw' \in [Stage -> Value \cup {Unknown}]
    BY <1>t, <1>7, <2>1, WantsFacts DEF SetOne
  <2>3. \A c \in Calls : CallKnows(c)'
    BY <1>t, <1>7 DEF SetOne, CallKnows, Applying
  <2> QED
    BY <1>7, <2>2, <2>3 DEF Types, SetOne
<1>8. CASE JobStep
  <2>1. hw' \in [Stage -> Value \cup {Unknown}]
    BY <1>t, <1>8, StagesFacts
       DEF JobStep, FanTick, FanWrite, GpuTick, GpuWrite, EndTick, Types, history
  <2>2. /\ tick' \in [job : {"none", "fans", "gpu"}, curves : Value \cup {FansOff}]
        /\ tick'.job = "fans" => tick'.curves \in Value
    BY <1>t, <1>8
       DEF JobStep, FanTick, FanWrite, GpuTick, GpuWrite, EndTick, Types, NoTick
  <2>3. /\ UNCHANGED <<last, gpuState, fanState, call, failed, alone, crossed>>
        /\ stale' \subseteq stale \cup {"gpu_offsets"}
    BY <1>8 DEF JobStep, FanTick, FanWrite, GpuTick, GpuWrite, EndTick, history
  <2>4. \A c \in Calls : CallKnows(c)'
    BY <1>t, <2>3 DEF CallKnows, Applying
  <2> QED
    BY <2>1, <2>2, <2>3, <2>4 DEF Types
<1>9. CASE UNCHANGED vars
  BY <1>9 DEF vars, Types, CallKnows, Applying
<1> QED
  BY <1>1, <1>2, <1>3, <1>4, <1>5, <1>6, <1>7, <1>8, <1>9
     DEF Next, StageStep, JobStep

\* Every variable keeps its type, and a call that is applying a profile is at a
\* stage the profile has something for.
THEOREM TypeCorrect == Spec => []TypeOK
<1>1. Types => TypeOK
  BY StagesFacts DEF Types, TypeOK, CallKnows, Applying
<1> QED
  BY InitTypes, StepTypes, <1>1, PTL DEF Spec

-----------------------------------------------------------------------------
(* The two globals *)

LEMMA InitFollow == Init => Follow
BY DEF Init, Idle, Follow, AtCheck

LEMMA StepFollow == Types /\ Follow /\ [Next]_vars => Follow'
<1> SUFFICES ASSUME Types, Follow, [Next]_vars PROVE Follow'
  OBVIOUS
<1>t. call \in [Calls -> CallType]
  BY DEF Types
<1>1. ASSUME NEW c \in Calls, ApplyProfile(c) PROVE Follow'
  <2>1. /\ gpuState' = call'[c].profile /\ AtCheck(c)'
        /\ \A d \in Calls \ {c} : call'[d] = call[d]
    BY <1>t, <1>1 DEF ApplyProfile, AtCheck
  <2>2. ~crossed' => \A d \in Calls : ~AtCheck(d)
    BY <1>1 DEF ApplyProfile, AtCheck
  <2> QED
    BY <2>1, <2>2 DEF Follow, AtCheck
<1>2. ASSUME NEW c \in Calls, CheckLast(c) PROVE Follow'
  <2>1. /\ AtCheck(c) /\ last' = call[c].profile
        /\ UNCHANGED <<gpuState, crossed>>
    BY <1>2 DEF CheckLast, AtCheck
  <2>2. ~AtCheck(c)' /\ OnlyCall(c)
    <3>1. CASE Goto(c, "skipped")
      BY SMTT(60), <1>t, <3>1, GotoFacts DEF AtCheck
    <3>2. CASE Continue(c, 0)
      <4>1. 0 \in 0 .. 14
        OBVIOUS
      <4> QED
        BY <1>t, <3>2, <4>1, ContinueFacts DEF AtCheck
    <3> QED
      BY <1>2, <3>1, <3>2 DEF CheckLast
  <2> QED
    BY <2>1, <2>2 DEF Follow, AtCheck, OnlyCall
<1>3. ASSUME NEW c \in Calls, StageStep(c) \/ SetFanState(c) \/ SetFanAuto(c)
      PROVE  Follow'
  <2> USE DEF StageStep, WriteStage, StageFails, NoKeyboard, SetFanState, SetFanAuto
  <2>1. ~AtCheck(c) /\ UNCHANGED <<last, gpuState, crossed>>
    BY <1>3 DEF AtCheck, history
  <2>2. ~AtCheck(c)' /\ OnlyCall(c)
    <3>1. ASSUME NEW pc \in {"error", "fan_auto"}, Goto(c, pc)
          PROVE  ~AtCheck(c)' /\ OnlyCall(c)
      BY SMTT(60), <1>t, <3>1, GotoFacts DEF AtCheck
    <3>2. CASE Continue(c, call[c].stage)
      <4>1. call[c].stage \in 0 .. 14
        BY <1>3 DEF Types, CallKnows, Applying
      <4> QED
        BY ZenonT(60), <1>t, <3>2, <4>1, ContinueFacts DEF AtCheck
    <3> QED
      BY <1>3, <3>1, <3>2
  <2> QED
    BY <2>1, <2>2 DEF Follow, AtCheck, OnlyCall
<1>4. ASSUME NEW c \in Calls, Reply(c) PROVE Follow'
  <2>1. /\ ~AtCheck(c) /\ ~AtCheck(c)' /\ OnlyCall(c)
        /\ UNCHANGED <<last, gpuState, crossed>>
    BY <1>t, <1>4 DEF Reply, Idle, AtCheck, OnlyCall, history
  <2> QED
    BY <2>1 DEF Follow, AtCheck, OnlyCall
<1>5. ASSUME UNCHANGED <<last, gpuState, call, crossed>> PROVE Follow'
  BY <1>5 DEF Follow, AtCheck
<1> QED
  <2>1. \/ \E c \in Calls : ApplyProfile(c) \/ CheckLast(c) \/ StageStep(c)
                            \/ SetFanState(c) \/ SetFanAuto(c) \/ Reply(c)
        \/ UNCHANGED <<last, gpuState, call, crossed>>
    BY DEF Next, StageStep, SetOne, FanTick, FanWrite, GpuTick, GpuWrite, EndTick,
           vars, history
  <2> QED
    BY <1>1, <1>2, <1>3, <1>4, <1>5, <2>1

\* The overclocking job and LAST_APPLIED_PROFILE agree on the profile once all
\* calls have got past the check, unless two calls crossed between the two.
THEOREM FollowTheorem == Spec => []GpuFollowsLast
<1>1. Follow => GpuFollowsLast
  BY DEF Follow, AtCheck, GpuFollowsLast
<1> QED
  BY InitTypes, StepTypes, InitFollow, StepFollow, <1>1, PTL DEF Spec

-----------------------------------------------------------------------------
(* The undisturbed call *)

LEMMA InitProgress == Init => Progress
BY DEF Init, Progress

\* All stages done is what the properties ask of the hardware.
LEMMA DoneMeansHas ==
    ASSUME NEW p, AllDone(p)
    PROVE  /\ HardwareHas(p, Stage \ Silent)
           /\ ~failed => HardwareHas(p, Stage)
<1>1. ASSUME NEW s \in Stage \ {"fans"}
      PROVE  \/ Wants[p][s] \in {NotSet, hw[s]}
             \/ failed /\ s \in Silent
             \/ s = "gpu_offsets" /\ ~OwnOffsets(p)
  BY StagesFacts DEF AllDone, StageDone
<1>2. FansDone(p)
  BY StagesFacts DEF AllDone, StageDone
<1> QED
  BY <1>1, <1>2 DEF HardwareHas, FansDone

\* A stage the profile has nothing for is done.
LEMMA NotSetDone ==
    ASSUME NEW p \in Profiles, NEW i \in 1 .. 14, Wants[p][Stages[i]] = NotSet
    PROVE  StageDone(p, i)'
<1>1. Stages[i] # "fans"
  BY WantsFacts, StagesFacts
<1> QED
  BY <1>1 DEF StageDone

\* A step that applies nothing and leaves what the applied profile left behind.
LEMMA QuietProgress ==
    ASSUME Progress, UNCHANGED <<last, fanState, failed>>,
           alone' \subseteq alone, alone \subseteq Calls,
           \A i \in 1 .. 14 : StageDone(last, i) => StageDone(last, i)',
           \A d \in Calls : call'[d] = call[d] \/ (~Applying(d)' /\ call'[d].pc # "ok"
                                                /\ ~Applying(d))
    PROVE  Progress'
<1>2. ASSUME AllDone(last) PROVE AllDone(last)'
  BY SMTT(60), <1>2 DEF AllDone
<1> SUFFICES ASSUME NEW c \in alone'
             PROVE  /\ alone' = {c}
                    /\ \A d \in Calls : Applying(d)' => d = c
                    /\ Applying(c)' \/ call'[c].pc = "ok" => call'[c].profile = last'
                    /\ Applying(c)' =>
                          \A i \in 1 .. 14 : i < call'[c].stage => StageDone(last, i)'
                    /\ call'[c].pc = "fan_auto" => fanState' = FansOff
                    /\ call'[c].pc = "ok" => AllDone(last)'
                    /\ ~Applying(c)' => failed' \/ AllDone(last)'
  BY DEF Progress
<1>3. c \in alone /\ alone' = {c} /\ c \in Calls
  BY DEF Progress
<1>4. \A d \in Calls : Applying(d)' => Applying(d) /\ call'[d] = call[d]
  BY DEF Applying
<1>5. CASE call'[c] = call[c]
  BY <1>2, <1>3, <1>4, <1>5 DEF Progress, Applying
<1>6. CASE ~Applying(c)' /\ call'[c].pc # "ok" /\ ~Applying(c)
  BY <1>2, <1>3, <1>4, <1>6 DEF Progress, Applying
<1> QED
  BY <1>3, <1>5, <1>6

\* Without a step of a job or a write, a stage that is done stays done.
LEMMA SameDone ==
    ASSUME UNCHANGED <<last, fanState, hw, tick, failed, stale>>,
           NEW i \in 1 .. 14, StageDone(last, i)
    PROVE  StageDone(last, i)'
BY DEF StageDone, FansDone, OwnOffsets

\* No step of a job undoes a stage that is done: a tick starts from the state in
\* force, and one that was under way is accounted for.
LEMMA JobKeepsDone ==
    ASSUME Types, JobStep, NEW i \in 1 .. 14, StageDone(last, i)
    PROVE  StageDone(last, i)'
<1> DEFINE s == Stages[i]
<1>h. hw \in [Stage -> Value \cup {Unknown}] /\ s \in Stage
  BY StagesFacts DEF Types
<1>u. UNCHANGED <<last, gpuState, fanState, failed>>
  BY DEF JobStep, FanTick, FanWrite, GpuTick, GpuWrite, EndTick, history
<1>1. CASE FanTick
  <2>1. tick'.job = "fans" /\ fanState # FansOff /\ UNCHANGED <<hw, stale>>
    BY <1>1 DEF FanTick, history
  <2> QED
    BY <1>u, <2>1 DEF StageDone, FansDone, OwnOffsets
<1>2. CASE FanWrite
  <2>1. /\ tick.job = "fans" /\ UNCHANGED <<tick, stale>>
        /\ s # "fans" => hw'[s] = hw[s]
    BY <1>2, <1>h DEF FanWrite, history
  <2> QED
    BY <1>u, <2>1 DEF StageDone, FansDone, OwnOffsets
<1>3. CASE GpuTick
  <2>1. /\ tick'.job = "gpu" /\ UNCHANGED hw /\ gpuState \notin ManualProfiles
        /\ gpuState = last \/ "gpu_offsets" \in stale'
        /\ stale \subseteq stale' /\ ("fans" \in stale' <=> "fans" \in stale)
    BY <1>3 DEF GpuTick, NoTick
  <2>2. CASE s = "gpu_offsets"
    <3>1. ~OwnOffsets(last)'
      BY <1>u, <2>1 DEF OwnOffsets
    <3> QED
      BY <2>2, <3>1 DEF StageDone
  <2>3. CASE s # "gpu_offsets"
    BY <1>u, <2>1, <2>3 DEF StageDone, FansDone
  <2> QED
    BY <2>2, <2>3
<1>4. CASE GpuWrite
  <2>1. /\ tick.job = "gpu" /\ UNCHANGED <<tick, stale>>
        /\ s # "gpu_offsets" => hw'[s] = hw[s]
        /\ hw'["fans"] = hw["fans"]
    BY <1>4, <1>h, StagesFacts DEF GpuWrite, history
  <2> QED
    BY <1>u, <2>1 DEF StageDone, FansDone, OwnOffsets
<1>5. CASE EndTick
  <2>1. tick'.job = "none" /\ UNCHANGED <<hw, stale>>
    BY <1>5 DEF EndTick, NoTick, history
  <2> QED
    BY <1>u, <2>1 DEF StageDone, FansDone, OwnOffsets
<1> QED
  BY <1>1, <1>2, <1>3, <1>4, <1>5 DEF JobStep

\* A call that goes on from a stage it has done keeps its progress; the stages
\* it passes over ask for nothing.
LEMMA AdvanceProgress ==
    ASSUME call \in [Calls -> CallType], NEW c \in Calls, NEW i \in 0 .. 14,
           NEW p \in Profiles, call[c].profile = p, last' = p,
           Continue(c, i), alone' = {c}, \A d \in Calls \ {c} : ~Applying(d),
           \A m \in 1 .. 14 : m <= i => StageDone(p, m)'
    PROVE  Progress'
<1>1. /\ OnlyCall(c) /\ call'[c].profile = p
      /\ call'[c].pc = IF call'[c].stage = 15 THEN "ok" ELSE "stage"
      /\ \A m \in 1 .. 14 : i < m /\ m < call'[c].stage => Wants[p][Stages[m]] = NotSet
      /\ call'[c].stage \in (i + 1) .. 15
  BY ZenonT(60), ContinueFacts
<1>2. \A m \in 1 .. 14 : m < call'[c].stage => StageDone(p, m)'
  <2> SUFFICES ASSUME NEW m \in 1 .. 14, m < call'[c].stage PROVE StageDone(p, m)'
    OBVIOUS
  <2>1. CASE m <= i
    BY <2>1
  <2>2. CASE i < m
    BY <1>1, <2>2, NotSetDone
  <2> QED
    BY <2>1, <2>2
<1>3. call'[c].pc = "ok" => AllDone(p)'
  <2> SUFFICES ASSUME call'[c].pc = "ok" PROVE AllDone(p)'
    OBVIOUS
  <2>1. call'[c].stage = 15
    BY <1>1
  <2> QED
    BY <1>2, <2>1 DEF AllDone
<1>5. ASSUME NEW m \in 1 .. 14 PROVE StageDone(last, m)' <=> StageDone(p, m)'
  BY <1>1 DEF StageDone, FansDone, OwnOffsets
<1>4. AllDone(last)' <=> AllDone(p)'
  BY <1>5 DEF AllDone
<1>6. \A d \in Calls : Applying(d)' => d = c
  BY <1>1 DEF Applying, OnlyCall
<1>7. ~Applying(c)' => call'[c].pc = "ok"
  BY <1>1 DEF Applying
<1>8. call'[c].pc # "fan_auto"
  BY <1>1
<1> QED
  BY SMTT(60), <1>1, <1>2, <1>3, <1>4, <1>5, <1>6, <1>7, <1>8
     DEF Progress

\* A call that ends with an error leaves a failure on record.
LEMMA ErrorProgress ==
    ASSUME call \in [Calls -> CallType], NEW c \in Calls, Goto(c, "error"),
           alone' = {c}, failed', \A d \in Calls \ {c} : ~Applying(d)
    PROVE  Progress'
<1>1. OnlyCall(c) /\ call'[c].pc = "error"
  BY GotoFacts
<1> QED
  BY <1>1 DEF Progress, Applying, OnlyCall

\* The comparison with LAST_APPLIED_PROFILE.
LEMMA CheckProgress ==
    ASSUME Types, Progress, NEW c \in Calls, CheckLast(c)
    PROVE  Progress'
<1>t. /\ call \in [Calls -> CallType] /\ alone \subseteq Calls
      /\ call[c].profile \in Profiles
  BY DEF Types, CallKnows, CheckLast
<1>1. CASE Goto(c, "skipped") /\ UNCHANGED <<last, failed, alone>>
  <2>1. OnlyCall(c) /\ call'[c].pc = "skipped"
    BY <1>t, <1>1, GotoFacts
  <2>2. \A d \in Calls : call'[d] = call[d] \/ (~Applying(d)' /\ call'[d].pc # "ok"
                                               /\ ~Applying(d))
    BY <2>1 DEF CheckLast, OnlyCall, Applying
  <2>3. UNCHANGED <<last, fanState, hw, tick, failed, alone, stale>>
    BY <1>1 DEF CheckLast
  <2>4. \A i \in 1 .. 14 : StageDone(last, i) => StageDone(last, i)'
    BY <2>3, SameDone
  <2> QED
    BY <1>t, <2>2, <2>3, <2>4, QuietProgress
<1>2. CASE /\ last' = call[c].profile /\ Continue(c, 0)
           /\ alone' = IF \E d \in Calls : Applying(d) THEN {} ELSE {c}
  <2>1. CASE \E d \in Calls : Applying(d)
    BY <1>2, <2>1 DEF Progress
  <2>2. CASE ~\E d \in Calls : Applying(d)
    <3>1. 0 \in 0 .. 14 /\ \A m \in 1 .. 14 : ~(m <= 0)
      OBVIOUS
    <3> QED
      BY <1>t, <1>2, <2>2, <3>1, AdvanceProgress
  <2> QED
    BY <2>1, <2>2
<1> QED
  BY <1>1, <1>2 DEF CheckLast

\* What an applying call of the undisturbed profile knows.
LEMMA AloneFacts ==
    ASSUME Types, Progress, NEW c \in Calls, Applying(c), alone # {}
    PROVE  \E p \in Profiles, i \in 1 .. 14 :
              /\ last = p /\ call[c].profile = p /\ call[c].stage = i
              /\ alone = {c} /\ \A d \in Calls \ {c} : ~Applying(d)
              /\ \A m \in 1 .. 14 : m < i => StageDone(p, m)
<1>1. PICK e \in alone : TRUE
  OBVIOUS
<1>2. e = c
  BY <1>1 DEF Progress
<1>3. call[c].profile \in Profiles /\ call[c].stage \in 1 .. 14
  BY DEF Types, CallKnows, Applying
<1>4. PICK p \in Profiles, i \in 1 .. 14 : call[c].profile = p /\ call[c].stage = i
  BY <1>3
<1>5. last = p /\ alone = {c} /\ \A d \in Calls \ {c} : ~Applying(d)
  BY <1>1, <1>2, <1>4 DEF Progress
<1>6. \A m \in 1 .. 14 : m < i => StageDone(last, m)
  BY <1>1, <1>2, <1>4 DEF Progress
<1>7. \A m \in 1 .. 14 : m < i => StageDone(p, m)
  BY <1>5, <1>6
<1> QED
  BY <1>4, <1>5, <1>7

\* A stage other than the fans.
LEMMA WriteProgress ==
    ASSUME Types, Progress, NEW c \in Calls, StageStep(c)
    PROVE  Progress'
<1>u. /\ UNCHANGED <<last, fanState, tick, alone>>
      /\ call[c].pc = "stage" /\ Stages[call[c].stage] # "fans"
      /\ failed => failed'
      /\ stale' = stale \/ (stale' = Overtaken("gpu_offsets", "gpu")
                             /\ Stages[call[c].stage] = "gpu_offsets")
  BY DEF StageStep, WriteStage, StageFails, NoKeyboard
<1>1. CASE alone = {}
  BY <1>1, <1>u DEF Progress
<1>2. CASE alone # {}
  <2>0. PICK p \in Profiles, i \in 1 .. 14 :
           /\ last = p /\ call[c].profile = p /\ call[c].stage = i
           /\ alone = {c} /\ \A d \in Calls \ {c} : ~Applying(d)
           /\ \A m \in 1 .. 14 : m < i => StageDone(p, m)
    <3>1. Applying(c)
      BY <1>u DEF Applying
    <3> QED
      BY <1>2, <3>1, AloneFacts
  <2>1. call \in [Calls -> CallType] /\ hw \in [Stage -> Value \cup {Unknown}]
    BY DEF Types
  <2> DEFINE s == Stages[i]
  <2>2. /\ s # "fans" /\ s \in Stage
        /\ \A r \in Stage \ {s} : hw'[r] = hw[r]
    BY <1>u, <2>0, <2>1, StagesFacts DEF StageStep, WriteStage, StageFails, NoKeyboard
  <2>s. /\ "fans" \in stale' <=> "fans" \in stale
        /\ s # "gpu_offsets" => stale' = stale
    BY <1>u, <2>0 DEF Overtaken
  <2>3. \A m \in 1 .. 14 : m < i => StageDone(p, m)'
    <3> SUFFICES ASSUME NEW m \in 1 .. 14, m < i PROVE StageDone(p, m)'
      OBVIOUS
    <3>1. Stages[m] # s /\ Stages[m] \in Stage /\ StageDone(p, m)
      BY <2>0, StagesFacts
    <3>2. hw'[Stages[m]] = hw[Stages[m]] /\ hw'["fans"] = hw["fans"]
      BY <2>2, <3>1, StagesFacts
    <3>3. Stages[m] = "gpu_offsets" => stale' = stale
      BY <2>s, <3>1
    <3> HIDE DEF s
    <3> QED
      BY <1>u, <2>s, <3>1, <3>2, <3>3 DEF StageDone, FansDone, OwnOffsets
  <2>4. CASE Goto(c, "error") /\ failed'
    BY <1>u, <2>0, <2>1, <2>4, ErrorProgress
  <2>5. ASSUME Continue(c, i), StageDone(p, i)' PROVE Progress'
    <3>1. \A m \in 1 .. 14 : m <= i => StageDone(p, m)'
      BY <2>3, <2>5
    <3> QED
      BY <1>u, <2>0, <2>1, <2>5, <3>1, AdvanceProgress
  <2>6. CASE WriteStage(c)
    <3>1. hw'[s] = Wants[p][s] /\ Continue(c, i)
      BY <2>0, <2>1, <2>2, <2>6 DEF WriteStage
    <3>2. s = "gpu_offsets" => tick'.job # "gpu" \/ ~OwnOffsets(p)'
      BY <2>0, <2>6 DEF WriteStage, Overtaken, OwnOffsets
    <3>3. StageDone(p, i)'
      BY <2>2, <3>1, <3>2 DEF StageDone
    <3> QED
      BY <2>5, <3>1, <3>3
  <2>7. CASE StageFails(c) \/ NoKeyboard(c)
    <3>1. failed' /\ (Goto(c, "error") \/ (s \in Silent /\ Continue(c, i)))
      BY <2>0, <2>7 DEF StageFails, NoKeyboard, Silent
    <3>2. s \in Silent => StageDone(p, i)'
      BY <2>2, <3>1 DEF StageDone
    <3> QED
      BY <2>4, <2>5, <3>1, <3>2
  <2> QED
    BY <2>6, <2>7 DEF StageStep
<1> QED
  BY <1>1, <1>2

\* The first half of the fan stage.
LEMMA FanStateProgress ==
    ASSUME Types, Progress, NEW c \in Calls, SetFanState(c)
    PROVE  Progress'
<1>1. CASE alone = {}
  BY <1>1 DEF SetFanState, Progress, history
<1>2. CASE alone # {}
  <2>0. PICK p \in Profiles, i \in 1 .. 14 :
           /\ last = p /\ call[c].profile = p /\ call[c].stage = i
           /\ alone = {c} /\ \A d \in Calls \ {c} : ~Applying(d)
           /\ \A m \in 1 .. 14 : m < i => StageDone(p, m)
    <3>1. Applying(c)
      BY DEF SetFanState, Applying
    <3> QED
      BY <1>2, <3>1, AloneFacts
  <2>1. call \in [Calls -> CallType]
    BY DEF Types
  <2> DEFINE w == Wants[p]["fans"]
  <2>2. /\ Stages[i] = "fans"
        /\ UNCHANGED <<last, hw, tick, alone, failed, stale>>
        /\ fanState' = IF FanDevice THEN w ELSE fanState
    BY <2>0 DEF SetFanState, history
  <2>3. \A m \in 1 .. 14 : m < i => StageDone(p, m)'
    BY <2>0, <2>1, <2>2, StagesFacts DEF StageDone, OwnOffsets
  <2>4. CASE FanDevice /\ w = FansOff /\ Goto(c, "fan_auto")
    <3>1. /\ OnlyCall(c) /\ call'[c].pc = "fan_auto"
          /\ call'[c].profile = last' /\ call'[c].stage = i
      BY <2>0, <2>1, <2>2, <2>4, GotoFacts
    <3>2. \A m \in 1 .. 14 : m < i => StageDone(last, m)'
      BY <2>0, <2>2, <2>3 DEF StageDone, FansDone, OwnOffsets
    <3>3. \A d \in Calls : Applying(d)' => d = c
      BY <2>0, <3>1 DEF Applying, OnlyCall
    <3>4. Applying(c)' /\ fanState' = FansOff
      BY <2>2, <2>4, <3>1 DEF Applying
    <3> QED
      BY <2>0, <2>2, <3>1, <3>2, <3>3, <3>4 DEF Progress
  <2>5. CASE ~(FanDevice /\ w = FansOff) /\ Continue(c, i)
    <3>1. StageDone(p, i)'
      BY <2>0, <2>1, <2>2, <2>5 DEF StageDone, FansDone
    <3>2. \A m \in 1 .. 14 : m <= i => StageDone(p, m)'
      BY <2>0, <2>3, <3>1
    <3> QED
      BY <2>0, <2>1, <2>2, <2>5, <3>2, AdvanceProgress
  <2> QED
    BY <2>0, <2>4, <2>5 DEF SetFanState
<1> QED
  BY <1>1, <1>2

\* The second half, for a profile that hands the fans back.
LEMMA FanAutoProgress ==
    ASSUME Types, Progress, NEW c \in Calls, SetFanAuto(c)
    PROVE  Progress'
<1>1. CASE alone = {}
  BY <1>1 DEF SetFanAuto, Progress
<1>2. CASE alone # {}
  <2>0. PICK p \in Profiles, i \in 1 .. 14 :
           /\ last = p /\ call[c].profile = p /\ call[c].stage = i
           /\ alone = {c} /\ \A d \in Calls \ {c} : ~Applying(d)
           /\ \A m \in 1 .. 14 : m < i => StageDone(p, m)
    <3>1. Applying(c)
      BY DEF SetFanAuto, Applying
    <3> QED
      BY <1>2, <3>1, AloneFacts
  <2>1. call \in [Calls -> CallType]
    BY DEF Types
  <2>2. /\ Stages[i] = "fans" /\ Wants[p]["fans"] = FansOff
        /\ fanState = FansOff /\ UNCHANGED <<last, fanState, tick, alone>>
    BY <2>0, <2>1 DEF SetFanAuto, Types, CallKnows, Progress
  <2>3. CASE Goto(c, "error") /\ failed'
    BY <2>0, <2>1, <2>2, <2>3, ErrorProgress
  <2>4. CASE /\ hw' = [hw EXCEPT !["fans"] = FansOff]
             /\ stale' = Overtaken("fans", "fans")
             /\ Continue(c, i) /\ UNCHANGED failed
    <3>1. /\ hw'["fans"] = FansOff /\ \A r \in Stage \ {"fans"} : hw'[r] = hw[r]
          /\ "gpu_offsets" \in stale' <=> "gpu_offsets" \in stale
          /\ "fans" \in stale' \/ tick.job # "fans"
      BY <2>4, StagesFacts DEF Types, Overtaken
    <3>2. StageDone(p, i)'
      BY <2>0, <2>2, <3>1 DEF StageDone, FansDone
    <3>3. \A m \in 1 .. 14 : m < i => StageDone(p, m)'
      <4> SUFFICES ASSUME NEW m \in 1 .. 14, m < i PROVE StageDone(p, m)'
        OBVIOUS
      <4>1. Stages[m] # "fans" /\ Stages[m] \in Stage /\ StageDone(p, m)
        BY <2>0, <2>1, <2>2, StagesFacts
      <4> QED
        BY <2>2, <2>4, <3>1, <4>1 DEF StageDone, OwnOffsets
    <3>4. \A m \in 1 .. 14 : m <= i => StageDone(p, m)'
      BY <2>0, <3>2, <3>3
    <3> QED
      BY <2>0, <2>1, <2>2, <2>4, <3>4, AdvanceProgress
  <2> QED
    BY <2>0, <2>3, <2>4 DEF SetFanAuto
<1> QED
  BY <1>1, <1>2

LEMMA StepProgress == Types /\ Progress /\ [Next]_vars => Progress'
<1> SUFFICES ASSUME Types, Progress, [Next]_vars PROVE Progress'
  OBVIOUS
<1>t. call \in [Calls -> CallType] /\ alone \subseteq Calls
      /\ hw \in [Stage -> Value \cup {Unknown}]
  BY DEF Types
<1>1. ASSUME NEW c \in Calls, ApplyProfile(c) \/ Reply(c) PROVE Progress'
  <2>1. /\ UNCHANGED <<last, fanState, hw, tick, failed, alone, stale>>
        /\ OnlyCall(c) /\ call'[c].pc \in {"check", "idle"}
        /\ call[c].pc \in {"idle", "ok", "skipped", "error"}
    <3>1. CASE ApplyProfile(c)
      BY <1>t, <3>1 DEF ApplyProfile, OnlyCall
    <3>2. CASE Reply(c)
      BY <1>t, <3>2 DEF Reply, Idle, OnlyCall, history
    <3> QED
      BY <1>1, <3>1, <3>2
  <2>2. \A d \in Calls : call'[d] = call[d] \/ (~Applying(d)' /\ call'[d].pc # "ok"
                                               /\ ~Applying(d))
    BY <2>1 DEF OnlyCall, Applying
  <2>3. \A i \in 1 .. 14 : StageDone(last, i) => StageDone(last, i)'
    BY <2>1, SameDone
  <2> QED
    BY <1>t, <2>1, <2>2, <2>3, QuietProgress
<1>2. ASSUME NEW s \in Setters, SetOne(s) PROVE Progress'
  BY <1>2 DEF SetOne, Progress
<1>3. CASE JobStep
  <2>1. UNCHANGED <<last, fanState, call, failed, alone>>
    BY <1>3 DEF JobStep, FanTick, FanWrite, GpuTick, GpuWrite, EndTick, history
  <2>2. \A i \in 1 .. 14 : StageDone(last, i) => StageDone(last, i)'
    BY <1>3, JobKeepsDone
  <2> QED
    BY <1>t, <2>1, <2>2, QuietProgress
<1>4. CASE UNCHANGED vars
  <2>1. UNCHANGED <<last, fanState, hw, call, tick, failed, alone, stale>>
    BY <1>4 DEF vars
  <2>2. \A i \in 1 .. 14 : StageDone(last, i) => StageDone(last, i)'
    BY <2>1, SameDone
  <2> QED
    BY <1>t, <2>1, <2>2, QuietProgress
<1> QED
  BY <1>1, <1>2, <1>3, <1>4, CheckProgress, WriteProgress, FanStateProgress,
     FanAutoProgress DEF Next, StageStep, JobStep

\* Types and progress hold together in every reachable state.
LEMMA ProgressInvariant == Spec => [](Types /\ Progress)
BY InitTypes, StepTypes, InitProgress, StepProgress, PTL DEF Spec

-----------------------------------------------------------------------------
(* The theorems about what was applied *)

\* A call that replies with success, and that neither a setter, another call nor
\* a tick under way disturbed, has written every stage whose failed writes it
\* would have reported.
THEOREM SuccessTheorem == Spec => []SuccessIsApplied
<1>1. Types /\ Progress => SuccessIsApplied
  <2> SUFFICES ASSUME Types, Progress, NEW c \in alone, call[c].pc = "ok"
               PROVE  HardwareHas(call[c].profile, Stage \ Silent)
    BY DEF SuccessIsApplied
  <2>1. call[c].profile = last /\ AllDone(last)
    BY DEF Progress
  <2> QED
    BY <2>1, DoneMeansHas
<1> QED
  BY ProgressInvariant, <1>1, PTL

\* Once nobody is applying, the hardware is as the remembered profile asks,
\* unless a write failed, a setter ran or another call was applying since, and
\* but for what a tick that was under way wrote over.
THEOREM RememberedTheorem == Spec => []RememberedIsApplied
<1>1. Types /\ Progress => RememberedIsApplied
  <2> SUFFICES ASSUME Types, Progress, ~failed, alone # {},
                      \A c \in Calls : ~Applying(c)
               PROVE  HardwareHas(last, Stage)
    BY DEF RememberedIsApplied
  <2>1. PICK c \in alone : TRUE
    OBVIOUS
  <2>2. AllDone(last)
    BY <2>1 DEF Progress, Types
  <2> QED
    BY <2>2, DoneMeansHas
<1> QED
  BY ProgressInvariant, <1>1, PTL
=============================================================================
