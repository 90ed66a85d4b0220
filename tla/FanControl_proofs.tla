-------------------------- MODULE FanControl_proofs --------------------------
(***************************************************************************)
(* Proofs about FanControl, for any number of concurrent callers, fans and *)
(* duties.                                                                 *)
(***************************************************************************)
EXTENDS FanControl, TLAPS

\* Operations whose reads and writes are in progress.
InSpeed == {"disable", "storeTrue", "read", "write"}

\* The locals are reset until the readback begins.
FreshLocals ==
    \A t \in Threads :
        pc[t] \in {"check", "disable", "storeTrue"} => next[t] = 0

\* The speed loop is left only when every present fan has been read.
AllRead == \A t \in Threads : pc[t] = "write" => next[t] \notin Present

\* An untainted operation runs alone with respect to half-finished ones.
AloneInv ==
    \A t \in Threads : pc[t] \in InSpeed /\ ~tainted[t] =>
        \A u \in Threads \ {t} : pc[u] \notin {"storeFalse", "settle"}

\* After its own disable-auto ioctl an untainted operation is in manual mode.
StoreInv ==
    \A t \in Threads :
        pc[t] = "storeTrue" /\ ~tainted[t] => mode = "manual"

\* With an untainted readback and a trustworthy flag the mode is manual.
ReadInv ==
    \A t \in Threads :
        pc[t] \in {"read", "write"} /\ ~tainted[t] /\ ~suspect
            => mode = "manual"

\* In manual mode the duties shown are the commanded ones, except while a
\* write is settling.
ShownInv ==
    mode = "manual" /\ (\A t \in Threads : pc[t] # "settle") => shown = target

\* What an untainted operation has read so far is what is commanded.
SnapInv ==
    \A t \in Threads :
        pc[t] \in {"read", "write"} /\ ~tainted[t] /\ mode = "manual"
            => \A f \in Present : f < next[t] => snap[t][f] = target[f]

IInv ==
    /\ TypeOK
    /\ FreshLocals
    /\ AllRead
    /\ AloneInv
    /\ StoreInv
    /\ StaleFlagOnlyByRace
    /\ ReadInv
    /\ ShownInv
    /\ SnapInv

-----------------------------------------------------------------------------
(* What the control-flow helpers do to the types. *)

LEMMA ExceptType ==
    ASSUME NEW S, NEW T, NEW f \in [S -> T], NEW x \in S, NEW y \in T
    PROVE  [f EXCEPT ![x] = y] \in [S -> T]
OBVIOUS

LEMMA GotoType ==
    ASSUME TypeOK, NEW t \in Threads, NEW label \in Pcs, Goto(t, label)
    PROVE  pc' \in [Threads -> Pcs]
BY DEF TypeOK, Goto

LEMMA LocalsType ==
    ASSUME TypeOK, NEW t \in Threads, NEW f \in Nat, NEW d \in Duties,
           Locals(t, f, d)
    PROVE  /\ fan' \in [Threads -> Nat]
           /\ duty' \in [Threads -> Duties]
           /\ snap' \in [Threads -> [Word -> Duties]]
           /\ next' \in [Threads -> Nat]
<1>1. NoWord \in [Word -> Duties]
  BY FanAssumption DEF NoWord
<1> QED
  BY <1>1 DEF TypeOK, Locals

LEMMA ReturnType ==
    ASSUME TypeOK, NEW t \in Threads, Return(t)
    PROVE  /\ pc' \in [Threads -> Pcs]
           /\ fan' \in [Threads -> Nat]
           /\ duty' \in [Threads -> Duties]
           /\ snap' \in [Threads -> [Word -> Duties]]
           /\ next' \in [Threads -> Nat]
<1>1. pc' \in [Threads -> Pcs]
  BY GotoType DEF Return, Pcs
<1>2. Locals(t, 0, Off) /\ Off \in Duties
  BY FanAssumption DEF Return
<1> QED
  BY <1>1, <1>2, LocalsType

LEMMA CallType ==
    ASSUME TypeOK, NEW t \in Threads, NEW f \in Nat, NEW d \in Duties,
           Call(t, f, d)
    PROVE  /\ pc' \in [Threads -> Pcs]
           /\ fan' \in [Threads -> Nat]
           /\ duty' \in [Threads -> Duties]
           /\ snap' \in [Threads -> [Word -> Duties]]
           /\ next' \in [Threads -> Nat]
<1>1. "check" \in Pcs
  BY DEF Pcs, SpeedPcs
<1> QED
  BY <1>1, GotoType, LocalsType DEF Call

LEMMA TaintType ==
    ASSUME NEW t \in Threads, TypeOK, TaintOthers(t)
    PROVE  tainted' \in [Threads -> BOOLEAN]
BY DEF TypeOK, TaintOthers

LEMMA Labels ==
    {"idle", "curves", "check", "disable", "storeTrue", "read", "write",
     "settle", "autoIoctl", "storeFalse"} = Pcs
BY DEF Pcs, SpeedPcs, AutoPcs

\* Every action keeps the types.
LEMMA TypeStep == TypeOK /\ [Next]_vars => TypeOK'
<1> SUFFICES ASSUME TypeOK, [Next]_vars PROVE TypeOK'
  OBVIOUS
<1> USE FanAssumption, Labels
<1>1. ASSUME NEW t \in Threads, SetFanSpeed(t) PROVE TypeOK'
  BY <1>1, CallType DEF SetFanSpeed, TypeOK, hw
<1>2. ASSUME NEW t \in Threads, SetFanAuto(t) PROVE TypeOK'
  BY <1>2, GotoType DEF SetFanAuto, TypeOK, hw, locals
<1>3. ASSUME NEW t \in Threads, ApplyFanSettings(t) PROVE TypeOK'
  BY <1>3, GotoType DEF ApplyFanSettings, TypeOK, hw, locals
<1>4. ASSUME NEW t \in Threads, CheckFlag(t) PROVE TypeOK'
  <2>1. pc' \in [Threads -> Pcs]
    BY <1>4, GotoType DEF CheckFlag
  <2> QED
    BY <1>4, <2>1 DEF CheckFlag, TypeOK, hw, locals
<1>5. ASSUME NEW t \in Threads, DisableAuto(t) PROVE TypeOK'
  <2>1. pc' \in [Threads -> Pcs]
    BY <1>5, GotoType, ReturnType DEF DisableAuto
  <2>2. tainted' \in [Threads -> BOOLEAN]
    BY <1>5 DEF DisableAuto, TypeOK
  <2>3. /\ fan' \in [Threads -> Nat]
        /\ duty' \in [Threads -> Duties]
        /\ snap' \in [Threads -> [Word -> Duties]]
        /\ next' \in [Threads -> Nat]
    BY <1>5, ReturnType DEF DisableAuto, TypeOK, locals
  <2> QED
    BY <1>5, <2>1, <2>2, <2>3 DEF DisableAuto, TypeOK
<1>6. ASSUME NEW t \in Threads, StoreDisabled(t) PROVE TypeOK'
  BY <1>6, GotoType DEF StoreDisabled, TypeOK, hw, locals
<1>7. ASSUME NEW t \in Threads, ReadSpeed(t) PROVE TypeOK'
  <2>1. next[t] \in Word /\ next' \in [Threads -> Nat]
    BY <1>7 DEF ReadSpeed, TypeOK, Present
  <2>2. snap' \in [Threads -> [Word -> Duties]]
    <3>1. shown[next[t]] \in Duties
      BY <2>1 DEF TypeOK
    <3>2. [snap[t] EXCEPT ![next[t]] = shown[next[t]]] \in [Word -> Duties]
      BY <2>1, <3>1, ExceptType DEF TypeOK
    <3>3. [snap EXCEPT ![t] = [snap[t] EXCEPT ![next[t]] = shown[next[t]]]]
             \in [Threads -> [Word -> Duties]]
      BY <3>2, ExceptType DEF TypeOK
    <3> QED
      BY <1>7, <3>3 DEF ReadSpeed, TypeOK
  <2>3. tainted' \in [Threads -> BOOLEAN]
    BY <1>7 DEF ReadSpeed, TypeOK
  <2> QED
    BY <1>7, <2>1, <2>2, <2>3 DEF ReadSpeed, TypeOK, hw
<1>8. ASSUME NEW t \in Threads, SelectFan(t) PROVE TypeOK'
  <2>1. /\ pc' \in [Threads -> Pcs]
        /\ fan' \in [Threads -> Nat]
        /\ duty' \in [Threads -> Duties]
        /\ snap' \in [Threads -> [Word -> Duties]]
        /\ next' \in [Threads -> Nat]
    BY <1>8, GotoType, ReturnType DEF SelectFan, TypeOK, locals
  <2> QED
    BY <1>8, <2>1 DEF SelectFan, TypeOK, hw
<1>9. ASSUME NEW t \in Threads, WriteSpeeds(t) PROVE TypeOK'
  <2>1. /\ pc' \in [Threads -> Pcs]
        /\ fan' \in [Threads -> Nat]
        /\ duty' \in [Threads -> Duties]
        /\ snap' \in [Threads -> [Word -> Duties]]
        /\ next' \in [Threads -> Nat]
    BY <1>9, GotoType, ReturnType DEF WriteSpeeds, TypeOK, locals
  <2>2. target' \in [Word -> Duties]
    <3>1. duty[t] \in Duties /\ snap[t] \in [Word -> Duties]
      BY DEF TypeOK
    <3>2. [snap[t] EXCEPT ![fan[t]] = duty[t]] \in [Word -> Duties]
      BY <3>1
    <3> QED
      BY <1>9, <3>2 DEF WriteSpeeds, TypeOK
  <2>3. tainted' \in [Threads -> BOOLEAN]
    BY <1>9, TaintType DEF WriteSpeeds, TypeOK
  <2> QED
    BY <1>9, <2>1, <2>2, <2>3 DEF WriteSpeeds, TypeOK
<1>10. ASSUME NEW t \in Threads, Settled(t) PROVE TypeOK'
  BY <1>10, ReturnType DEF Settled, TypeOK, hw
<1>11. ASSUME NEW t \in Threads, EnableAuto(t) PROVE TypeOK'
  <2>1. /\ pc' \in [Threads -> Pcs]
        /\ fan' \in [Threads -> Nat]
        /\ duty' \in [Threads -> Duties]
        /\ snap' \in [Threads -> [Word -> Duties]]
        /\ next' \in [Threads -> Nat]
    BY <1>11, GotoType, ReturnType DEF EnableAuto, TypeOK, locals
  <2>2. tainted' \in [Threads -> BOOLEAN]
    BY <1>11, TaintType DEF EnableAuto, TypeOK
  <2> QED
    BY <1>11, <2>1, <2>2 DEF EnableAuto, TypeOK
<1>12. ASSUME NEW t \in Threads, StoreEnabled(t) PROVE TypeOK'
  BY <1>12, ReturnType DEF StoreEnabled, TypeOK, hw
<1>13. ASSUME Tick PROVE TypeOK'
  <2>1. pc' \in [Threads -> Pcs]
    BY <1>13, GotoType DEF Tick, Threads
  <2> QED
    BY <1>13, <2>1 DEF Tick, TypeOK, hw, locals
<1>14. ASSUME NextCurve PROVE TypeOK'
  <2>1. /\ Head(rest) \in Nat
        /\ rest' \in Seq(FanIds)
        /\ Job \in Threads
    <3>1. rest \in Seq(FanIds) /\ rest # <<>>
      BY <1>14 DEF NextCurve, TypeOK
    <3>2. Head(rest) \in FanIds /\ Tail(rest) \in Seq(FanIds)
      BY ONLY <3>1
    <3> QED
      BY <1>14, <3>2 DEF NextCurve, Threads
  <2>2. CASE UNCHANGED <<pc, locals>>
    BY <1>14, <2>1, <2>2 DEF NextCurve, TypeOK, hw, locals
  <2>3. ASSUME NEW d \in Duties, Call(Job, Head(rest), d) PROVE TypeOK'
    BY <1>14, <2>1, <2>3, CallType DEF NextCurve, TypeOK, hw
  <2> QED
    BY <1>14, <2>2, <2>3 DEF NextCurve
<1>15. ASSUME EndTick PROVE TypeOK'
  <2>1. pc' \in [Threads -> Pcs]
    BY <1>15, GotoType DEF EndTick, Threads
  <2> QED
    BY <1>15, <2>1 DEF EndTick, TypeOK, hw, locals
<1>16. ASSUME Controller PROVE TypeOK'
  BY <1>16 DEF Controller, TypeOK, locals
<1>17. CASE UNCHANGED vars
  BY <1>17 DEF vars, TypeOK
<1> QED
  BY <1>1, <1>2, <1>3, <1>4, <1>5, <1>6, <1>7, <1>8, <1>9, <1>10, <1>11,
     <1>12, <1>13, <1>14, <1>15, <1>16, <1>17
     DEF Next, Request, SpeedStep, AutoStep, JobStep

-----------------------------------------------------------------------------
\* A thread that moves to a label outside of every fan operation, or to the
\* first label of one, without touching shared state.
QuietTo(t, label) ==
    /\ pc[t] # "storeFalse"
    /\ pc[t] = "settle" => mode = "auto" \/ shown = target
    /\ label \in {"idle", "curves", "check", "autoIoctl"}
    /\ pc' = [pc EXCEPT ![t] = label]
    /\ \A u \in Threads \ {t} : next'[u] = next[u] /\ snap'[u] = snap[u]
    /\ next'[t] = 0 \/ label # "check"
    /\ UNCHANGED <<autoDisabled, mode, target, shown, tainted, suspect>>

LEMMA QuietStep ==
    ASSUME IInv, TypeOK', NEW t \in Threads, NEW label, QuietTo(t, label)
    PROVE  IInv'
<1> USE DEF IInv, QuietTo
<1>1. /\ \A u \in Threads \ {t} : pc'[u] = pc[u]
      /\ pc'[t] = label
  BY DEF TypeOK
<1>2. FreshLocals'
  BY <1>1 DEF FreshLocals
<1>3. AllRead'
  BY <1>1 DEF AllRead, Present
<1>4. AloneInv'
  BY <1>1 DEF AloneInv, InSpeed
<1>5. StoreInv' /\ ReadInv'
  BY <1>1 DEF StoreInv, ReadInv
<1>6. StaleFlagOnlyByRace'
  BY <1>1 DEF StaleFlagOnlyByRace
<1>7. ShownInv'
  BY <1>1 DEF ShownInv
<1>8. SnapInv'
  BY <1>1 DEF SnapInv, Present
<1> QED
  BY <1>2, <1>3, <1>4, <1>5, <1>6, <1>7, <1>8

\* The calls that only end an operation do so quietly.
LEMMA ReturnQuiet ==
    ASSUME TypeOK, NEW t \in Threads, Return(t),
           pc[t] # "storeFalse",
           pc[t] = "settle" => mode = "auto" \/ shown = target,
           UNCHANGED <<autoDisabled, hw, tainted, suspect>>
    PROVE  QuietTo(t, IF t = Job THEN "curves" ELSE "idle")
BY DEF TypeOK, Return, Locals, Goto, QuietTo, hw

LEMMA CallQuiet ==
    ASSUME TypeOK, NEW t \in Threads, NEW f, NEW d, Call(t, f, d),
           pc[t] \notin {"storeFalse", "settle"},
           UNCHANGED <<autoDisabled, hw, tainted, suspect>>
    PROVE  QuietTo(t, "check")
BY DEF TypeOK, Call, Locals, Goto, QuietTo, hw

LEMMA GotoQuiet ==
    ASSUME TypeOK, NEW t \in Threads,
           NEW label \in {"idle", "curves", "autoIoctl"}, Goto(t, label),
           pc[t] \notin {"storeFalse", "settle"},
           UNCHANGED <<autoDisabled, hw, locals, tainted, suspect>>
    PROVE  QuietTo(t, label)
BY DEF TypeOK, Goto, QuietTo, hw, locals

-----------------------------------------------------------------------------
\* The operation that loads the flag joins the readers only when the flag is
\* to be trusted or when it is tainted.
LEMMA CheckFlagStep ==
    ASSUME IInv, TypeOK', NEW t \in Threads, CheckFlag(t)
    PROVE  IInv'
<1> USE DEF IInv, CheckFlag, Goto, hw, locals
<1>1. \A u \in Threads \ {t} : pc'[u] = pc[u] /\ tainted'[u] = tainted[u]
  BY DEF TypeOK
<1>2. /\ pc[t] = "check"
      /\ pc'[t] = IF autoDisabled THEN "read" ELSE "disable"
      /\ ~tainted'[t] =>
           \A u \in Threads \ {t} : pc[u] \notin {"storeFalse", "settle"}
  BY DEF TypeOK
<1>3. FreshLocals' /\ AllRead'
  BY <1>1, <1>2 DEF FreshLocals, AllRead, Present
<1>4. AloneInv'
  BY <1>1, <1>2 DEF AloneInv, InSpeed
<1>5. StoreInv' /\ StaleFlagOnlyByRace'
  BY <1>1, <1>2 DEF StoreInv, StaleFlagOnlyByRace
<1>6. ReadInv'
  <2>1. mode \in {"auto", "manual"}
    BY DEF TypeOK
  <2>2. CASE autoDisabled /\ ~suspect /\ ~tainted'[t]
    <3>1. \A u \in Threads : pc[u] # "storeFalse"
      BY <1>2, <2>2
    <3> QED
      BY <1>1, <1>2, <2>1, <2>2, <3>1 DEF ReadInv, StaleFlagOnlyByRace
  <2> QED
    BY <1>1, <1>2, <2>2 DEF ReadInv
<1>7. ShownInv'
  BY <1>1, <1>2 DEF ShownInv
<1>8. SnapInv'
  <2>1. next[t] = 0
    BY <1>2 DEF FreshLocals
  <2>2. \A f \in Present : ~(f < next[t])
    BY <2>1 DEF Present, Word
  <2> QED
    BY <1>1, <1>2, <2>2 DEF SnapInv, Present
<1> QED
  BY <1>3, <1>4, <1>5, <1>6, <1>7, <1>8

LEMMA DisableAutoStep ==
    ASSUME IInv, TypeOK', NEW t \in Threads, DisableAuto(t)
    PROVE  IInv'
<1>1. CASE Return(t) /\ UNCHANGED <<mode, target, tainted>>
  <2>1. QuietTo(t, IF t = Job THEN "curves" ELSE "idle")
    BY <1>1, ReturnQuiet DEF IInv, DisableAuto, hw
  <2> QED
    BY <2>1, QuietStep
<1>2. CASE /\ mode' = "manual"
           /\ target' = IF mode = "auto" THEN shown ELSE target
           /\ tainted' = [u \in Threads |-> \/ tainted[u]
                                           \/ /\ u # t /\ mode = "auto"
                                              /\ pc[u] \in {"read", "write"}]
           /\ Goto(t, "storeTrue")
           /\ UNCHANGED locals
  <2> USE DEF IInv, DisableAuto, Goto, locals
  <2>1. \A u \in Threads \ {t} : pc'[u] = pc[u]
    BY <1>2 DEF TypeOK
  <2>2. /\ pc[t] = "disable" /\ pc'[t] = "storeTrue"
        /\ mode' = "manual"
        /\ tainted'[t] = tainted[t]
    BY <1>2 DEF TypeOK
  <2>3. \A u \in Threads : tainted[u] => tainted'[u]
    BY <1>2 DEF TypeOK
  <2>4. UNCHANGED <<autoDisabled, shown, fan, duty, snap, next, suspect>>
    BY <1>2
  <2>5. mode = "auto" => target' = shown
    BY <1>2
  <2>6. mode # "auto" => target' = target
    BY <1>2
  <2>7. \A u \in Threads \ {t} :
          pc[u] \in {"read", "write"} /\ mode = "auto" => tainted'[u]
    BY <1>2 DEF TypeOK
  <2> HIDE DEF DisableAuto
  <2>8. FreshLocals' /\ AllRead'
    BY <2>1, <2>2, <2>4 DEF FreshLocals, AllRead, Present
  <2>9. AloneInv'
    BY <2>1, <2>2, <2>3 DEF AloneInv, InSpeed
  <2>10. StoreInv' /\ StaleFlagOnlyByRace' /\ ReadInv'
    BY <2>2 DEF StoreInv, StaleFlagOnlyByRace, ReadInv
  <2>11. ShownInv'
    BY <2>1, <2>2, <2>4, <2>5, <2>6 DEF ShownInv, TypeOK
  <2>12. SnapInv'
    <3> SUFFICES ASSUME NEW u \in Threads, pc'[u] \in {"read", "write"},
                        ~tainted'[u], NEW f \in Present', f < next'[u]
                 PROVE  snap'[u][f] = target'[f]
      BY DEF SnapInv
    <3>1. u # t /\ pc[u] \in {"read", "write"} /\ ~tainted[u]
      BY <2>1, <2>2, <2>3
    <3>2. mode # "auto"
      BY <2>7, <3>1
    <3>3. mode = "manual"
      BY <3>2 DEF TypeOK
    <3>4. f \in Present /\ f < next[u]
      BY <2>4 DEF Present
    <3>5. snap[u][f] = target[f]
      BY <3>1, <3>3, <3>4 DEF SnapInv
    <3> QED
      BY <2>4, <2>6, <3>2, <3>5
  <2> QED
    BY <2>8, <2>9, <2>10, <2>11, <2>12
<1> QED
  BY <1>1, <1>2 DEF DisableAuto

LEMMA StoreDisabledStep ==
    ASSUME IInv, TypeOK', NEW t \in Threads, StoreDisabled(t)
    PROVE  IInv'
<1> USE DEF IInv, StoreDisabled, Goto, hw, locals
<1>1. \A u \in Threads \ {t} : pc'[u] = pc[u]
  BY DEF TypeOK
<1>2. pc[t] = "storeTrue" /\ pc'[t] = "read"
  BY DEF TypeOK
<1>3. FreshLocals' /\ AllRead'
  BY <1>1, <1>2 DEF FreshLocals, AllRead, Present
<1>4. AloneInv'
  BY <1>1, <1>2 DEF AloneInv, InSpeed
<1>5. StoreInv' /\ StaleFlagOnlyByRace'
  BY <1>1, <1>2 DEF StoreInv, StaleFlagOnlyByRace
<1>6. ReadInv'
  BY <1>1, <1>2 DEF ReadInv, StoreInv
<1>7. ShownInv'
  BY <1>1, <1>2 DEF ShownInv
<1>8. SnapInv'
  <2>1. next[t] = 0
    BY <1>2 DEF FreshLocals
  <2>2. \A f \in Present : ~(f < next[t])
    BY <2>1 DEF Present, Word
  <2> QED
    BY <1>1, <1>2, <2>2 DEF SnapInv, Present
<1> QED
  BY <1>3, <1>4, <1>5, <1>6, <1>7, <1>8

LEMMA ReadSpeedStep ==
    ASSUME IInv, TypeOK', NEW t \in Threads, ReadSpeed(t)
    PROVE  IInv'
<1> USE DEF IInv, ReadSpeed, hw
<1>1. \A u \in Threads \ {t} :
        next'[u] = next[u] /\ snap'[u] = snap[u] /\ tainted'[u] = tainted[u]
  BY DEF TypeOK
<1>2. /\ pc' = pc /\ pc[t] = "read" /\ next[t] \in Present
      /\ next'[t] = next[t] + 1
      /\ tainted[t] => tainted'[t]
      /\ \/ snap'[t] = [snap[t] EXCEPT ![next[t]] = shown[next[t]]]
         \/ tainted'[t]
  BY DEF TypeOK
<1>3. FreshLocals' /\ AllRead'
  BY <1>1, <1>2 DEF FreshLocals, AllRead, Present
<1>4. AloneInv' /\ StoreInv' /\ ReadInv'
  BY <1>1, <1>2 DEF AloneInv, InSpeed, StoreInv, ReadInv
<1>5. StaleFlagOnlyByRace' /\ ShownInv'
  BY <1>2 DEF StaleFlagOnlyByRace, ShownInv
<1>6. SnapInv'
  <2>1. CASE ~tainted'[t] /\ mode = "manual"
    <3>1. shown = target
      BY <1>2, <2>1 DEF AloneInv, InSpeed, ShownInv
    <3>2. \A f \in Present : f < next[t] => snap[t][f] = target[f]
      BY <1>2, <2>1 DEF SnapInv
    <3>3. ASSUME NEW f \in Present, f < next'[t]
          PROVE  snap'[t][f] = target[f]
      <4>1. f < next[t] \/ f = next[t]
        BY <1>2, <3>3, FanAssumption DEF TypeOK, Present, Word
      <4>2. f \in Word /\ snap[t] \in [Word -> Duties]
        BY DEF TypeOK, Present
      <4>3. snap'[t] = [snap[t] EXCEPT ![next[t]] = shown[next[t]]]
        BY <1>2, <2>1
      <4>4. CASE f = next[t]
        BY <3>1, <4>2, <4>3, <4>4
      <4>5. CASE f # next[t]
        BY <3>2, <4>1, <4>2, <4>3, <4>5
      <4> QED
        BY <4>4, <4>5
    <3> QED
      BY <1>1, <1>2, <3>3 DEF SnapInv, Present
  <2> QED
    BY <1>1, <1>2, <2>1 DEF SnapInv, Present
<1> QED
  BY <1>3, <1>4, <1>5, <1>6

LEMMA SelectFanStep ==
    ASSUME IInv, TypeOK', NEW t \in Threads, SelectFan(t)
    PROVE  IInv'
<1>1. CASE fan[t] \notin Word /\ Return(t)
  <2>1. QuietTo(t, IF t = Job THEN "curves" ELSE "idle")
    BY <1>1, ReturnQuiet DEF IInv, SelectFan, hw
  <2> QED
    BY <2>1, QuietStep
<1>2. CASE fan[t] \in Word /\ Goto(t, "write") /\ UNCHANGED locals
  <2> USE DEF IInv, SelectFan, Goto, locals, hw
  <2>1. \A u \in Threads \ {t} : pc'[u] = pc[u]
    BY <1>2 DEF TypeOK
  <2>2. pc[t] = "read" /\ pc'[t] = "write" /\ next[t] \notin Present
    BY <1>2 DEF TypeOK
  <2>3. FreshLocals' /\ AllRead'
    BY <1>2, <2>1, <2>2 DEF FreshLocals, AllRead, Present
  <2>4. AloneInv' /\ StoreInv' /\ ReadInv'
    BY <1>2, <2>1, <2>2 DEF AloneInv, InSpeed, StoreInv, ReadInv
  <2>5. StaleFlagOnlyByRace' /\ ShownInv'
    BY <1>2, <2>1, <2>2 DEF StaleFlagOnlyByRace, ShownInv
  <2>6. SnapInv'
    BY <1>2, <2>1, <2>2 DEF SnapInv, Present
  <2> QED
    BY <2>3, <2>4, <2>5, <2>6
<1> QED
  BY <1>1, <1>2 DEF SelectFan

LEMMA WriteSpeedsStep ==
    ASSUME IInv, TypeOK', NEW t \in Threads, WriteSpeeds(t)
    PROVE  IInv'
<1>1. CASE Return(t) /\ UNCHANGED <<target, tainted>>
  <2>1. QuietTo(t, IF t = Job THEN "curves" ELSE "idle")
    BY <1>1, ReturnQuiet DEF IInv, WriteSpeeds, hw
  <2> QED
    BY <2>1, QuietStep
<1>2. CASE Goto(t, "settle") /\ TaintOthers(t) /\ UNCHANGED locals
  <2> USE DEF IInv, WriteSpeeds, Goto, TaintOthers, locals
  <2>1. \A u \in Threads \ {t} :
          /\ pc'[u] = pc[u]
          /\ pc[u] \in SpeedPcs => tainted'[u]
          /\ tainted[u] => tainted'[u]
    BY <1>2 DEF TypeOK
  <2>2. pc[t] = "write" /\ pc'[t] = "settle"
    BY <1>2 DEF TypeOK
  <2>3. UNCHANGED <<autoDisabled, mode, suspect, next>>
    BY <1>2
  <2> HIDE DEF WriteSpeeds, TaintOthers, Goto
  <2>4. FreshLocals' /\ AllRead'
    BY <2>1, <2>2, <2>3 DEF FreshLocals, AllRead, Present
  <2>5. AloneInv' /\ StoreInv' /\ ReadInv'
    BY <2>1, <2>2, <2>3
       DEF AloneInv, InSpeed, SpeedPcs, StoreInv, ReadInv
  <2>6. StaleFlagOnlyByRace' /\ ShownInv'
    BY <2>1, <2>2, <2>3 DEF StaleFlagOnlyByRace, ShownInv
  <2>7. SnapInv'
    BY <2>1, <2>2 DEF SnapInv, SpeedPcs
  <2> QED
    BY <2>4, <2>5, <2>6, <2>7
<1> QED
  BY <1>1, <1>2 DEF WriteSpeeds

LEMMA EnableAutoStep ==
    ASSUME IInv, TypeOK', NEW t \in Threads, EnableAuto(t)
    PROVE  IInv'
<1>1. CASE Return(t) /\ UNCHANGED <<mode, tainted>>
  <2>1. QuietTo(t, IF t = Job THEN "curves" ELSE "idle")
    BY <1>1, ReturnQuiet DEF IInv, EnableAuto, hw
  <2> QED
    BY <2>1, QuietStep
<1>2. CASE /\ mode' = "auto" /\ Goto(t, "storeFalse") /\ TaintOthers(t)
           /\ UNCHANGED locals
  <2> USE DEF IInv, EnableAuto, Goto, TaintOthers, locals
  <2>1. \A u \in Threads \ {t} :
          /\ pc'[u] = pc[u]
          /\ pc[u] \in SpeedPcs => tainted'[u]
    BY <1>2 DEF TypeOK
  <2>2. pc[t] = "autoIoctl" /\ pc'[t] = "storeFalse"
    BY <1>2 DEF TypeOK
  <2>3. UNCHANGED <<suspect, next>> /\ mode' = "auto"
    BY <1>2
  <2> HIDE DEF EnableAuto, TaintOthers, Goto
  <2>4. FreshLocals' /\ AllRead'
    BY <2>1, <2>2, <2>3 DEF FreshLocals, AllRead, Present
  <2>5. AloneInv' /\ StoreInv' /\ ReadInv'
    BY <2>1, <2>2, <2>3
       DEF AloneInv, InSpeed, SpeedPcs, StoreInv, ReadInv
  <2>6. StaleFlagOnlyByRace' /\ ShownInv' /\ SnapInv'
    BY <2>2, <2>3 DEF StaleFlagOnlyByRace, ShownInv, SnapInv
  <2> QED
    BY <2>4, <2>5, <2>6
<1> QED
  BY <1>1, <1>2 DEF EnableAuto

LEMMA StoreEnabledStep ==
    ASSUME IInv, TypeOK', NEW t \in Threads, StoreEnabled(t)
    PROVE  IInv'
<1> USE DEF IInv, StoreEnabled, Return, Goto, Locals, hw
<1>1. \A u \in Threads \ {t} :
        pc'[u] = pc[u] /\ next'[u] = next[u] /\ snap'[u] = snap[u]
  BY DEF TypeOK
<1>2. pc[t] = "storeFalse" /\ pc'[t] \in {"idle", "curves"}
  BY DEF TypeOK
<1>3. FreshLocals' /\ AllRead'
  BY <1>1, <1>2 DEF FreshLocals, AllRead, Present
<1>4. AloneInv' /\ StoreInv'
  BY <1>1, <1>2 DEF AloneInv, InSpeed, StoreInv
<1>5. ReadInv'
  BY <1>1, <1>2 DEF ReadInv, AloneInv, InSpeed
<1>6. StaleFlagOnlyByRace' /\ ShownInv'
  BY <1>1, <1>2 DEF StaleFlagOnlyByRace, ShownInv
<1>7. SnapInv'
  BY <1>1, <1>2 DEF SnapInv, Present
<1> QED
  BY <1>3, <1>4, <1>5, <1>6, <1>7

-----------------------------------------------------------------------------
\* IInv is inductive.
LEMMA InductiveStep == IInv /\ [Next]_vars => IInv'
<1> SUFFICES ASSUME IInv, [Next]_vars PROVE IInv'
  OBVIOUS
<1>0. TypeOK /\ TypeOK'
  BY TypeStep DEF IInv
<1>1. ASSUME NEW t \in Threads, SetFanSpeed(t) PROVE IInv'
  <2>1. QuietTo(t, "check")
    BY <1>0, <1>1, CallQuiet DEF SetFanSpeed
  <2> QED
    BY <1>0, <2>1, QuietStep
<1>2. ASSUME NEW t \in Threads, SetFanAuto(t) PROVE IInv'
  <2>1. QuietTo(t, "autoIoctl")
    BY <1>0, <1>2, GotoQuiet DEF SetFanAuto
  <2> QED
    BY <1>0, <2>1, QuietStep
<1>3. ASSUME NEW t \in Threads, ApplyFanSettings(t) PROVE IInv'
  <2>1. Goto(t, "idle") \/ Goto(t, "autoIoctl")
    BY <1>0, <1>3 DEF ApplyFanSettings, Goto, TypeOK
  <2>2. QuietTo(t, "idle") \/ QuietTo(t, "autoIoctl")
    BY <1>0, <1>3, <2>1, GotoQuiet DEF ApplyFanSettings
  <2> QED
    BY <1>0, <2>2, QuietStep
<1>4. ASSUME NEW t \in Threads, SpeedStep(t) PROVE IInv'
  <2>1. CASE Settled(t)
    <3>1. QuietTo(t, IF t = Job THEN "curves" ELSE "idle")
      BY <1>0, <2>1, ReturnQuiet DEF Settled
    <3> QED
      BY <1>0, <3>1, QuietStep
  <2> QED
    BY <1>0, <1>4, <2>1, CheckFlagStep, DisableAutoStep, StoreDisabledStep,
       ReadSpeedStep, SelectFanStep, WriteSpeedsStep DEF SpeedStep
<1>5. ASSUME NEW t \in Threads, AutoStep(t) PROVE IInv'
  BY <1>0, <1>5, EnableAutoStep, StoreEnabledStep DEF AutoStep
<1>6. ASSUME JobStep PROVE IInv'
  <2>1. Job \in Threads
    BY DEF Threads
  <2>2. CASE Tick
    <3>1. QuietTo(Job, "curves")
      BY <1>0, <2>1, <2>2, GotoQuiet DEF Tick
    <3> QED
      BY <1>0, <2>1, <3>1, QuietStep
  <2>3. CASE NextCurve
    <3>1. CASE UNCHANGED <<pc, locals>>
      <4>1. QuietTo(Job, "curves")
        BY <1>0, <2>1, <2>3, <3>1 DEF NextCurve, QuietTo, TypeOK, locals, hw
      <4> QED
        BY <1>0, <2>1, <4>1, QuietStep
    <3>2. ASSUME NEW d \in Duties, Call(Job, Head(rest), d) PROVE IInv'
      <4>1. QuietTo(Job, "check")
        BY <1>0, <2>1, <2>3, <3>2, CallQuiet DEF NextCurve
      <4> QED
        BY <1>0, <2>1, <4>1, QuietStep
    <3> QED
      BY <2>3, <3>1, <3>2 DEF NextCurve
  <2>4. CASE EndTick
    <3>1. QuietTo(Job, "idle")
      BY <1>0, <2>1, <2>4, GotoQuiet DEF EndTick
    <3> QED
      BY <1>0, <2>1, <3>1, QuietStep
  <2> QED
    BY <1>6, <2>2, <2>3, <2>4 DEF JobStep
<1>7. ASSUME Controller PROVE IInv'
  <2>1. UNCHANGED <<autoDisabled, mode, target, pc, fan, snap, next, tainted, suspect>>
    BY <1>7 DEF Controller, locals
  <2>2. mode = "manual" => shown' = target
    BY <1>7 DEF Controller
  <2> QED
    BY <1>0, <2>1, <2>2 DEF IInv, FreshLocals, AllRead, AloneInv, StoreInv,
       StaleFlagOnlyByRace, ReadInv, ShownInv, SnapInv
<1>8. CASE UNCHANGED vars
  BY <1>0, <1>8 DEF vars, IInv, FreshLocals, AllRead, AloneInv, StoreInv,
     StaleFlagOnlyByRace, ReadInv, ShownInv, SnapInv
<1> QED
  BY <1>1, <1>2, <1>3, <1>4, <1>5, <1>6, <1>7, <1>8 DEF Next, Request

LEMMA InitIInv == Init => IInv
<1> SUFFICES ASSUME Init PROVE IInv
  OBVIOUS
<1>1. \A t \in Threads : pc[t] = "idle" /\ next[t] = 0
  BY DEF Init
<1>2. TypeOK
  <2>1. rest \in Seq(FanIds)
    BY DEF Init
  <2>2. [f \in Word |-> Off] \in [Word -> Duties]
    BY FanAssumption
  <2> QED
    BY <2>1, <2>2, Labels, FanAssumption DEF Init, TypeOK
<1>3. FreshLocals /\ AllRead /\ AloneInv /\ StoreInv /\ ReadInv /\ SnapInv
  BY <1>1 DEF FreshLocals, AllRead, AloneInv, InSpeed, StoreInv, ReadInv, SnapInv
<1>4. StaleFlagOnlyByRace /\ ShownInv
  BY DEF Init, StaleFlagOnlyByRace, ShownInv
<1> QED
  BY <1>2, <1>3, <1>4 DEF IInv

LEMMA Invariance == Spec => []IInv
BY InitIInv, InductiveStep, PTL DEF Spec

\* Type correctness of the fan path.
THEOREM TypeCorrect == Spec => []TypeOK
BY Invariance, PTL DEF IInv

\* However many callers there are, CLEVO_AUTO_DISABLED is wrong about the
\* hardware only while a set_fan_auto is about to store, or after the one race.
THEOREM FlagTheorem == Spec => []StaleFlagOnlyByRace
BY Invariance, PTL DEF IInv

\* An undisturbed set_fan_speed writes to a controller in manual mode.
THEOREM WriteTheorem == Spec => []NoBlindWrite
<1>1. IInv => NoBlindWrite
  BY DEF IInv, ReadInv, NoBlindWrite
<1> QED
  BY <1>1, Invariance, PTL

\* A thread gets from the write to the delay after it only by the write ioctl.
LEMMA OnlyWriteSettles ==
    ASSUME TypeOK, [Next]_vars, NEW t \in Threads,
           pc[t] = "write", pc'[t] = "settle"
    PROVE  WriteSpeeds(t)
<1> USE DEF TypeOK, Goto
<1>1. ASSUME NEW u \in Threads, NEW label, Goto(u, label), label # "settle"
      PROVE  FALSE
  BY <1>1
<1>2. ASSUME NEW u \in Threads, Return(u) PROVE FALSE
  BY <1>1, <1>2 DEF Return
<1>3. pc' # pc
  OBVIOUS
<1>4. ASSUME NEW u \in Threads, Request(u) PROVE FALSE
  BY <1>1, <1>3, <1>4
     DEF Request, SetFanSpeed, SetFanAuto, ApplyFanSettings, Call
<1>5. ASSUME NEW u \in Threads, AutoStep(u) PROVE FALSE
  BY <1>1, <1>2, <1>5 DEF AutoStep, EnableAuto, StoreEnabled
<1>6. ASSUME JobStep PROVE FALSE
  BY <1>1, <1>3, <1>6 DEF JobStep, Tick, NextCurve, EndTick, Call, Threads
<1>7. ASSUME Controller PROVE FALSE
  BY <1>3, <1>7 DEF Controller
<1>8. ASSUME NEW u \in Threads, SpeedStep(u) PROVE WriteSpeeds(t)
  <2>1. WriteSpeeds(u)
    BY <1>1, <1>2, <1>3, <1>8 DEF SpeedStep, CheckFlag, DisableAuto,
       StoreDisabled, ReadSpeed, SelectFan, Settled
  <2>2. u = t
    BY <1>2, <2>1 DEF WriteSpeeds
  <2> QED
    BY <2>1, <2>2
<1> QED
  BY <1>3, <1>4, <1>5, <1>6, <1>7, <1>8 DEF Next, vars

\* An undisturbed read-modify-write of the speed word preserves the duties of
\* the other fans.
THEOREM PreservationTheorem == Spec => OthersPreserved
<1>1. ASSUME IInv, [Next]_vars, NEW t \in Threads,
             pc[t] = "write", pc'[t] = "settle", mode = "manual", ~tainted[t]
      PROVE  \A f \in Present \ {fan[t]} : target'[f] = target[f]
  <2>1. WriteSpeeds(t)
    BY <1>1, OnlyWriteSettles DEF IInv
  <2>2. target' = [snap[t] EXCEPT ![fan[t]] = duty[t]]
    <3>1. ~Return(t)
      <4>1. TypeOK
        BY <1>1 DEF IInv
      <4> QED
        BY <1>1, <4>1 DEF Return, Goto, TypeOK
    <3> QED
      BY <2>1, <3>1 DEF WriteSpeeds
  <2>3. snap[t] \in [Word -> Duties] /\ next[t] \in Nat
    BY <1>1 DEF IInv, TypeOK
  <2>4. \A f \in Present : f < next[t]
    BY <1>1, <2>3, FanAssumption DEF IInv, AllRead, Present, Word
  <2>5. \A f \in Present : snap[t][f] = target[f]
    BY <1>1, <2>4 DEF IInv, SnapInv
  <2> QED
    BY <2>2, <2>3, <2>5 DEF Present
<1>2. IInv /\ [Next]_vars => [KeepsOthers]_vars
  BY <1>1 DEF KeepsOthers
<1> QED
  BY <1>2, Invariance, PTL DEF Spec, OthersPreserved

=============================================================================
