---------------------------- MODULE ChargeControl ----------------------------
(* Battery charge thresholds: the battery section of the settings page, the *)
(* D-Bus calls that write them one sysfs file after the other, and the      *)
(* flexicharger of the clevo driver, which turns every sysfs write into a   *)
(* read of all three values and a write of all three.                       *)
(*                                                                          *)
(* The page opens a connection of its own for every Apply and forgets it,   *)
(* so calls run concurrently and in any order.  It asks for the driver's    *)
(* lists once, when the GUI starts; without an answer the lists stay empty, *)
(* the page offers nothing to pick and does not validate what it has.       *)
EXTENDS Naturals, Sequences, SequencesExt

CONSTANTS
    Callers,    \* calls that may be under way together
    Starts,     \* start thresholds of the driver, in its order
    Ends,       \* end thresholds of the driver, in its order
    DefaultStart, DefaultEnd,  \* BatterySettings::default()
    Others,     \* thresholds that other clients ask for, one file at a time
    MaxCalls    \* bound on calls

\* The driver's lists ascend, and every end threshold has a start threshold below.
Thresholds(list) ==
    /\ list \in Seq(1 .. 100) /\ list # <<>>
    /\ \A i, j \in DOMAIN list : i < j => list[i] < list[j]

ChargeConstants ==
    /\ Thresholds(Starts) /\ Thresholds(Ends)
    /\ \A i \in DOMAIN Ends : \E j \in DOMAIN Starts : Starts[j] < Ends[i]
    /\ DefaultStart \in ToSet(Starts) /\ DefaultEnd \in ToSet(Ends)
    /\ Others \subseteq Nat /\ MaxCalls \in Nat

VARIABLES
    cc4,        \* the EC has the newer interface, which writes in one step
    ec,         \* status, start and end in the EC
    page,       \* config.battery_settings
    saved,      \* the battery settings in settings.json
    known,      \* the driver's lists have reached the page
    writes,     \* per caller the sysfs writes to do and the driver's progress
    made,       \* number of calls made
    trail       \* history that the property needs

pageVars == <<page, saved, known>>
vars == <<cc4, ec, pageVars, writes, made, trail>>

Distance(a, b) == IF a > b THEN a - b ELSE b - a

\* array_find_closest_u8: the first of the closest.
Closest(v, list) ==
    list[CHOOSE i \in DOMAIN list :
            \A j \in DOMAIN list :
                \/ Distance(v, list[i]) < Distance(v, list[j])
                \/ Distance(v, list[i]) = Distance(v, list[j]) /\ i <= j]

File(name, v) == [file |-> name, value |-> v]

\* What a store function makes of a value.
Stored(w) ==
    CASE w.file = "status" -> w.value
      [] w.file = "start"  -> Closest(w.value, Starts)
      [] w.file = "end"    -> Closest(w.value, Ends)

\* Thresholds above 100 are refused by the daemon, 0 by the driver.
Accepted(w) == w.file # "status" => w.value \in 1 .. 100

\* apply_battery_settings
Writes(s) ==
    IF s.on THEN <<File("status", TRUE), File("start", s.start), File("end", s.end)>>
            ELSE <<File("status", FALSE)>>

\* What a call leaves behind, which writes every file at most once.
Asked(f, old, todo) ==
    LET set == {w \in ToSet(todo) : w.file = f /\ Accepted(w)} IN
    IF set = {} THEN old ELSE Stored(CHOOSE w \in set : TRUE)

After(values, todo) == [status |-> Asked("status", values.status, todo),
                        start  |-> Asked("start", values.start, todo),
                        end    |-> Asked("end", values.end, todo)]

\* What a call leaves that fails with todo unwritten.
Without(asked, before, todo) ==
    [f \in {"status", "start", "end"} |->
        IF \E w \in ToSet(todo) : w.file = f THEN before[f] ELSE asked[f]]

None == [status |-> FALSE, start |-> 0, end |-> 0]
Idle == [todo |-> <<>>, step |-> "read", set |-> None]
Busy(c) == writes[c].todo # <<>>

-----------------------------------------------------------------------------
(* The settings page *)

Below(s) == {v \in ToSet(Starts) : v < s.end}
LastOf(below) == CHOOSE v \in below : \A w \in below : w <= v

\* Mutant: a start threshold equal to the end threshold is let through.
ValidatedAbove(s) ==
    IF known /\ s.on /\ s.start > s.end /\ Below(s) # {}
      THEN [s EXCEPT !.start = LastOf(Below(s))] ELSE s

\* A frame with the thresholds enabled moves a start threshold that is not below
\* the end to the last of the list that is; the driver's list ascends.
Validated(s) ==
    IF known /\ s.on /\ s.start >= s.end /\ Below(s) # {}
      THEN [s EXCEPT !.start = LastOf(Below(s))] ELSE s

\* An edit is saved as it was made, later in the frame it is validated.
Edit(s) ==
    /\ saved' = s
    /\ page' = Validated(s)
    /\ UNCHANGED <<cc4, ec, known, writes, made, trail>>

\* The checkbox; switching it off tells the daemon nothing.
Toggle == Edit([page EXCEPT !.on = ~@])

\* The boxes offer the values of the lists.
PickStart(v) == page.on /\ known /\ Edit([page EXCEPT !.start = v])
PickEnd(v) == page.on /\ known /\ Edit([page EXCEPT !.end = v])

\* A frame without an edit; another setting can be saved with the page's.
Frame ==
    /\ page' = Validated(page)
    /\ saved' \in {saved, page}
    /\ UNCHANGED <<cc4, ec, known, writes, made, trail>>

\* HardwareUpdate::AvailableThresholds
AvailableThresholds ==
    /\ known' = TRUE
    /\ UNCHANGED <<cc4, ec, page, saved, writes, made, trail>>

\* The GUI is started again.
Restart ==
    /\ page' = saved /\ known' = FALSE
    /\ UNCHANGED <<cc4, ec, saved, writes, made, trail>>

-----------------------------------------------------------------------------
(* Calls *)

OnlyStatus(todo) == \A w \in ToSet(todo) : w.file = "status"

\* A call comes in, with both thresholds in order or not.  One that is alone is
\* to change what it names of the EC's values.
Call(c, todo, inOrder) ==
    LET alone == \A d \in Callers : ~Busy(d) IN
    /\ ~Busy(c) /\ made < MaxCalls
    /\ made' = made + 1
    /\ writes' = [writes EXCEPT ![c] = [Idle EXCEPT !.todo = todo]]
    /\ trail' = [asked |-> IF alone THEN After(ec, todo) ELSE trail.asked,
                 before |-> IF alone THEN ec ELSE trail.before,
                 overlapped |-> ~alone,
                 apart |-> alone /\ (inOrder \/ (trail.apart /\ OnlyStatus(todo)))]
    /\ UNCHANGED <<cc4, ec, saved, known>>

\* "Apply Battery Settings", after the frame's validation.
Apply(c) ==
    LET s == Validated(page) IN
    /\ page.on
    /\ page' = s
    /\ Call(c, Writes(s), known)

\* The D-Bus setters of one value, and SetBatterySettings with the control off.
SetOne(c, w) == Call(c, <<w>>, FALSE) /\ UNCHANGED page

End(c) == writes' = [writes EXCEPT ![c] = Idle]

\* What is not written yet of a call: a threshold whose status is still to be
\* saved is.
Unwritten(c) ==
    IF writes[c].step = "save" /\ Head(writes[c].todo).file # "status"
      THEN Tail(writes[c].todo) ELSE writes[c].todo

\* An error ends the call and leaves what was written.  A value out of range is
\* one.
Fail(c) ==
    /\ Busy(c)
    /\ End(c)
    /\ trail' = [trail EXCEPT !.asked = Without(@, trail.before, Unwritten(c)),
                              !.apart = @ /\ OnlyStatus(writes[c].todo)]
    /\ UNCHANGED <<cc4, ec, pageVars, made>>

\* The store functions keep what they are not given as it was.
ReadPrevious(c) ==
    LET w == Head(writes[c].todo) IN
    /\ Busy(c) /\ writes[c].step = "read" /\ Accepted(w)
    /\ writes' = [writes EXCEPT ![c].step = "write",
                              ![c].set = [ec EXCEPT ![w.file] = Stored(w)]]
    /\ UNCHANGED <<cc4, ec, pageVars, made, trail>>

NextFile(c) == [Idle EXCEPT !.todo = Tail(writes[c].todo)]

\* One package with cc4, otherwise the thresholds first ...
WriteThresholds(c) ==
    /\ Busy(c) /\ writes[c].step = "write"
    /\ ec' = IF cc4 THEN writes[c].set ELSE [writes[c].set EXCEPT !.status = ec.status]
    /\ writes' = [writes EXCEPT ![c] = IF cc4 THEN NextFile(c) ELSE [@ EXCEPT !.step = "save"]]
    /\ UNCHANGED <<cc4, pageVars, made, trail>>

\* ... and then the status, which makes the EC save them.
WriteStatus(c) ==
    /\ Busy(c) /\ writes[c].step = "save"
    /\ ec' = [ec EXCEPT !.status = writes[c].set.status]
    /\ writes' = [writes EXCEPT ![c] = NextFile(c)]
    /\ UNCHANGED <<cc4, pageVars, made, trail>>

-----------------------------------------------------------------------------

Settings == [on : BOOLEAN, start : ToSet(Starts), end : ToSet(Ends)]

Init ==
    /\ cc4 \in BOOLEAN
    /\ page = [on |-> FALSE, start |-> DefaultStart, end |-> DefaultEnd]
    /\ saved = page /\ known = FALSE
    /\ ec = [status |-> FALSE, start |-> Starts[1], end |-> Ends[1]]
    /\ writes = [c \in Callers |-> Idle]
    /\ made = 0
    /\ trail = [asked |-> ec, before |-> ec, overlapped |-> FALSE, apart |-> TRUE]

Next ==
    \/ Toggle \/ Frame \/ AvailableThresholds \/ Restart
    \/ \E v \in ToSet(Starts) : PickStart(v)
    \/ \E v \in ToSet(Ends) : PickEnd(v)
    \/ \E c \in Callers :
          \/ Apply(c)
          \/ \E v \in Others : SetOne(c, File("start", v)) \/ SetOne(c, File("end", v))
          \/ \E on \in BOOLEAN : SetOne(c, File("status", on))
          \/ Fail(c) \/ ReadPrevious(c) \/ WriteThresholds(c) \/ WriteStatus(c)

Spec == Init /\ [][Next]_vars

-----------------------------------------------------------------------------
(* Properties *)

\* Every variable keeps its type.
TypeOK ==
    /\ ec \in [status : BOOLEAN, start : ToSet(Starts), end : ToSet(Ends)]
    /\ page \in Settings /\ saved \in Settings /\ known \in BOOLEAN
    /\ \A c \in Callers : Len(writes[c].todo) \in 0 .. 3

\* A call that overlaps no other leaves the EC as it was but for what the call
\* asks; when a write fails, for the files written before it.  And once the page
\* has the driver's lists, a call of it alone leaves charging to start below the
\* threshold where it ends, whatever other clients, overlaps, failed calls or an
\* earlier page without the lists left there, and it stays so while only the
\* status is set.
ThresholdsAsAsked ==
    (\A c \in Callers : ~Busy(c)) =>
        /\ trail.overlapped \/ ec = trail.asked
        /\ trail.apart => ec.start < ec.end
=============================================================================
