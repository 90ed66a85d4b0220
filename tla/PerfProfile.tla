----------------------------- MODULE PerfProfile -----------------------------
(* Performance profiles: SetTdpProfile and the first two stages of          *)
(* ApplyProfile, the shared handle of /dev/tuxedo_io that they go through,  *)
(* and the driver, which keeps the profile of a Uniwill machine in one EC   *)
(* register (0x0751) together with the full fan mode and changes either by  *)
(* reading and writing the register.                                        *)
EXTENDS Naturals, Sequences, SequencesExt

CONSTANT NoName \* model value: no profile name

VARIABLES
    machine,    \* what the machine has
    device,     \* /dev/tuxedo_io exists
    shared,     \* TuxedoIo::shared(): unset, failed or the interface detected
    reg,        \* the profile the hardware runs and the full fan mode
    client,     \* the D-Bus call under way
    fans,       \* what the fan ioctl under way, if any, read from the register
    ghost       \* history that the properties need

vars == <<machine, device, shared, reg, client, fans, ghost>>

Interfaces == {"Clevo", "Uniwill", "None"}

\* get_available_profiles
Available(interface) ==
    CASE interface = "Clevo" ->
            <<"quiet", "power_saving", "performance", "entertainment">>
      [] interface = "Uniwill" ->
            SubSeq(<<"power_save", "enthusiast", "overboost">>, 1, machine.profiles)
      [] interface = "None" -> <<>>

Enthusiast == 2

\* set_performance_profile: ids from 0 on Clevo and from 1 on Uniwill
Settable(interface, id) ==
    CASE interface = "Clevo" -> id <= 3
      [] interface = "Uniwill" -> id \in 1 .. 3
      [] interface = "None" -> FALSE

\* Mutant: positions are counted from 1.
IdFromOne(interface, name) ==
    SelectInSeq(Available(interface), LAMBDA n : n = name)

\* set_tdp_profile passes the position in the list, counted from 0.
Id(interface, name) ==
    SelectInSeq(Available(interface), LAMBDA n : n = name) - 1

Knows(interface, name) == name \in ToSet(Available(interface))

\* TuxedoIo::shared: the first caller opens the device and detects the
\* interface; what it got is kept for good, a failure included.
Shared ==
    IF shared # "unset" THEN {shared}
    ELSE IF device THEN {"failed", "None", machine.interface} ELSE {"failed"}

\* get_current_tdp_profile: only Uniwill can tell.
CurrentProfile ==
    LET names == Available(shared) IN
    IF shared = "Uniwill" /\ reg.mode <= Len(names) THEN names[reg.mode]
    ELSE names[1]

-----------------------------------------------------------------------------
(* The daemon *)

Idle == [step |-> "idle", modes |-> <<>>, saw |-> [mode |-> 0, full |-> FALSE]]

\* The values that uw_set_tdp and the profile ioctl will write.  Machines that
\* need it are put into the enthusiast profile by every TDP limit.
Modes(interface, name, limits) ==
    (IF name = NoName THEN <<>> ELSE <<Id(interface, name)>>)
        \o (IF limits /\ interface = "Uniwill" /\ machine.custom
              THEN <<Enthusiast>> ELSE <<>>)

\* SetTdpProfile(name), or ApplyProfile with a name, TDP limits, both or none.  A
\* profile that cannot be set ends the call.
Start(name, limits) ==
    \E s \in IF name # NoName /\ ~device THEN {shared} ELSE Shared :
       LET able == \/ name = NoName
                   \/ /\ device /\ s \in Interfaces
                      /\ Knows(s, name) /\ Settable(s, Id(s, name))
           modes == IF able /\ s \in Interfaces THEN Modes(s, name, limits) ELSE <<>> IN
       /\ client.step = "idle"
       /\ shared' = s
       /\ client' = IF modes = <<>> THEN Idle
                    ELSE [Idle EXCEPT !.step = "read", !.modes = modes]
       /\ ghost' = IF modes = <<>> THEN ghost
                   ELSE [ghost EXCEPT
                       !.chosen = IF name = NoName THEN @ ELSE name,
                       !.limited = Len(modes) = 2 \/ name = NoName]
       /\ UNCHANGED <<machine, device, reg, fans>>

\* PreviewKeyboardSettings asks for the handle without looking for the device.
PreviewKeyboard ==
    /\ shared' \in Shared
    /\ UNCHANGED <<machine, device, reg, client, fans, ghost>>

\* The Clevo ioctl is one ACPI call; on Uniwill the register is read ...
ReadMode ==
    /\ client.step = "read"
    /\ client' = [client EXCEPT !.step = "write", !.saw = reg]
    /\ UNCHANGED <<machine, device, shared, reg, fans, ghost>>

\* ... and written back with the profile changed.
WriteMode ==
    /\ client.step = "write"
    /\ reg' = [client.saw EXCEPT !.mode = Head(client.modes)]
    /\ client' = IF Len(client.modes) = 1 THEN Idle
                 ELSE [client EXCEPT !.step = "read", !.modes = Tail(@)]
    /\ ghost' = [ghost EXCEPT !.raced = @ \/ fans # {}]
    /\ UNCHANGED <<machine, device, shared, fans>>

-----------------------------------------------------------------------------
(* The fans of a Uniwill machine without universal fan control *)

\* W_UW_FANSPEED and W_UW_FANAUTO read the register first.
ReadFanMode ==
    /\ device /\ shared = "Uniwill" /\ machine.fullFanMode
    /\ fans = {}
    /\ fans' = {reg}
    /\ UNCHANGED <<machine, device, shared, reg, client, ghost>>

\* Then full fan mode is switched on for a speed, unless it is on, or off for auto.
WriteFanMode(full) ==
    \E saw \in fans :
       /\ reg' = IF full /\ saw.full THEN reg ELSE [saw EXCEPT !.full = full]
       /\ fans' = {}
       /\ UNCHANGED <<machine, device, shared, client, ghost>>

\* The driver is loaded after the daemon was started.
LoadDriver ==
    /\ ~device /\ device' = TRUE
    /\ UNCHANGED <<machine, shared, reg, client, fans, ghost>>

-----------------------------------------------------------------------------

Machines == [interface : Interfaces, profiles : {0, 2, 3}, custom : BOOLEAN,
             fullFanMode : BOOLEAN]

\* main() opens the device when it is there.
Init ==
    /\ machine \in Machines
    /\ device \in BOOLEAN
    /\ shared \in IF device THEN {"failed", "None", machine.interface} ELSE {"unset"}
    /\ reg \in [mode : 1 .. 3, full : {FALSE}]
    /\ client = Idle
    /\ fans = {}
    /\ ghost = [chosen |-> NoName, limited |-> FALSE, raced |-> FALSE]

Names == ToSet(Available("Clevo")) \cup {"power_save", "enthusiast", "overboost"}

Next ==
    \/ \E name \in Names \cup {NoName}, limits \in BOOLEAN : Start(name, limits)
    \/ PreviewKeyboard \/ ReadMode \/ WriteMode
    \/ ReadFanMode \/ \E full \in BOOLEAN : WriteFanMode(full)
    \/ LoadDriver

Spec == Init /\ [][Next]_vars

-----------------------------------------------------------------------------
(* Properties *)

TypeOK ==
    /\ shared \in Interfaces \cup {"unset", "failed"}
    /\ reg \in [mode : 0 .. 3, full : BOOLEAN]
    /\ client.step \in {"idle", "read", "write"} /\ Len(client.modes) \in 0 .. 2
    /\ \A saw \in fans : saw \in [mode : 0 .. 3, full : BOOLEAN]

\* The mode that each name ends up as; on Uniwill it is the one below the name's.
Runs == [quiet |-> 0, power_saving |-> 1, performance |-> 2, entertainment |-> 3,
         enthusiast |-> 1, overboost |-> 2]

Settled == client.step = "idle" /\ ghost.chosen # NoName /\ ~ghost.raced

\* A profile that was chosen with success stays in force until another one is
\* chosen or TDP limits are set on a machine that needs the enthusiast profile for
\* them, unless a fan ioctl read the register before the profile was written.
ChoiceStays ==
    Settled => reg.mode = IF ghost.limited THEN Enthusiast ELSE Runs[ghost.chosen]

\* hardware_detection.rs: "profile_id: 1=powersave, 2=enthusiast, 3=overboost".
\* Once a profile was chosen with success, and no TDP limit took it back,
\* GetCurrentTdpProfile reports it on Uniwill.
ChosenIsReported ==
    Settled /\ ~ghost.limited /\ shared = "Uniwill" => CurrentProfile = ghost.chosen
=============================================================================
