---------------------------- MODULE KeyboardLight ----------------------------
(* The keyboard backlight: the keyboard section of the tuning page, which   *)
(* offers what GetKeyboardCapabilities found, and the calls that change the *)
(* light, PreviewKeyboardSettings and the keyboard stage of ApplyProfile.   *)
(* The daemon writes a mode register by register, through ioctls on Clevo   *)
(* machines and through the LED files, and ignores what fails; nothing      *)
(* keeps two calls apart.  The capabilities and the writes come from two    *)
(* readings of the same directories.                                        *)
EXTENDS Naturals, Sequences

CONSTANTS
    Machines,   \* kinds of machine, see MachineType
    Foreign,    \* modes that another client previews
    NoMode,     \* model value: the page has asked for nothing
    Bound       \* bounds: changes and calls of the page; foreign calls and failures

VARIABLES
    machine,    \* the machine of this behaviour
    kbd,        \* the controller: effect, colour and brightness of every zone
    draft,      \* keyboard_settings of the profile on the page
    last,       \* keyboard_settings in LAST_APPLIED_PROFILE
    calls,      \* the writes that the two clients' calls still have to make
    ghost,      \* history that the property needs
    left        \* what is left of the bounds

vars == <<machine, kbd, draft, last, calls, ghost, left>>

Zone == 1 .. 3
Color == {"white", "red"}
Bright == {"half", "full"}      \* 50% and 100%
Static == {"single", "zones", "keys"}
Kind == Static \cup {"breathe", "wave"}
Client == {"page", "other"}

\* io is what TuxedoIo::shared() detected; platform and class are the LEDs under
\* tuxedo_keyboard/leds and the other ones in /sys/class/leds; rgb tells coloured
\* LEDs from white ones; modeFiles says that they have a mode file, ite that an
\* ITE controller is on the USB bus.
MachineType == [io : {"Clevo", "Uniwill", "absent"}, platform : {"none", "three", "rgb"},
                class : Zone \cup {0}, rgb : BOOLEAN, modeFiles : BOOLEAN, ite : BOOLEAN]

Mode(kind, colors, bright) == [kind |-> kind, colors |-> colors, bright |-> bright]

\* KeyboardMode: the modes with a colour for the whole keyboard have one.
IsMode(mode) ==
    /\ mode \in [kind : Kind, colors : Seq(Color), bright : Bright]
    /\ mode.kind \in {"single", "breathe"} => mode.colors # <<>>

\* The older driver's LEDs are coloured.
KeyboardConstants ==
    /\ Machines \subseteq MachineType
    /\ \A m \in Machines : m.platform # "none" => m.rgb
    /\ \A mode \in Foreign : IsMode(mode)
    /\ Bound \in [edits : Nat, asks : Nat, faults : Nat]

\* Of the modes, Flash behaves as Breathe; Cycle, Dance, Random and Tempo as Wave.
White == Mode("single", <<"white">>, "half")
DefaultSettings == [control |-> FALSE, mode |-> White]

-----------------------------------------------------------------------------
(* What the daemon finds *)

\* find_all_keyboard_backlight_paths
Leds == CASE machine.platform = "three" -> 3
          [] machine.platform = "rgb" -> 1
          [] OTHER -> machine.class

Available == Leds > 0 \/ machine.io # "absent"

\* get_keyboard_capabilities
Caps ==
    IF machine.platform # "none" \/ (machine.class > 0 /\ machine.rgb)
      THEN [zones |-> Leds, keys |-> FALSE, color |-> TRUE, bright |-> TRUE,
            effects |-> machine.modeFiles]
    ELSE IF machine.class > 0
      THEN [zones |-> 1, keys |-> FALSE, color |-> FALSE, bright |-> TRUE, effects |-> FALSE]
    ELSE [zones |-> 0, keys |-> machine.ite, color |-> machine.ite,
          bright |-> machine.ite, effects |-> FALSE]

-----------------------------------------------------------------------------
(* How the daemon writes a mode *)

Effect(kind) == IF kind \in Static THEN "static" ELSE kind
Write(field, zones, value) == [field |-> field, zones |-> zones, value |-> value]
Each(n, Op(_)) == [i \in 1 .. n |-> Op(i)]
If(condition, writes) == IF condition THEN writes ELSE <<>>
OnClevo == machine.io = "Clevo"

\* The static modes write no mode file: only the ioctl ends an effect.
EffectWrites(kind) ==
    LET File(i) == Write("effect", {i}, kind) IN
    If(OnClevo, <<Write("effect", Zone, Effect(kind))>>)
        \o If(kind \notin Static /\ machine.modeFiles, Each(Leds, File))

\* set_zone_color: the ioctl, which knows three zones, then the file.
ZoneWrites(i, color) ==
    If(OnClevo /\ i \in Zone, <<Write("color", {i}, color)>>)
        \o If(i <= Leds /\ machine.rgb, <<Write("color", {i}, color)>>)

\* The zones that set_mode colours
ColoredZones(mode) ==
    CASE mode.kind = "single" ->
            IF machine.io = "absent" \/ Leds > 3 THEN Leds ELSE 3
      [] mode.kind \in {"zones", "keys"} -> Len(mode.colors)
      [] mode.kind = "breathe" -> Leds
      [] mode.kind = "wave" -> 0

ColorOf(mode, i) ==
    mode.colors[IF mode.kind \in {"zones", "keys"} THEN i ELSE 1]

\* One zone after the other; there is nothing to write to a fourth.
ColorWrites(mode) ==
    LET Nth(i) == If(i <= ColoredZones(mode), ZoneWrites(i, ColorOf(mode, i)))
    IN Nth(1) \o Nth(2) \o Nth(3)

BrightWrites(bright) ==
    LET File(i) == Write("bright", {i}, bright) IN
    If(OnClevo, <<Write("bright", Zone, bright)>>) \o Each(Leds, File)

\* Mutant: every mode is written as if the keyboard had the zones of its mode only.
SetModeFirstZone(mode) ==
    EffectWrites(mode.kind)
        \o If(mode.colors # <<>>, ZoneWrites(1, ColorOf(mode, 1)))
        \o BrightWrites(mode.bright)

\* set_mode
SetMode(mode) ==
    EffectWrites(mode.kind) \o ColorWrites(mode) \o BrightWrites(mode.bright)

-----------------------------------------------------------------------------
(* The calls *)

Busy(c) == calls[c] # <<>>
Quiet == \A c \in Client : ~Busy(c)

\* One of the bounded events
Spend(event) ==
    /\ left[event] > 0
    /\ left' = [left EXCEPT ![event] = @ - 1]

\* PreviewKeyboardSettings from the page; the worker makes one call at a time.
\* An unavailable keyboard is an error.
Preview ==
    /\ ~Busy("page") /\ draft.control /\ Available
    /\ Spend("asks")
    /\ calls' = [calls EXCEPT !["page"] = SetMode(draft.mode)]
    /\ ghost' = [asked |-> draft.mode, raced |-> Busy("other"), failed |-> FALSE,
                 previewed |-> TRUE]
    /\ UNCHANGED <<machine, kbd, draft, last>>

\* Save, and with it ApplyProfile: the profile that was applied last is skipped,
\* whatever was previewed since.  Control switched off is white light.
Save ==
    LET mode == IF draft.control THEN draft.mode ELSE White
        skipped == draft = last IN
    /\ ~Busy("page")
    /\ Spend("asks")
    /\ last' = draft
    /\ IF skipped \/ ~Available
         THEN /\ UNCHANGED calls
              /\ ghost' = [ghost EXCEPT !.asked = IF skipped THEN mode ELSE NoMode,
                                        !.raced = @ \/ ghost.previewed]
         ELSE /\ calls' = [calls EXCEPT !["page"] = SetMode(mode)]
              /\ ghost' = [asked |-> mode, raced |-> Busy("other"), failed |-> FALSE,
                           previewed |-> FALSE]
    /\ UNCHANGED <<machine, kbd, draft>>

\* Another client previews a mode of its own.
OtherPreview ==
    /\ ~Busy("other") /\ Available
    /\ Spend("faults")
    /\ \E mode \in Foreign : calls' = [calls EXCEPT !["other"] = SetMode(mode)]
    /\ ghost' = [ghost EXCEPT !.raced = TRUE, !.previewed = TRUE]
    /\ UNCHANGED <<machine, kbd, draft, last>>

\* The next write of a call; every failure is ignored.
WriteNext(c) ==
    /\ Busy(c)
    /\ calls' = [calls EXCEPT ![c] = Tail(@)]
    /\ LET w == Head(calls[c]) IN
       \/ /\ kbd' = [z \in Zone |-> IF z \in w.zones THEN [kbd[z] EXCEPT ![w.field] = w.value]
                                    ELSE kbd[z]]
          /\ UNCHANGED <<ghost, left>>
       \/ /\ Spend("faults")
          /\ ghost' = [ghost EXCEPT !.failed = TRUE]
          /\ UNCHANGED kbd
    /\ UNCHANGED <<machine, draft, last>>

-----------------------------------------------------------------------------
(* The keyboard section of the tuning page *)

Edit(settings) ==
    /\ Spend("edits")
    /\ draft' = settings
    /\ UNCHANGED <<machine, kbd, last, calls, ghost>>

\* Switching control off makes the mode white.
ToggleControl ==
    Edit(IF draft.control THEN DefaultSettings ELSE [draft EXCEPT !.control = TRUE])

Offered(kind) ==
    CASE kind = "single" -> TRUE
      [] kind = "zones" -> Caps.zones > 1
      [] kind = "keys" -> Caps.keys
      [] OTHER -> Caps.effects

NewMode(kind) ==
    Mode(kind, CASE kind \in {"single", "breathe"} -> <<"white">>
                 [] kind \in {"zones", "keys"} -> [i \in 1 .. Caps.zones |-> "white"]
                 [] kind = "wave" -> <<>>,
         "half")

SelectMode(kind) ==
    /\ draft.control /\ Offered(kind) /\ draft.mode.kind # kind
    /\ Edit([draft EXCEPT !.mode = NewMode(kind)])

EditColor(i, color) ==
    /\ draft.control /\ i \in DOMAIN draft.mode.colors
    /\ draft.mode.kind \in {"single", "breathe"} => Caps.color
    /\ Edit([draft EXCEPT !.mode.colors[i] = color])

EditBrightness(bright) ==
    /\ draft.control /\ Caps.bright
    /\ Edit([draft EXCEPT !.mode.bright = bright])

\* Reset to Default, which is not saved
Reset == Edit(DefaultSettings)

-----------------------------------------------------------------------------
Init ==
    /\ machine \in Machines
    /\ kbd = [z \in Zone |-> [effect |-> "static", color |-> "white", bright |-> "half"]]
    /\ draft = DefaultSettings
    /\ last = DefaultSettings
    /\ calls = [c \in Client |-> <<>>]
    /\ ghost = [asked |-> NoMode, raced |-> FALSE, failed |-> FALSE, previewed |-> FALSE]
    /\ left = Bound

Next ==
    \/ Preview \/ Save \/ OtherPreview
    \/ \E c \in Client : WriteNext(c)
    \/ ToggleControl \/ Reset
    \/ \E kind \in Kind : SelectMode(kind)
    \/ \E i \in Zone, color \in Color : EditColor(i, color)
    \/ \E bright \in Bright : EditBrightness(bright)

Spec == Init /\ [][Next]_vars

\* Every variable has its type; the page builds only modes the daemon can parse.
TypeOK ==
    LET ModeType == [kind : Kind, colors : UNION {[1 .. n -> Color] : n \in 0 .. 3},
                     bright : Bright]
        Settings == [control : BOOLEAN, mode : ModeType] IN
    /\ machine \in Machines
    /\ kbd \in [Zone -> [effect : {"static", "breathe", "wave"}, color : Color,
                         bright : Bright]]
    /\ draft \in Settings /\ last \in Settings
    /\ \A c \in Client : \A i \in DOMAIN calls[c] :
          calls[c][i].field \in {"effect", "color", "bright"} /\ calls[c][i].zones \subseteq Zone
    /\ ghost.asked \in ModeType \cup {NoMode}

\* Preview and Save show what the page asks for: once the page's last call has
\* ended, every LED has the brightness, the colour and the effect of its mode,
\* unless another call ran beside it or after it, a write failed, or the call was
\* a Save that was skipped as already applied though a preview came in between.
\* One effect is exempt: on a keyboard with mode files and no Clevo ioctl a static
\* mode does not end an effect.  So the modes that the capabilities let the page
\* offer are ones that the daemon, which looks for the LEDs again, writes to every
\* LED it has.
AskedIsShown ==
    LET mode == ghost.asked IN
    Quiet /\ mode # NoMode /\ ~ghost.raced /\ ~ghost.failed =>
        \A z \in 1 .. Leds :
            /\ kbd[z].bright = mode.bright
            /\ Caps.color /\ mode.colors # <<>> => kbd[z].color = ColorOf(mode, z)
            /\ OnClevo \/ mode.kind \notin Static => kbd[z].effect = Effect(mode.kind)
=============================================================================
