------------------------------- MODULE GuiApp -------------------------------
(* The desktop application's own state: the profile list and the current    *)
(* profile, the pages that change them, the tray menu, which lives in a     *)
(* thread of its own, and the configuration files.                          *)
(*                                                                          *)
(* The UI thread runs one frame after another: gamepad reports, one tray    *)
(* event, then the page, where the user does at most one thing.  A save     *)
(* rewrites a file in place, in two steps (truncated, written); the process *)
(* may be killed between any two steps.  The daemon is always there         *)
(* (GuiClient is about the connection).                                     *)
EXTENDS Naturals, Sequences, SequencesExt

CONSTANTS
    Names,      \* names a user may give to profiles
    MaxProfiles, \* bound on the profile list
    MaxClicks,  \* bound on tray events that wait
    Absent,     \* model value: there is no such file
    Torn        \* model value: a file that serde cannot read

VARIABLES
    pc,         \* the UI thread: down, frame, draw or write
    config,     \* AppConfig: profiles and current_profile
    applied,    \* the profile last sent with ApplyProfile, <<>> before that
    files,      \* settings.json, profiles.json and config.json
    todo,       \* the files that the save under way has still to write
    tray,       \* TrayState, the profile names it was last given and its channel
    last,       \* last_tray_profile and last_tray_profiles_count
    ghost       \* history that the properties need

vars == <<pc, config, applied, files, todo, tray, last, ghost>>

Standard == "Standard"
Looks == {"default", "edited"}
Profile(name, look) == [name |-> name, look |-> look]
Profiles == [name : Names \cup {Standard}, look : Looks]

Configs == [profiles : Seq(Profiles), current : Names \cup {Standard}]

\* Standard is no name that a user gives to a new profile, and a file that is
\* missing or torn is none with something in it.
GuiAppConstants ==
    /\ IsFiniteSet(Names) /\ Standard \notin Names
    /\ MaxProfiles \in Nat \ {0} /\ MaxClicks \in Nat
    /\ Absent # Torn
    /\ \A none \in {Absent, Torn} : none # "settings" /\ none \notin Configs

ASSUME GuiAppAssumption == GuiAppConstants

\* AppConfig::default()
DefaultConfig ==
    [profiles |-> <<Profile(Standard, "default")>>, current |-> Standard]

NamesIn(list) == {list[i].name : i \in DOMAIN list}
NameSeq(list) == [i \in DOMAIN list |-> list[i].name]

\* position(|p| p.name == name): the first, or 0
Position(list, name) == SelectInSeq(list, LAMBDA p : p.name = name)

CurrentIndex == Position(config.profiles, config.current)

NoTray == [names |-> <<>>, selected |-> 1, events |-> <<>>]

-----------------------------------------------------------------------------
(* Configuration files *)

Readable(f) == files[f] \notin {Absent, Torn}

\* SettingsConfig and ProfilesConfig, From<&AppConfig>.  What is in the settings
\* is left out.
Content(f) == IF f = "settings" THEN "settings" ELSE config

\* load_config_from_disk fails when any file that exists cannot be read.
LoadFails == \E f \in DOMAIN files : files[f] = Torn

\* Mutant: the profiles are taken from the legacy file as long as it is there.
ProfilesLegacyFirst ==
    IF Readable("legacy") THEN files.legacy
    ELSE IF Readable("profiles") THEN files.profiles ELSE DefaultConfig

\* The profiles come from their own file, otherwise from the legacy file,
\* otherwise from the defaults; likewise the settings.
ProfilesOnDisk ==
    IF Readable("profiles") THEN files.profiles
    ELSE IF Readable("legacy") THEN files.legacy ELSE DefaultConfig

\* The legacy file is migrated while one of the new files is missing.
Migrates ==
    Readable("legacy") /\ (files.settings = Absent \/ files.profiles = Absent)

ApplyCurrent(conf) ==
    LET i == Position(conf.profiles, conf.current) IN
    applied' = IF i = 0 THEN applied ELSE conf.profiles[i]

\* LapSphereApp::new.  A load that fails leaves the defaults in force, and the
\* files as they are.
Start ==
    LET conf == IF LoadFails THEN DefaultConfig ELSE ProfilesOnDisk IN
    /\ pc = "down"
    /\ config' = conf
    /\ todo' = IF ~LoadFails /\ Migrates THEN <<"settings", "profiles">> ELSE <<>>
    /\ pc' = IF todo' = <<>> THEN "frame" ELSE "write"
    /\ ApplyCurrent(conf)
    /\ tray' = [names |-> NameSeq(conf.profiles), events |-> <<>>,
                selected |-> IF Position(conf.profiles, conf.current) = 0 THEN 1
                             ELSE Position(conf.profiles, conf.current)]
    /\ last' = [current |-> conf.current, count |-> Len(conf.profiles)]
    /\ UNCHANGED <<files, ghost>>

\* std::fs::write truncates the file ...
Truncate ==
    /\ pc = "write" /\ files[Head(todo)] # Torn
    /\ files' = [files EXCEPT ![Head(todo)] = Torn]
    /\ UNCHANGED <<pc, config, applied, todo, tray, last, ghost>>

Written ==
    /\ todo' = Tail(todo)
    /\ pc' = IF todo' = <<>> THEN "frame" ELSE "write"
    /\ UNCHANGED <<config, applied, tray, last>>

\* ... and writes it.
Write ==
    /\ pc = "write" /\ files[Head(todo)] = Torn
    /\ files' = [files EXCEPT ![Head(todo)] = Content(Head(todo))]
    /\ Written
    /\ ghost' = IF Head(todo) = "profiles" THEN [ghost EXCEPT !.durable = ghost.owned]
                                           ELSE ghost

\* A full disk: the error is dropped and the file stays as it was, or empty.
WriteFails ==
    /\ pc = "write"
    /\ Written
    /\ ghost' = [ghost EXCEPT !.harmed = TRUE]
    /\ UNCHANGED files

-----------------------------------------------------------------------------
(* The frame *)

\* handle_hardware_updates remembers gamepads and saves the settings when they
\* change.
GamepadInfo ==
    /\ pc = "frame"
    /\ todo' = <<"settings">> /\ pc' = "write"
    /\ UNCHANGED <<config, applied, files, tray, last, ghost>>

\* Mutant: a new list of names keeps the old selection.
SelectedKept(names, selected) ==
    IF names # tray.names THEN selected
    ELSE SelectInSeq(names, LAMBDA n : n = config.current)

\* set_current_profile, which does nothing for a name that the menu lacks
Selected(names, selected) ==
    LET i == SelectInSeq(names, LAMBDA n : n = config.current) IN
    IF i = 0 THEN selected ELSE i

CountChanged == Len(config.profiles) # last.count
CurrentChanged == config.current # last.current

\* The menu after its synchronisation: the names when their number changed, the
\* selection when that or the current profile did.
Synced ==
    LET names == IF CountChanged THEN NameSeq(config.profiles) ELSE tray.names IN
    [tray EXCEPT !.names = names,
                 !.selected = IF CountChanged \/ CurrentChanged
                                THEN Selected(names, @) ELSE @]

\* The menu clamps its selection.
Shows(menu) ==
    menu.names[IF menu.selected > Len(menu.names) THEN Len(menu.names)
               ELSE menu.selected] = config.current

\* handle_tray_events: the menu is synchronised, then one event is handled.  A
\* switch from the menu is not saved.
HandleTrayEvents ==
    LET index == Head(tray.events)
        switches == tray.events # <<>> /\ index <= Len(config.profiles) IN
    /\ pc = "frame"
    /\ pc' = "draw"
    /\ last' = [current |-> config.current, count |-> Len(config.profiles)]
    /\ tray' = [Synced EXCEPT !.events = IF @ = <<>> THEN @ ELSE Tail(@)]
    /\ IF switches
         THEN /\ config' = [config EXCEPT !.current = config.profiles[index].name]
              /\ applied' = config.profiles[index]
         ELSE UNCHANGED <<config, applied>>
    /\ ghost' = [ghost EXCEPT
          !.switched = switches,
          !.crossed = @ /\ ~Shows(Synced)]
    /\ UNCHANGED <<files, todo>>

\* The end of a frame in which the user did nothing.
DrawNothing ==
    /\ pc = "draw" /\ pc' = "frame"
    /\ UNCHANGED <<config, applied, files, todo, tray, last, ghost>>

-----------------------------------------------------------------------------
(* Pages *)

Page(writes) ==
    /\ pc = "draw"
    /\ todo' = writes /\ pc' = IF writes = <<>> THEN "frame" ELSE "write"
    /\ UNCHANGED <<files, tray, last>>

\* A page that changes the current profile in a frame that had already switched
\* it for the menu: the menu may not hear of it.
Cross == ghost' = [ghost EXCEPT !.crossed = @ \/ ghost.switched]

SwitchProfile(i) ==
    /\ config.profiles[i].name # config.current
    /\ config' = [config EXCEPT !.current = config.profiles[i].name]
    /\ applied' = config.profiles[i]
    /\ Cross
    /\ Page(<<"profiles">>)

ResetProfile(i) ==
    /\ config.profiles[i].name = Standard
    /\ config' = [config EXCEPT !.profiles[i] = Profile(Standard, "default")]
    /\ applied' = IF config.current = Standard THEN config'.profiles[i] ELSE applied
    /\ UNCHANGED ghost
    /\ Page(<<"profiles">>)

\* Mutant: the current profile is deleted without a switch to Standard.
FallbackKeeps(name) == config.current

\* Deleting the current profile falls back to Standard.
Fallback(name) == IF name = config.current THEN Standard ELSE config.current

DeleteProfile(i) ==
    LET name == config.profiles[i].name
        standard == Position(config.profiles, Standard) IN
    /\ name # Standard
    /\ config' = [config EXCEPT !.current = Fallback(name),
                                !.profiles = RemoveAt(@, i)]
    /\ applied' = IF name = config.current /\ standard # 0
                    THEN config.profiles[standard] ELSE applied
    /\ ghost' = [ghost EXCEPT !.owned = @ \ {name},
                              !.crossed = @ \/ ghost.switched]
    /\ Page(<<"profiles">>)

\* A new profile is a copy of the current one, which need not exist.
CreateProfile(name) ==
    LET i == CurrentIndex
        look == IF i = 0 THEN "default" ELSE config.profiles[i].look IN
    /\ name \notin NamesIn(config.profiles) /\ Len(config.profiles) < MaxProfiles
    /\ config' = [config EXCEPT !.profiles = Append(@, Profile(name, look))]
    /\ ghost' = [ghost EXCEPT !.owned = @ \cup {name}]
    /\ UNCHANGED applied
    /\ Page(<<"profiles">>)

\* The sliders of the tuning page change the profile in memory.
EditProfile ==
    /\ CurrentIndex # 0
    /\ config' = [config EXCEPT !.profiles[CurrentIndex].look = "edited"]
    /\ ghost' = [ghost EXCEPT !.dirty = TRUE]
    /\ UNCHANGED applied
    /\ Page(<<>>)

\* "Reset to Default" of the tuning page: a profile other than Standard becomes
\* Profile::default(), whose name is Standard.
ResetTuning ==
    /\ CurrentIndex # 0
    /\ config' = [config EXCEPT !.profiles[CurrentIndex] = Profile(Standard, "default")]
    /\ ghost' = [ghost EXCEPT !.dirty = TRUE,
                              !.renamed = @ \/ config.current # Standard]
    /\ UNCHANGED applied
    /\ Page(<<>>)

\* "Save", with fan curves that pass its check: saved and applied.
SaveTuning ==
    /\ CurrentIndex # 0
    /\ applied' = config.profiles[CurrentIndex]
    /\ ghost' = [ghost EXCEPT !.dirty = FALSE]
    /\ UNCHANGED config
    /\ Page(<<"profiles">>)

\* Everything on the settings page is saved at once.
ChangeSettings ==
    /\ UNCHANGED <<config, applied, ghost>>
    /\ Page(<<"settings">>)

-----------------------------------------------------------------------------
(* The tray's thread, the user and the system *)

\* The user picks the profile shown at a position of the menu.
TrayClick(i) ==
    /\ pc # "down" /\ Len(tray.events) < MaxClicks
    /\ tray' = [tray EXCEPT !.selected = i,
                  !.events = Append(@, i)]
    /\ UNCHANGED <<pc, config, applied, files, todo, last, ghost>>

Down ==
    /\ pc' = "down"
    /\ config' = DefaultConfig /\ todo' = <<>> /\ tray' = NoTray
    /\ last' = [current |-> Standard, count |-> 1]
    /\ UNCHANGED <<applied, files>>

Fresh(g) == [g EXCEPT !.dirty = FALSE, !.switched = FALSE, !.crossed = FALSE]

\* The window is closed with the tray disabled, or Quit is chosen.
Exit ==
    /\ pc \in {"frame", "draw"}
    /\ Down /\ ghost' = Fresh(ghost)

\* The process is killed.
Crash ==
    /\ pc # "down"
    /\ Down
    /\ ghost' = [Fresh(ghost) EXCEPT
          !.owned = ghost.durable,
          !.harmed = @ \/ (pc = "write" /\ files[Head(todo)] = Torn)]

-----------------------------------------------------------------------------

\* A fresh installation, or the files of an earlier run or an earlier version.
Init ==
    /\ pc = "down"
    /\ config = DefaultConfig /\ applied = <<>> /\ todo = <<>> /\ tray = NoTray
    /\ last = [current |-> Standard, count |-> 1]
    /\ \E legacy \in BOOLEAN, settings \in {Absent, "settings"},
          own \in {some \in SUBSET Names : Cardinality(some) < MaxProfiles} :
          LET saved == [profiles |-> <<Profile(Standard, "default")>> \o
                            SetToSeq({Profile(n, "default") : n \in own}),
                        current |-> Standard] IN
          /\ files = [settings |-> settings,
                      profiles |-> IF legacy \/ own = {} THEN Absent ELSE saved,
                      legacy |-> IF legacy THEN saved ELSE Absent]
          /\ ghost = [owned |-> own, durable |-> own, harmed |-> FALSE, renamed |-> FALSE,
                      dirty |-> FALSE, switched |-> FALSE, crossed |-> FALSE]

PageAction ==
    \/ \E i \in DOMAIN config.profiles :
          SwitchProfile(i) \/ ResetProfile(i) \/ DeleteProfile(i)
    \/ \E name \in Names : CreateProfile(name)
    \/ EditProfile \/ ResetTuning \/ SaveTuning
    \/ ChangeSettings

Next ==
    \/ Start \/ Truncate \/ Write \/ WriteFails
    \/ GamepadInfo \/ HandleTrayEvents \/ DrawNothing \/ PageAction
    \/ \E i \in DOMAIN tray.names : TrayClick(i)
    \/ Exit \/ Crash

Spec == Init /\ [][Next]_vars

-----------------------------------------------------------------------------
(* Properties *)

TypeOK ==
    /\ pc \in {"down", "frame", "draw", "write"}
    /\ config.profiles \in Seq(Profiles)
    /\ config.current \in Names \cup {Standard}
    /\ applied \in Profiles \cup {<<>>}
    /\ tray.selected \in 1 .. MaxProfiles
    /\ Len(tray.events) <= MaxClicks

\* The names that the next start would find.
NamesOnDisk == NamesIn(ProfilesOnDisk.profiles)

\* No profile is lost or comes back, in memory or over restarts, crashes and
\* the migration, as long as no write was cut short or failed and the tuning
\* page did not rename a profile.
ProfilesKept ==
    ~ghost.harmed /\ ~ghost.renamed =>
        /\ pc # "down" => NamesIn(config.profiles) = ghost.owned \cup {Standard}
        /\ pc # "write" => NamesOnDisk = ghost.owned \cup {Standard}

\* The current profile exists and is the one that the daemon was given last,
\* up to edits that wait for Save, unless the tuning page renamed a profile.
CurrentIsApplied ==
    pc \in {"frame", "draw"} /\ ~ghost.renamed =>
        /\ CurrentIndex # 0
        /\ applied.name = config.current
        /\ ghost.dirty \/ applied = config.profiles[CurrentIndex]

\* With nothing left to handle the menu shows the profiles and the current one,
\* unless a page and the menu switched in one frame or a profile was renamed.
TrayAgrees ==
    pc = "draw" /\ ~ghost.switched /\ tray.events = <<>> /\ ~ghost.renamed =>
        /\ tray.names = NameSeq(config.profiles)
        /\ ghost.crossed \/ Shows(tray)
=============================================================================
