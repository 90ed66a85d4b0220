# A verification project for LapSphere

LapSphere is a control centre for Clevo/Uniwill laptops, written in Rust: a root
daemon (`daemon/`) that reads and sets hardware through sysfs, `/dev/tuxedo_io`
and NVML and offers a D-Bus interface, a GUI (`gui/`, egui) that is its client,
shared types (`common/`), and vendored kernel drivers (`drivers_src/`).

This directory holds TLA+ modules of the parts of it where concurrency, failure,
ordering and arithmetic decide what happens, TLC configurations that check them
on small instances, and proofs for the TLA+ proof system. `PROJECT.json` lists the
runs, the properties, which lines of the code each definition stands for,
mutations of the model that each property detects, and the hazards the properties
are for.

    tlc -config FanControl.cfg MCFanControl      # one run
    tlapm FanControl_proofs.tla                  # the proofs of one module

Paths below are relative to the repository.

## 1. Inventory

### Processes and threads

* **Daemon, scheduler task.** One tokio task runs `PollingScheduler::run`. It
  owns three jobs: `hardware_monitor` (refreshes the cache), `fan_control` (only
  with `/dev/tuxedo_io`), `gpu_overclock`. Callbacks run inside the task, one
  after the other.
* **Daemon, D-Bus handlers.** zbus runs calls concurrently on the multi-threaded
  tokio runtime. There is no lock around hardware control; shared state is in
  globals of `daemon/src/main.rs`, each with a mutex or an atomic of its own.
* **Daemon, main.** Starts everything, waits for SIGINT, restores the CPU
  frequency limits and returns.
* **GUI, UI thread.** Draws frames, empties the update channel, writes the
  configuration files, and on exit asks the daemon to hand the fans back and stop.
* **GUI, coordinator and refresh tasks.** A timer loop spawns a task for each
  component that is due.
* **GUI, D-Bus worker.** Serves one command at a time from an unbounded queue
  over one connection, which it replaces after failures. The battery section
  opens a connection of its own for every Apply.
* **GUI, tray thread.** Keeps its own copy of the profile names and sends clicks
  to the UI thread.
* **Kernel and firmware.** The embedded controller, the driver's read-modify-write
  of EC registers, runtime suspension of the GPU, cpufreq.

### Components, state, operations, what makes them correct

| Component | State | Operations | Correct when |
|---|---|---|---|
| Fan control (`tuxedo_io.rs`, `hardware_control.rs`, `main.rs`) | `CLEVO_AUTO_DISABLED`, `FAN_DAEMON_STATE`, the controller's mode and duties | SetFanSpeed, SetFanAuto, SetAllFansAuto, fan part of ApplyProfile, `fan_control` job | the flag tells the hardware's mode; a speed set reaches the hardware; other fans keep theirs; a disabled job leaves the fans alone |
| Fan curves (`fan_curve_editor.rs`, `main.rs`) | the editor's points | drag, add, delete, load, Save; interpolation | the fan follows the curve that was drawn, at every temperature |
| Polling scheduler (`polling_scheduler.rs`, `daemon_settings.rs`) | job heap, command channel, `DAEMON_POLL_SETTINGS` | add, update, remove, shutdown, SyncDaemonPollSettings, UpdatePollingInterval | every job keeps running, none early, none starved, with the stored and clamped intervals |
| Poll rates (`settings.rs`, `tuning.rs`, `gui/polling_scheduler.rs`) | rates in the configuration, the coordinator's components | sliders, save, sync | the rate on the page is the one in force |
| Profile application (`hardware_control.rs`, `dbus_interface.rs`) | `LAST_APPLIED_PROFILE`, `GPU_DAEMON_STATE`, `FAN_DAEMON_STATE`, hardware settings | ApplyProfile, single-setting calls | success means applied; skipped means already there; the jobs follow the same profile |
| CPU frequency limits (`hardware_control.rs`, `main.rs`) | limits of each CPU, online CPUs, `CPU_LIMITS_MODIFIED` | SetCpuFrequencyLimits, SetSmt, restore at exit | valid requests succeed; success covers all CPUs; exit restores |
| GUI client (`dbus_client.rs`, `gui/polling_scheduler.rs`, `app.rs`) | command queue, connection, failure count, update channel, displayed data | refresh, D-Bus calls, reconnection, exit | the display catches up with the daemon, in order; lost connections are replaced; the GUI can be closed |
| GPU overclocking (`main.rs`, `hardware_control.rs`) | `LAST_APPLIED_OFFSET`, `MANUAL_GPU_OFFSETS`, statistics | `gpu_overclock` job, offset setters | the GPU has the offset the job believes in; offsets are as asked |
| Hardware detection (`hardware_detection.rs`) | idle-metrics cache, one-shot override, previous counter readings | GPU passes, GetGpuInfoFull, rates | polling lets an idle GPU sleep; a full request is live; rates are real |
| Battery (`battery_control.rs`, `settings.rs`, driver) | thresholds in the EC | page, SetBatterySettings, single setters | the EC has what was asked, start below end |
| Keyboard light (`hardware_control.rs`, `tuning.rs`) | effect, colour, brightness of the LEDs | preview, Save | the light is what the page shows |
| Performance profiles (`tuxedo_io.rs`, driver) | the mode register, the shared handle | SetTdpProfile, ApplyProfile | a choice stays, and is what is reported |
| GUI configuration, profiles page, tray (`app.rs`, `profiles.rs`, `system_tray.rs`) | profiles, files, menu | load, migrate, save, create, rename, delete, reset, switch | no profile is lost; the current one is the one applied; the tray agrees |
| Logger, webcam, screen, PRIME, drawing, theme, shortcuts, `nvidia/` | - | - | see section 6 |

### How they interact

The GUI sends commands to its worker (queue), the worker calls the daemon (D-Bus),
the daemon's handlers write hardware directly and replace globals that the jobs
copy under a lock at the start of each tick. Interval changes go from handlers
to the scheduler over an unbounded channel. `fan_control` follows
`FAN_DAEMON_STATE`, `gpu_overclock` follows `GPU_DAEMON_STATE`; both are set by
ApplyProfile, at different moments of the call.

### What is hard

* operations of several unlocked steps on hardware and a flag, run by handlers
  and a job at once (fans, GPU offsets, keyboard, EC registers);
* multi-step calls that fail in the middle after remembering that they succeeded
  (profiles, CPU limits, battery thresholds);
* check-then-act under two acquisitions of one lock (poll settings), or across
  two locks (the profile globals);
* a timer loop that shares a task with blocking callbacks and a command channel;
* requests that overlap, connections and services that come and go, calls that
  hang, an exit that must not;
* polling that must not keep asleep hardware awake, next to a call that must wake
  it;
* rates from counters that wrap, restart or come from another source;
* files rewritten in place, by a process that may be killed;
* a restore at exit that depends on a flag stored late.

`PROJECT.json` lists each hazard at its line with the properties that watch it,
or why there is none.

## 2. Modules

Each part of the system has a module of its own. Parts that do interact are in
one module: callers and jobs, GUI and daemon, page, tray and files. Parts that share
no state in the code are composed by interleaving their steps:

* `DaemonSetters` is `ProfileApply` with instances of `CpuFreqLimits` (`C`),
  `ChargeControl` (`B`), `PerfProfile` (`P`) and `KeyboardLight` (`L`);
* `DaemonGpu` is `GpuDetection` with instances of `GpuOverclock` (`O`) and
  `Telemetry` (`T`);
* `Desktop` is `GuiApp` with instances of `FanCurve` (`F`) and `PollRates` (`R`).

A composition's properties are those of its parts under their own names, and its
proofs are of the composition's specification, where the steps of all parts
interleave. For TLC, `MCSetters`, `MCGpu` and `MCDesktop` choose a part in the
initial state, and a behaviour is one of that part alone, so that the state spaces
add up and do not multiply: the properties speak of one part each, and no other
part's step changes its variables. Every module states its constants' assumptions by
name, as an ASSUME or, where it is instantiated, as a definition (`CpuConstants`,
`OverclockConstants`, ...) that the composition assumes.

### FanControl

The Clevo path. The threads are the D-Bus calls and the job. Each load, store
and ioctl of `TuxedoIo::set_fan_speed` and `set_fan_auto` is an action:

| Action | Code |
|---|---|
| `SetFanSpeed`, `SetFanAuto`, `ApplyFanSettings` | the handlers of `hardware_control.rs` 402-453 |
| `Tick`, `NextCurve`, `EndTick` | the poll function and `apply_fan_curves` (`main.rs`) |
| `CheckFlag`, `DisableAuto`, `StoreDisabled` | step 1 of `set_fan_speed` |
| `ReadSpeed`, `SelectFan`, `WriteSpeeds`, `Settled` | steps 2 to 5, and the 100 ms the driver waits |
| `EnableAuto`, `StoreEnabled` | `set_fan_auto` |
| `Controller` | the embedded controller (external) |

Every ioctl may fail. A failed readback leaves a zero in the word and goes on; a
failed write ends the operation; the job ignores either. The packed word is a
function from slots to duties; a duty is a raw byte, of which the instance tells
two apart. The driver's rounding of small duties is the identity in this build
(`FAN_ON_MIN_SPEED_PERCENT` is 0) and is left out. In auto mode the controller
picks its own duties and ignores the written word; in manual mode it follows the
commanded ones, with a delay. That the fan info read back is the duty commanded
once the delay has passed is what the driver's comment says.

`tainted[t]` records that another operation, or a failed readback, got between
the steps of t, or that t started while a `set_fan_auto` was between its ioctl
and its store or a written speed had not settled; `suspect` records that the flag
was set by a tainted operation. No guard reads them. They let the
properties say which interleavings are harmful and that no other is. The
same use is made of history variables in the other modules (`ghost`, `trail`,
`alone`, `sole`, `overlap`, `shared`, `stale`, `stolen`, `stranded`): no action's guard
depends on one, other than to cut an instance in an MC module. Section 3 lists
what each of them excludes.

### PeriodicJobs and PollScheduler

`PeriodicJobs` is the abstract promise: one callback at a time, none of a removed
job or after the shutdown, none before its interval has passed since its
previous run ended; intervals and jobs change between callbacks only.
`PollScheduler` is the scheduler task, its channel, and the calls that change
intervals. Discrete time: `wait[j]` is `next_run - now`. `Tick` may happen at any
point, also during a callback, so a callback takes any time. `ReceiveCommand` and
`ExecuteDueJobs` are the two branches of `select!`; `StartJob` and `FinishJob`
bracket each callback of the batch. `SyncDiff`, `SyncStore`, `SyncSend` are the
two lock acquisitions and the sends of `sync_from`. `main` never removes a job
or stops the scheduler, but they are part of its interface and modelled.
`KeepsPromise` is the refinement: the variables of `PeriodicJobs` are the
scheduler's own `registered`, `interval`, `running`, `since` and `stopped`; the
batch, the waits and the channel are what implements them.

### PollRates

A rate from the slider to the job: the rate in the configuration, the file it is
saved to, the command to the coordinator, the two D-Bus calls (SyncDaemonPollSettings
from every save, UpdatePollingInterval from the slider), the daemon's stored
settings and its jobs. Saves and calls fail, both sides restart, and the daemon
may or may not run with the user's HOME. The coordinator's sleep is in ticks. The
ghost `lost` records what the daemon cannot hear of any more: a save or call that
failed, and rates that the application forgot in a new start.

### ProfileApply

ApplyProfile as the sequence of stages of `apply_profile`, in the code's order.
`Wants[p][s]` is what profile p has for stage s (`NotSet`: the stage is not
reached). A stage of several writes (a governor on every CPU, say) is one action;
`StageFails` may have left the setting unknown. A failure ends the call unless
the stage is `Silent`: everything under `let _ =`, and the keyboard, whose
`set_mode` ignores every failed write and returns success. The keyboard stage
fails with an error only where `RgbKeyboardControl::new` finds no device
(`NoKeyboard`), and even that is no error of a profile without keyboard control.
`SetFanState` and `SetFanAuto` are the two halves of `apply_fan_settings`.

The two jobs that write the same hardware are ticks. `FanTick` takes a copy of
the curves and `GpuTick` one of the GPU settings; `FanWrite` and `GpuWrite` act on
the copy, any number of times and whatever calls did since; `EndTick` ends the
tick. So a tick under way can put fans back to manual that a call has just given to
the firmware, and write its offsets over those of a profile; `stale` records which.
FanControl and GpuOverclock have the steps inside such a tick.

### CpuFreqLimits

`set_cpu_frequency_limits` write by write, from any number of callers and from
main's shutdown, with SMT switched underneath. The loop bound is the count of
online processors, as `/proc/cpuinfo` lists them, while the loop variable is
used as the CPU number. The kernel is external: it has no cpufreq file for an
offline CPU and refuses an inverted pair, which is what the comment in the
function gives as its reason for choosing the order of the writes.

### GpuDetection

The passes of the monitor, of the overclocking job and of GetGpuInfoFull over one
NVIDIA GPU: the runtime status read from sysfs, the decision whether NVML may be
asked (idle tier, `IDLE_METRICS_CACHE` with its lifetime, what the overclocking job
believes), the NVML call that restarts the kernel's autosuspend delay, the one-shot
flag that is armed by the call, looked at by every pass and taken back at the end of a
forced one. Two exits come before that end and leave it armed: the driver lists no
device (`FindsNoDevice`, hardware_detection.rs 2198) and `get_nvml()?`
(`NvmlMissing`, 2445); a GPU that NVML refuses (`DeviceRefused`) does not.
`stranded` records such an exit. Whether NVML can be opened (`nvml`) is decided once,
for `get_nvml` keeps its answer. A GPU may be bound to the driver while the daemon
runs (`Bind`); it is not unbound, for the daemon's own NVML session keeps the device
open.

Everything else that touches the GPU is there as well: a client's profile and single
calls (`ApplyProfile`, `CallNvml`, `Write`), and the overclocking job without
dynamic control: it forgets what it wrote (`Forget`), and with manual clocks off it
writes both offsets through NVML whatever the runtime status says (`ResetOffsets`),
once, for `cleared` then says they are zero. Time is in ticks. A step is what the code
does between two accesses to shared state.

### GpuOverclock

`apply_gpu_overclocking`, the offset setters and the offsets of ApplyProfile, one
NVML call or access to a global at a time. The offset that the job computes from
load and temperature is any offset. Every NVML call may be refused; the job gives
up the poll, the others go on. A profile's settings are one record of
`GPU_DAEMON_STATE`.

### Telemetry

CPU load, RAPL power, WiFi and storage rates: each reading is compared with the one
before, which a static keeps. Counters wrap (energy), restart (a link that comes
back, a device under an old name) and are read before the static's lock is
taken, so two refreshes can store them in the wrong order. An amount is compared
with what really passed between the two readings.

### GuiClient

From the coordinator's timer to the displayed data and back to on_exit. A
snapshot is the number of daemon updates it contains. A refresh task is spawned,
sends its request, waits, and sends the answer to the bounded channel. The worker
is `connect`, `recv`, `call`, `backoff`; its failure handling is
`AfterFailure`, with the classification of the error text the code really has.
The daemon may stop, hang or be off the bus, and come back. `exit` is the UI
thread in `on_exit`; after `closed` nothing of the GUI moves.

### GuiApp

The UI thread frame by frame: tray event, page, save. The configuration is the list
of profiles (a name and a version) and the current name; the files are
`settings.json`, `profiles.json` and the legacy `config.json`, each absent, torn
or with contents; a save rewrites a file in two steps, and the process may be
killed between any two. The tray thread keeps the names it was last given.

### FanCurve

The editor's operations on the points (drag with its clamps, add into the largest
gap, delete), loading, the check on Save, and `calculate_fan_speed` as an
operator of every temperature. The stable `sort_by_key` is defined by the place each
point takes (`Rank`): one more than the number of points that come before it. `f32` is exact on these ranges except at halves.

### ChargeControl, PerfProfile, KeyboardLight

`ChargeControl`: the page, SetBatterySettings file by file, the single setters, and
the driver's flexicharger, where a store of one value reads all three and writes all
three without a lock. The page has no threshold lists before the daemon has answered
(`AvailableThresholds`), and until then it validates nothing. An `Edit` is saved as it
was made and validated after that, so the file may hold a start above the end, and a
`Restart` of the GUI begins with it and with no lists again.

`PerfProfile`: the detection of the interface with the handle that is remembered for
ever, the list of profiles and the ids that are passed, the driver's
read-modify-write of register 0x0751, which the fan ioctl shares.

`KeyboardLight`: the capabilities, the modes the page offers, and the ioctls and LED
files each mode writes, each of which may fail unnoticed. A profile reaches the
keyboard only when no earlier stage ended the call; that is in ProfileApply, and
here a profile that is applied gets to the keyboard.

## 3. Runs and what they show

| Run | Instance | Result |
|---|---|---|
| `fan_control` | 1 caller and the job, 2 fans, 2 duties, ids 0 to 2 (2 is absent and past the word) | passes |
| `fan_flag_race` | the same | `FlagTracksMode` is violated |
| `scheduler` | 2 jobs, 2 callers, 2 calls, rates 0 and 2, minimum 1 | passes |
| `setters` | 2 profiles and 2 calls with a setter and both jobs; 3 CPUs, 2 callers, 2 calls; 2 battery calls; every kind of machine with a profile list; 5 keyboards | passes |
| `profile_retry` | `ProfileApply`, 1 call at a time | `SkippedIsApplied` is violated |
| `cpu_freq_restore` | `CpuFreqLimits`, 1 caller | `RestoredIfModified` is violated |
| `tdp_profile` | `PerfProfile` | `ChosenIsReported` is violated |
| `gui_client` | 1 component, 2 requests, reconnect at the 2nd failure, channel of 2, 1 fault | passes |
| `gui_reconnect` | the same with the code's limit of 10 | `LossReconnects` is violated |
| `gpu` | the job and 1 call, autosuspend 2 ticks, lifetime 3 ticks; 2 core and 2 memory offsets, 4 profiles; 2 refreshers, 4 events | passes |
| `gpu_full_request` | `GpuDetection` of the same | `FullWakesAndServesLive` is violated |
| `desktop` | 2 names, 3 profiles, 1 tray click; curves of up to 5 points, 3 edits; intervals 1 and 2, 2 edits, 3 faults | passes |

**fan_control.** `StaleFlagOnlyByRace`: `CLEVO_AUTO_DISABLED` claims manual mode
over hardware in auto mode only until a `set_fan_auto` in flight stores its
result, or after one race. `NoBlindWrite`: an operation nobody interfered with
does not write to a controller that ignores it. `OthersPreserved`: it changes
the requested fan only. `JobLeavesHardware`: once fan control stays disabled,
the job stops acting on the fans after at most the tick it was in.
**fan_flag_race** shows the one race: SetAllFansAuto between the disable ioctl
and the store of a `set_fan_speed`.

**scheduler.** `KeepsPromise`: it implements `PeriodicJobs`, so no job runs early,
beside another, after its removal or after the shutdown. `NoOvertaking`: while a
job is due each other job starts at most twice, also one with a zero interval.
`SettledIntervals`: at rest the scheduler uses the stored, clamped settings,
except after `UpdatePollingInterval` (unclamped and unstored) and unless two
syncs interleaved between computing the difference and storing, or one started
between another's store and its sends.
`JobsKeepRunning`: every job runs again and again until it is removed; updates that
keep coming postpone it each time, and calls are bounded here.

**setters.** `RememberedIsApplied` is what the shortcut of `apply_profile` relies
on, with the three ways it fails: a failed write, a single setter, another call.
The jobs are no fourth way, but for a tick that was under way when the profile
wrote the fans or the offsets, or one with the settings of a call that crossed.
`SuccessIsApplied`: a success reply means that every stage whose failed write would be
reported was written; TDP limits, NVML's settings and the keyboard are not among them.
`GpuFollowsLast`: the overclocking job and
`LAST_APPLIED_PROFILE` agree unless the newest call came in while another was
between the two globals.
`RepliesAreTrue`: the order of the CPU limit writes is right for every request
except one whose maximum is below the present minimum ("set max first" is then
the wrong order), and a success covers every online CPU and arms the restore.
`RestoredOnExit`: exit gives the hardware's limits back. `ThresholdsAsAsked`:
a battery call that overlaps no other changes what it names and nothing else, also as
far as it got when it fails; and a page that has the lists leaves charging to start
below its end whatever was there before, from an overlap, another client, a failure or
a page that did not have the lists. `ChoiceStays`: a performance profile
stays in force until another is chosen or TDP limits take it back, unless a fan
ioctl had read the shared register before. `AskedIsShown`: after a preview or Save
every LED has the mode's brightness, colour and effect, on each kind of keyboard.
**profile_retry**: a failed profile is skipped when sent again.
**cpu_freq_restore**: a part-done call's limits survive the daemon.
**tdp_profile**: on Uniwill the position in the list is taken for the id, and the
daemon reports another profile than the one set.

**gui_client.** `BackOnlyByOverlap`: the display goes back to an older snapshot
only when two requests for the component overlapped. `EventuallyShown`: with the
daemon there for good the display ends up at its present state, whatever was lost
before; only the safety net of the worker makes it so. `AutoBeforeShutdown` and
`ExitEnds`: the exit is ordered and always ends. **gui_reconnect** shows that no
error text is recognised: each arm of the worker has replaced it by then.

**gpu.** `FullIsLiveUnless`: what GetGpuInfoFull gets. `OverrideEnds`: its override is
taken back by the pass that reaches the devices and outlives its call only by the two
early exits; one that does forces a later poll. `SuspendedStays`: a suspended GPU is
woken by a forced pass, a client's write, the reset of offsets under manual clocks off,
or a pass that had seen it active, and by no other poll. `IdleSuspends`: an idle one
gets to sleep and stays asleep under polling, whatever the job had to reset before. `BeliefBrokenOnlyOutside`:
the job skips a write only for an offset that is in force or that a client
replaced. `OffsetsAsTold`: at rest the map is what the GPU has and a static offset
is the one asked for last, with named exceptions. `OffClears`: switching manual
clocks off ends with cleared offsets. `RateIsTraffic`: no rate claims more than
what passed, with two named exceptions. **gpu_full_request**: a full request wakes
a suspended GPU but answers without live values, and stores the empty answer as
fresh.

**desktop.** `ProfilesKept`: no profile is lost or comes back over restarts,
crashes and the migration, as long as no write was cut short or failed (then one
may be). `CurrentIsApplied`: the current profile exists and is what the daemon got
last. `TrayAgrees`: the menu shows the profiles and the current one.
`CurveIsFollowed`: a saved curve's points get their speeds, and no curve, in
whatever order and with equal temperatures, leads to 0/0 or to the fallback.
`AddKeepsCurve`: a new point lies on the curve. `RatesInForce`: the coordinator
never sleeps over a due part, and coordinator and jobs run at the rates on the
page unless a save or call was lost.

### Bounds, and why they are enough

* One caller next to the job already gives every pair of concurrent fan
  operations (speed/speed, speed/auto, auto/tick). More callers are covered by
  the proofs, which are for any number.
* Two jobs and two callers give every pair of scheduler actors; the rates 0 and 2
  lie below and above the minimum of 1. `MaxLate` tells late from due only,
  `MaxCalls` bounds the calls, `SinceCap` is one more than the longest interval.
* Two profiles use five of the fourteen stages: a reported one, three silent ones
  (offsets, clocks, keyboard) and the two-step fan stage; one gives keyboard and fans
  back and owns its offsets, the other has a curve and dynamic offsets. A stage that no
  profile of the instance uses behaves as one of these. The proofs are for any
  profiles over all fourteen.
* Three CPUs with a sibling in the middle is the smallest machine where the
  numbers of online CPUs have a gap; two limit values give pairs below and above, and
  two calls, of which the first may fail half-way, CPUs with unequal limits.
* Battery thresholds include a tie of the closest-value search, a start above the
  lowest end and a value that is refused; two calls give every overlap.
* The keyboards are the five that differ in where modes are written: Clevo with
  and without LEDs, LEDs with mode files, a white keyboard, an ITE controller. Two
  edits change a mode and its colour or brightness before it is previewed or saved.
* Ticks of ten seconds: autosuspend shorter than the snapshot's lifetime, as in
  the code, and both longer than a tick, so that a pass fits in between. One call next
  to the jobs, with NVML there or not and the driver bound from the start or later.
* Two offsets, zero and another, tell set from cleared; memory offsets likewise.
* Four events and an energy counter that wraps at 2 give a wrap or a restart
  between any two of three readings by two refreshers.
* `FailLimit` 1 instead of 10 and `UpdateCap` 2 instead of 100 make the safety
  net and a full channel reachable; the code's comparison (`>=`) is kept. Two
  tasks are enough for an overlap. `MaxFaults` 1 bounds faults, not recoveries.
* Two edits of two intervals shorten, lengthen and return to a rate; three faults are
  what it takes to forget an unsaved rate after the daemon has started anew.
* Two names and three profiles (with Standard) let the list grow, shrink and be
  renamed; one waiting click is enough for one that is stale when it is handled.
  In `MCDesktop` the part "files" has faults and no tray, the part "tray" the
  reverse, for their product is out of reach.
* Curves of up to five points with equal temperatures, one or no point and out of
  order; temperatures are checked at every degree.
* Callers are symmetric; symmetry is used in `setters`, which checks no liveness.
* Deadlock is checked in `fan_control`, `scheduler`, `gpu` and `desktop`. In
  `setters` bounded calls run out and the daemon ends; in `gui_client` the GUI
  closes.

### What the history variables exclude

A property that names an exception does not catch the harm of that exception. These
hazards are known and are exceptions, not results:

* a fan tick under way undoes SetFanAuto (FanControl: `JobLeavesHardware` speaks of the
  job's end, not of the mode it leaves; ProfileApply: `stale`);
* two syncs overlap and leave intervals that differ from the settings (`overlap`);
* a lost save or call leaves a rate on the page that the daemon does not have (`lost`);
  syncs sent by saves that change no rate are left out;
* a start threshold at or above the end after a failed write, from a single setter, or
  from a page without lists (`trail.apart`);
* a reset of offsets that NVML refused is taken for done and not tried again (`lost`);
* a torn settings file makes the load fall back to defaults (`harmed`);
* a tray click handled after the list shrank hits another profile: `TrayAgrees` is
  about the menu, not about a click on its way;
* Reset on the tuning page renames a profile to "Standard" (`renamed`);
* two keyboard calls mix their writes, a write fails unnoticed, or Save is skipped after
  a preview (`raced`, `failed` and the skip).

### Fairness

* FanControl: the job's steps, and the controller in manual mode; `Settled` of
  the job strongly, because the driver's `msleep` ends whatever the fans do.
  Clients need not act.
* PollScheduler: time passes, callbacks end. `select!` polls its branches in
  random order, so neither can lose for ever to the other: strong fairness of
  both. Callers need not act.
* GpuDetection and GpuOverclock: the scheduler starts each job again and again
  (`JobsKeepRunning`), strongly, because another job or an armed call may
  hold it up in between (in GpuDetection a run of the overclocking job is `Overclock`
  or `Forget`, as the mode says); what was begun is ended, weakly. The pass's NVML call and
  time are strongly fair: a tick and a pass may each be disabled by the other
  now and then. No client need call.
* GuiClient: coordinator, tasks, worker and UI thread are scheduled for ever. A
  D-Bus call ends if the daemon answers or the connection is gone; a hung daemon
  need not answer. Nobody must quit, update or fail. `Refresh` and `SendUpdate`
  are strongly fair because the bounded set of tasks and the full channel
  disable them now and then.

## 4. Proofs

Eight modules hold proofs. They are for every value of the constants, under the named
assumptions only: any number of clients, calls, tasks, fans, jobs, CPUs and faults, any
rates, offsets, profiles, thresholds, keyboards, curves, names and limits.

| Module | Theorem | States |
|---|---|---|
| `FanControl_proofs` | `TypeCorrect`, `FlagTheorem`, `WriteTheorem`, `PreservationTheorem` | `TypeOK`, `StaleFlagOnlyByRace`, `NoBlindWrite`, `OthersPreserved` |
| `PollScheduler_proofs` | `TypeCorrect`, `Refinement`, `NoStarvation`, `SettledTheorem` | `TypeOK`, `KeepsPromise`, `NoOvertaking`, `SettledIntervals` |
| `ProfileApply_proofs` | `TypeCorrect`, `FollowTheorem`, `SuccessTheorem`, `RememberedTheorem` | `TypeOK`, `GpuFollowsLast`, `SuccessIsApplied`, `RememberedIsApplied` |
| `DaemonSetters_proofs` | `SettersTypes`, `FreqReplies`, `FreqRestored`, `ChargeAsAsked`, `PerfStays`, `LightShown` | `TypesOK`, `RepliesAreTrue`, `RestoredOnExit`, `ThresholdsAsAsked`, `ChoiceStays`, `AskedIsShown` |
| `GpuDetection_proofs` | `TypeCorrect`, `LiveTheorem`, `OverrideTheorem`, `SleepTheorem` | `TypeOK`, `FullIsLiveUnless`, `OverrideEnds`, `SuspendedStays` |
| `DaemonGpu_proofs` | `GpuTypes`, `OffsetsBelieved`, `OffsetsTold`, `RatesMeasured` | `TypesOK`, `BeliefBrokenOnlyOutside`, `OffsetsAsTold`, `RateIsTraffic` |
| `GuiClient_proofs` | `TypeCorrect`, `OrderTheorem`, `BackTheorem` | `TypeOK`, `AutoBeforeShutdown`, `BackOnlyByOverlap` |
| `Desktop_proofs` | `DesktopTypes`, `ProfilesSurvive`, `AppliedIsCurrent`, `MenuAgrees`, `CurveFollowed`, `AddKeeps`, `RatesAreInForce` | `TypesOK`, `ProfilesKept`, `CurrentIsApplied`, `TrayAgrees`, `CurveIsFollowed`, `AddKeepsCurve`, `RatesInForce` |

None of the properties is inductive. Each module strengthens them by what the code
knows at each of its labels:

* **FanControl.** From the disable ioctl on an operation that is not tainted has the
  hardware in manual mode with settled duties, and the slots read so far hold the
  commanded duties (`AllRead` when the loop has ended). `IInv` is the conjunction;
  `QuietStep` covers the actions that leave what matters alone.
* **PollScheduler.** `RunInv`: a job in the batch is due and registered, a job that
  waits to be added has never run, and the wait left plus the time since the last
  callback is at least the interval. With it every step maps to a step of
  `PeriodicJobs` or a stutter. `OvertakeInv` bounds the count of runs by what
  may still start in the batch under way. `SyncInv` relates the stored settings to
  the intervals through the updates that are still in the channel or in a call.
* **ProfileApply.** `Follow`: while no two calls crossed at most one is between the
  two globals. `Progress`: an undisturbed call has left behind stages that are as
  its profile asks, silent stages that failed with a failure on record, or fans and
  offsets that a tick under way may write over. A tick that takes its copy after
  the stage was written takes the profile's own settings, so it leaves alone what the
  profile owns.
* **CpuFreqLimits** (`FreqInv` in `DaemonSetters_proofs`). A call that no other
  overlaps splits the CPUs at its loop variable: those before have what it asked
  for, those after what they had (`FreqSoleInv`). Limits other than the hardware's
  are the work of a call that succeeded, failed part-way or is under way
  (`FreqRestore`). Counting online CPUs needs the library's facts on cardinality.
* **ChargeControl** (`ChargeInv`). What an undisturbed call has still to write leads
  from the EC's thresholds to the ones asked for (`ChargeUndisturbed`), although
  each file's store writes back the other two values it read; every file is written
  at most once (`ChargeIsTodo`). A call that fails has its remaining writes taken off
  what it asked for, which splits on where in the three steps of a store it was.
* **PerfProfile** (`PerfInv`). The mode of the last choice is in the register, or it
  is the last of the writes that the call under way has still to make, and every fan
  ioctl under way has read it.
* **KeyboardLight** (`LightInv`). The writes that the page's call has still to make
  lead from the keyboard as it is to the mode asked for (`LightLeads`): each field of
  each LED has the mode's value or a write left for it, and no write left has another
  value. The page's draft is a mode that the capabilities let it offer. It is proved of
  the *set* of writes left, so the order of the register writes does not matter.
* **GpuDetection.** `Armed`: a call that has yet to look at the override finds it
  armed, or another pass consumed it. `Answered`, `Forced`: a full pass ends with
  a result of its own and runs by force or on an active GPU. `KeptAwake`: whoever is
  about to call NVML is a pass of one of these two kinds, a client or the reset. An
  armed override always has a pass that will take it back, or it is on record as
  `stranded`.
* **GpuOverclock** (`ClockInv` in `DaemonGpu_proofs`). `ClockBelief` follows the job's
  offset through its write; `ClockMirror`: while nothing was lost, the map equals the
  GPU up to the one write that is on its way; `ClockAskedInv`: the offset asked for
  last is in force, or its write is the only one to come.
* **Telemetry** (`TeleInv`). Of any two readings of a counter that are kept or under
  way, and of each reading and the counter's present value, the later gained no more
  than what passed in between (`TeleRateKept`); of two readings of the CPU's ticks one
  is the earlier in every kind of tick (`TeleCpuKept`), so that a load computed from
  readings stored in the wrong order is still a share of the time.
* **GuiClient.** `QueueInv`: a task's request is in the queue exactly while it
  waits, once. `ExitOrder`: what queue and history can hold at each point of
  on_exit, the first command always in front. `Fresh`: an answer whose request was
  alone is as new as anything of its component on the screen or in the channel.
* **GuiApp** (`AppInv` in `Desktop_proofs`). `Formed`: until the tuning page renames a
  profile, every name is there once, with Standard and the current one, in memory and in
  each readable file. `Kept`: a file is torn only while it is written, and
  `profiles.json` is one save behind the user's profiles at most. `Menu`: where the
  tray's menu is wrong, one of the two values that `sync_tray` compares is stale, or
  the last waiting event is the entry it shows. The work is in what removing, adding and
  looking up do to a list of profiles.
* **FanCurve** (`CurveInv`). A curve that Save checked gives each temperature one speed.
  From there on the theorem is about the operators: every position is the rank of one
  point, so that sorting permutes the points and raises the temperatures
  (`CurveRankOnto`, `CurveSortedFacts`); between the ends there is a first segment that
  holds the temperature, and its ends differ (`CurveSegmentFacts`: hence no 0/0 and no
  fallback); the rounded quotient lies between the speeds of the segment and is exact at
  its ends (`CurveValueFacts`). A new point on a segment, its speed rounded down, splits it
  into two whose values stay within a percent of the old one after rounding
  (`CurveBendFacts`); elsewhere the point changes nothing, since a curve's value depends on
  the two points next to the temperature only (`CurveAdjacentFacts`, `CurvePlaceFacts`).
* **PollRates** (`RatesInv`). `RateAwake`: the sleep is at most what any component has
  left. `RateAllHeard`: the last command for a component carries its rate, and one
  without a command has it. `RateWaiting`: the last calls under way carry the file and
  the slider's rate. `RateFollowed`: the jobs follow what was stored or what the slider
  sent.

The proofs have a lemma for each action or group of actions, an induction step that
puts them together, and theorems that follow from `Init => I`, `I /\ [Next]_vars => I'`
and `I => P` by temporal reasoning. In a composition each part keeps an invariant of
its own and another part's step is a stutter of it (`SettersStay`, `GpuStay`,
`DesktopStay`). The
invariants were checked with TLC first.

What the constants are assumed to be is what the code makes of them: at least one
CPU and a hardware range that is not empty; threshold lists that are not empty, ascend
within 1 to 100, have a start below each end, as the driver's do, and hold the page's
defaults; keyboards of
the kinds in `MachineType`, the older driver's LEDs being coloured; previews of other
clients that carry a colour where their mode has one; zero among the offsets; curves with
temperatures and speeds up to 100, those of the editor with two points at least; finitely
many names, "Standard" not among those the user gives; poll intervals above zero.

Proving `SuccessIsApplied` showed that an earlier wording claimed too much: it
asked for every stage, but some fail without failing the call, the keyboard's among
them for every kind of keyboard; the property now speaks of the stages whose
failure is reported. Proving `AskedIsShown` needed two assumptions that the
instance's keyboards and previews met unsaid, and they are now in `KeyboardConstants`.
Proving `RatesInForce` refuted it: with three faults a save fails, the daemon starts
anew and the application then starts from its file, so that the rate it had told the
daemon is in force and on no page, and no sync removes it. The run allowed two faults. The
property now speaks of what the application forgot, and the run allows three.

Only model-checked:

* liveness (`JobLeavesHardware`, `JobsKeepRunning`, `EventuallyShown`, `ExitEnds`,
  `IdleSuspends`, `OffClears`), which is out of the prover's reach, as is ENABLED.

Every invariant and every other action property of a passing run is stated by a
theorem.

No module uses RECURSIVE operators.

## 5. Where documents and code differ

Six runs end in a counterexample on purpose, each for a sentence of the
repository that the code does not keep; `findings` in `PROJECT.json` quotes them:
the fan flag, the skipped retry, the unrestored limits, the TDP ids, the
unrecognised connection loss, the full GPU request. Smaller differences and
observations, met on the way and without a run:

* `from_statistics_json` is documented to fall back to defaults on parse errors;
  it returns the error (`daemon_settings.rs` 197-203).
* `gui-state-sync.md` says that ten failures force a reconnection; the
  comparison is made before the increment, so it is the eleventh.
* `UpdatePollingInterval` is neither clamped nor stored, so a later
  SyncDaemonPollSettings with the stored values does not undo it. With "cpu" and
  other component names it names no job and is silently ignored. The sync
  compares with the stored settings and not with the intervals in force, so a
  difference left by a lost call stays. The GUI does not sync at its start; a
  daemon run as a service has no user HOME and starts with defaults.
* The comment in `set_cpu_frequency_limits` says "set max first"; the condition
  does so too when the new maximum is below the old minimum, where it fails.
* The comment in `on_exit` says that commands are processed before the runtime
  closes; two timeouts of two seconds bound that.
* Detection: with two GPUs `get_all_fan_info` asks only whether GPU 0's snapshot
  is fresh, so polling keeps GPU 1 awake. The comments at `hardware_detection.rs`
  50-56 and 2299-2311 say that only a GPU at zero load is served from the cache;
  any load below P0 is. A WiFi rate jumps when its source changes. The previous
  reading of a storage device is kept by name.
* Fan curves: "Find largest gap" does not look at the gaps at the ends (points at
  60 and 70 only get a new one at 85). Temperatures above 100 come from hand-edited
  files only.
* Configuration: with hide-on-close and a tray that failed to start the window
  cannot be brought back. Switching from the tray is not saved. A click carries a
  position and may hit another profile when the list shrank. Reset on the tuning
  page renames a profile that is not "Standard" to it. A torn settings file makes
  the load fall back to defaults, and the next save overwrites intact profiles.
* The core offset slider of the standard controls drops the future of its
  follow-up send (`let _ = tx.send(..)` without await), so the clock ranges it asks
  for never arrive.
* Battery: disabling the checkbox tells the daemon nothing; the page says applied
  whatever the reply is. Before the lists are there the page does not check the pair
  and sends what it has; a pair is saved before it is checked.
* The override of GetGpuInfoFull is said to be consumed by the next pass
  (`dbus_interface.rs` 96-104). A pass that finds no device or no NVML leaves it
  armed, and it then forces a poll of the monitor once there is a device.
* Under manual clocks off the overclocking job resets the offsets without looking at
  the runtime status, and so wakes a suspended GPU once.
* A fan or overclocking tick works on a copy of its settings and can write after a
  call has replaced them.
* Performance profiles: `TuxedoIo::shared()` remembers a failure for ever. On
  Uniwill machines that need the enthusiast profile for TDP limits, setting limits
  takes a chosen profile back.
* Keyboard: Save of the profile that was applied last is skipped though a preview
  changed the light since. On keyboards with mode files and no Clevo ioctl a static
  mode does not end an effect. A Clevo keyboard without LEDs never gets the colours
  of Breathe and Flash. The capabilities and the writes find the LEDs by different
  rules. An ITE controller without LEDs is offered Per-Key with no keys. `set_mode`
  never returns an error.

## 6. Not modelled, and why

* Webcam, screen brightness outside profiles and the PRIME profile: one ioctl,
  one sysfs write or one run of an external tool per call, no state in the program.
* The daemon's logger: a ring buffer behind one mutex with two operations.
* GUI drawing, theme, shortcuts, log and statistics pages: values drawn anew in
  every frame. One-shot replies to pages (clock ranges, log lines).
* The D-Bus read methods: a clone of the cache or of a value read at once. The
  publication of a pass's result in `HARDWARE_CACHE`, where a pass begun earlier can
  overwrite a newer result for one poll.
* Parsing of sysfs, `/proc`, tool output and NVML answers into structures.
* GPU clock locks, power limits and GPU fans: single NVML calls without state.
* More than one GPU; the Uniwill fan path, but for its race with the profile register.
* Keyboard effects' speed and colours beyond two; the contents of a profile in
  GuiApp.
* The vendored drivers beyond the fan ioctls, flexicharger and the mode register;
  `nvidia/`, from which nothing is built; packaging.

What could come next: an abstract specification of who owns the fans with FanControl
shown to implement it outside its one race, and the cache's publication next to
GpuDetection.
