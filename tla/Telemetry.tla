------------------------------ MODULE Telemetry ------------------------------
(* The rates that hardware_detection.rs derives from counters of the kernel: *)
(* CPU load, package power, WiFi and storage throughput.  Each reading is    *)
(* compared with the one before it, which a static keeps.                    *)
(* refresh_hardware_cache runs in the hardware_monitor job and, after a      *)
(* change of the P-state driver, in the thread of a D-Bus call: two readings *)
(* can be under way, and the counters are read before the lock on the static *)
(* is taken.                                                                 *)
EXTENDS Naturals, FiniteSets

CONSTANTS
    Refreshers,   \* the threads that run refresh_hardware_cache
    MaxEvents,    \* bound on what happens on the machine in a run
    Wrap,         \* the energy counter starts again from zero here
    None          \* model value: no reading, no rate

TelemetryConstants == None \notin Nat /\ MaxEvents \in Nat /\ Wrap \in Nat \ {0}

VARIABLES
    present,    \* what the machine has of the four (constant)
    events,     \* number of events so far: the clock
    cpu,        \* /proc/stat of a CPU: the ticks that matter
    energy,     \* energy_uj, and the energy spent since the start
    wifi,       \* byte counters of the link, by source
    disk,       \* a block device: its sector counter, and the sectors moved
                \* under its name since the start
    prev,       \* the PREVIOUS_* statics
    reading,    \* where each refresher is, and what it has read
    shown       \* the last rates computed

vars == <<present, events, cpu, energy, wifi, disk, prev, reading, shown>>

Counters == {"cpu", "rapl", "wifi", "disk"}

NoRate == [amount |-> None, passed |-> 0, mixed |-> FALSE]
Idle == [pc |-> "idle", sample |-> None]

Init ==
    /\ present \in SUBSET Counters
    /\ events = 0
    /\ cpu = [user |-> 0, irq |-> 0, idle |-> 0]
    /\ energy = [counter |-> 0, spent |-> 0]
    /\ \E a \in BOOLEAN : wifi = [iw |-> 0, sysfs |-> 0, associated |-> a]
    /\ disk = [sectors |-> 0, moved |-> 0]
    /\ prev = [cpu |-> None, rapl |-> None, wifi |-> None, disk |-> None]
    /\ reading = [a \in Refreshers |-> Idle]
    /\ shown = [cpu |-> [work |-> 0, total |-> 0], rapl |-> NoRate, wifi |-> NoRate,
                disk |-> NoRate]

\* u64::saturating_sub
Saturating(x, y) == IF x > y THEN x - y ELSE 0

-----------------------------------------------------------------------------
(* A refresh reads one counter after another; they share nothing, so the order
   is left open *)

At(a, pc) == reading[a].pc = pc
Go(a, pc, sample) == reading' = [reading EXCEPT ![a] = [pc |-> pc, sample |-> sample]]

\* read_cpu_stats
ReadCpu(a) ==
    /\ At(a, "idle") /\ "cpu" \in present
    /\ Go(a, "cpu", cpu)
    /\ UNCHANGED <<present, events, cpu, energy, wifi, disk, prev, shown>>

Work(s) == s.user + s.irq

Total(s) == s.user + s.irq + s.idle

\* calculate_cpu_load, with the lock held: no time passed is no load.
Load(before, now) ==
    LET total == Saturating(Total(now), Total(before)) IN
    [work |-> IF total > 0 THEN Saturating(Work(now), Work(before)) ELSE 0,
     total |-> total]

StoreCpu(a) ==
    /\ At(a, "cpu")
    /\ shown' = [shown EXCEPT !.cpu =
          IF prev.cpu = None THEN [work |-> 0, total |-> 0]
                             ELSE Load(prev.cpu, reading[a].sample)]
    /\ prev' = [prev EXCEPT !.cpu = reading[a].sample]
    /\ Go(a, "idle", None)
    /\ UNCHANGED <<present, events, cpu, energy, wifi, disk>>

\* energy_uj is read, and the clock with it.
ReadRapl(a) ==
    /\ At(a, "idle") /\ "rapl" \in present
    /\ Go(a, "rapl", [value |-> energy.counter, passed |-> energy.spent, at |-> events])
    /\ UNCHANGED <<present, events, cpu, energy, wifi, disk, prev, shown>>

\* A counter that went back counts as no energy.
EnergyDiff(now, before) == Saturating(now, before)

\* try_rapl.  A reading within 10 ms of the one before is dropped, and so is
\* one that was overtaken: its interval saturates to zero.
StoreRapl(a) ==
    LET s == reading[a].sample
        p == prev.rapl IN
    /\ At(a, "rapl")
    /\ \/ /\ p # None
          /\ shown' = [shown EXCEPT !.rapl = NoRate]
          /\ UNCHANGED prev
       \/ /\ p # None => s.at >= p.at
          /\ shown' = [shown EXCEPT !.rapl =
                IF p = None THEN [NoRate EXCEPT !.amount = 0]
                ELSE [amount |-> EnergyDiff(s.value, p.value),
                      passed |-> Saturating(s.passed, p.passed), mixed |-> FALSE]]
          /\ prev' = [prev EXCEPT !.rapl = s]
    /\ Go(a, "idle", None)
    /\ UNCHANGED <<present, events, cpu, energy, wifi, disk>>

\* The byte counters come from `iw dev link` when there is a link, otherwise
\* from sysfs, otherwise they count as zero.
WifiSources == IF wifi.associated THEN {"iw"} ELSE {"sysfs", "none"}

ReadWifi(a) ==
    /\ At(a, "idle") /\ "wifi" \in present
    /\ \E source \in WifiSources :
          Go(a, "wifi",
             [value |-> CASE source = "iw" -> wifi.iw
                          [] source = "sysfs" -> wifi.sysfs
                          [] OTHER -> 0,
              source |-> source, passed |-> wifi.sysfs, at |-> events])
    /\ UNCHANGED <<present, events, cpu, energy, wifi, disk, prev, shown>>

\* Mutant: the subtraction does not saturate.
ByteDiffWraps(now, before) == (now + MaxEvents + 1 - before) % (MaxEvents + 1)

ByteDiff(now, before) == Saturating(now, before)

\* read_wifi_rates takes the time when the bytes have long been read: there is
\* an interval also for a reading that was overtaken.
StoreWifi(a) ==
    LET s == reading[a].sample
        p == prev.wifi IN
    /\ At(a, "wifi")
    /\ shown' = [shown EXCEPT !.wifi =
          IF p = None THEN NoRate
          ELSE [amount |-> ByteDiff(s.value, p.value),
                passed |-> Saturating(s.passed, p.passed),
                mixed |-> s.source # p.source \/ s.at < p.at]]
    /\ prev' = [prev EXCEPT !.wifi = s]
    /\ Go(a, "idle", None)
    /\ UNCHANGED <<present, events, cpu, energy, wifi, disk>>

\* read_storage_stats; the other three counters of the line behave alike.
ReadStorage(a) ==
    /\ At(a, "idle") /\ "disk" \in present
    /\ Go(a, "disk", [value |-> disk.sectors, passed |-> disk.moved, at |-> events])
    /\ UNCHANGED <<present, events, cpu, energy, wifi, disk, prev, shown>>

\* calculate_storage_rates knows a device by its name: the entry of one that was
\* removed is kept for the next device of that name.
StoreStorage(a) ==
    LET s == reading[a].sample
        p == prev.disk IN
    /\ At(a, "disk")
    /\ shown' = [shown EXCEPT !.disk =
          IF p = None THEN NoRate
          ELSE [amount |-> Saturating(s.value, p.value),
                passed |-> Saturating(s.passed, p.passed), mixed |-> s.at < p.at]]
    /\ prev' = [prev EXCEPT !.disk = s]
    /\ Go(a, "idle", None)
    /\ UNCHANGED <<present, events, cpu, energy, wifi, disk>>

-----------------------------------------------------------------------------
(* The machine *)

Event(kind) ==
    /\ kind \in present /\ UNCHANGED present
    /\ events < MaxEvents /\ events' = events + 1

\* Time passes, spent in one of the ways /proc/stat tells apart.
Tick ==
    /\ Event("cpu")
    /\ \E kind \in {"user", "irq", "idle"} : cpu' = [cpu EXCEPT ![kind] = @ + 1]
    /\ UNCHANGED <<energy, wifi, disk, prev, reading, shown>>

Spend ==
    /\ Event("rapl")
    /\ energy' = [counter |-> (energy.counter + 1) % Wrap,
                  spent |-> energy.spent + 1]
    /\ UNCHANGED <<cpu, wifi, disk, prev, reading, shown>>

Transfer ==
    /\ Event("wifi") /\ wifi.associated
    /\ wifi' = [wifi EXCEPT !.iw = @ + 1, !.sysfs = @ + 1]
    /\ UNCHANGED <<cpu, energy, disk, prev, reading, shown>>

\* The counters of the station start at zero with each association.
Associate ==
    /\ Event("wifi")
    /\ wifi' = [wifi EXCEPT !.iw = 0, !.associated = ~@]
    /\ UNCHANGED <<cpu, energy, disk, prev, reading, shown>>

MoveSectors ==
    /\ Event("disk")
    /\ disk' = [sectors |-> disk.sectors + 1, moved |-> disk.moved + 1]
    /\ UNCHANGED <<cpu, energy, wifi, prev, reading, shown>>

\* The device is unplugged and another one gets its name.
Replug ==
    /\ Event("disk")
    /\ disk' = [disk EXCEPT !.sectors = 0]
    /\ UNCHANGED <<cpu, energy, wifi, prev, reading, shown>>

-----------------------------------------------------------------------------

Refresh(a) ==
    \/ ReadCpu(a) \/ StoreCpu(a) \/ ReadRapl(a) \/ StoreRapl(a)
    \/ ReadWifi(a) \/ StoreWifi(a) \/ ReadStorage(a) \/ StoreStorage(a)

Next ==
    \/ \E a \in Refreshers : Refresh(a)
    \/ Tick \/ Spend \/ Transfer \/ Associate \/ MoveSectors \/ Replug

Spec == Init /\ [][Next]_vars

-----------------------------------------------------------------------------
(* Properties *)

TypeOK ==
    /\ present \subseteq Counters
    /\ events \in 0 .. MaxEvents
    /\ cpu \in [user : 0 .. MaxEvents, irq : 0 .. MaxEvents, idle : 0 .. MaxEvents]
    /\ energy.counter \in 0 .. (Wrap - 1)
    /\ \A a \in Refreshers :
          reading[a].pc \in {"idle"} \cup Counters
    /\ \A k \in {"rapl", "wifi", "disk"} : shown[k].amount \in {None} \cup 0 .. MaxEvents

\* No rate claims more than what passed between the two readings it compares,
\* across wrapped and restarted counters and overlapping refreshes; the
\* exceptions are WiFi and storage rates whose readings were stored in the wrong
\* order and WiFi rates whose readings come from different counters.  A CPU load
\* is a share of the time passed.
RateIsTraffic ==
    /\ shown.cpu.work <= shown.cpu.total
    /\ \A r \in {shown.rapl, shown.wifi, shown.disk} :
          r.amount # None => r.amount <= r.passed \/ r.mixed
=============================================================================
