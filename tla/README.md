# Edge-Omni: TLA+ models and proofs

Edge-Omni is the firmware of a small sensor gateway (an Orange Pi Zero with an
MPU6050 motion sensor and an SHT30 temperature/humidity sensor): one C process,
two kernel modules, and a shell script that upgrades it in the field.  This
directory holds TLA+ models of its control logic, the configurations that
model-check them with TLC, and proofs checked by TLAPS.  Paths below are
relative to the root of the repository.

    tlc -workers 2 -config Collector.cfg Collector.tla      # any run below
    tlapm CollectorProofs.tla                               # any *Proofs.tla

## 1. The system

| Part | State it keeps | Operations | Talks to |
|---|---|---|---|
| **State machine** `app/core/fsm.c` | `current` (INIT, RUNNING, DEGRADED, RECOVERING, FAULT) under a mutex | `fsm_transition`, `fsm_get_state`, `fsm_wait_for_state` | raised by main and collector, read by web |
| **Collector** `app/main.c`, `collector_thread` | two device handles, three failure streaks | start-up probe, then every 100 ms: read MPU6050, read SHT30, publish | HAL, state machine, database, registers, metrics, heartbeat |
| **Web thread** `app/main.c`, `web_thread` | one client at a time | accept, receive (5 s timeout), answer `/`, `/metrics` | heartbeat, state machine, metrics |
| **Watchdog monitor** `app/core/watchdog.c` | last heartbeats, two dead counts, dead thread | every second: compare heartbeats, feed `/dev/watchdog` or give up | heartbeats of collector and web, hardware watchdog |
| **Ring buffer** `app/core/ring_buffer.c` | two 32-bit atomic indices, slots | `write`, `read`, `count` | driven only by `ring_buffer_test.c` |
| **Modbus server** `app/modbus/modbus_server.c` | blacklist of 16 addresses, four registers | serve one connection at a time, count illegal requests, ban | collector (registers), `iptables` |
| **OTA script** `scripts/ota_upgrade.sh` | link `/app/current`, directories v1 and v2 | download, unpack, switch, poll the success flag, roll back | systemd, `/tmp/ota_success_flag` written by `main` |
| **Database** `app/core/db_manager.c` | batch in memory, SQLite file | insert, flush, alarm, check and repair, backup | collector, main |
| **Metrics** `app/core/metrics.c` | window of 1024 latencies, gauges | `record_latency`, percentiles | collector, web |
| **Sensor HAL** `app/hal/*.c` | descriptors, cache of six channels | open, read, close | collector, kernel modules |
| **Kernel modules** `kernel-drivers/*` | latest SHT30 measurement; input device of the MPU6050 | probe, remove, periodic work | HAL |
| **main** `app/main.c`, `edge-omni.service` | — | start everything in order, write the success flag | all |

What is hard here, and what would make each part correct:

- *Collector*: sensors and kernel modules come and go at any point of the loop,
  and event numbers are not names.  The failure counts must agree with the
  reported state, no descriptor may leak, a lost sensor must be noticed and a
  returned one used again.
- *Watchdog*: the monitor, the threads it watches, the hardware's timer and
  systemd all run on clocks of their own.  Silent threads must be noticed in
  time, live ones never be blamed, and the board be reset only for a reason.
- *Ring buffer*: two lock-free threads, index wrap, slots copied in pieces.
  Every item must arrive once, whole, in order.
- *OTA*: any command may fail, the new program may die, power may fail between
  two commands.  A program must always be left to boot, and success must mean
  that the new version runs.
- *Modbus*: a table that evicts, counts that outlive connections, and two bans
  that end at different times must not contradict each other.
- *Database*: results of SQLite are ignored, so a failed insert or commit drops
  rows and a locked COMMIT leaves a transaction open; crashes and power failures
  come between any two steps.  The file must stay a log in order, and nothing be
  lost unless something failed.
- *Sensor HAL and drivers*: events are queued three times on their way, counted
  without regard to their channel, and read slower than they come.  Buffers must
  not overrun, samples not be mixed, a live sensor never look dead.
- *Values on their way out* (driver, collector, registers, `/metrics`, latency
  window): nothing is locked, every field is stored and loaded by itself.  The
  fields of one reply must be close in time, and never run backwards.

`PROJECT.json` lists every hazard at its line with the properties that cover it.

## 2. The modules

| Module | Models | Extends |
|---|---|---|
| `Fsm` | transition table and `fsm_transition`, as operators | — |
| `Collector` | `collector_thread` with sensors, modules, other input devices | `Fsm` |
| `CollectorProofs` | theorems about `Collector` | `Collector`, `TLAPS` |
| `Watchdog` | monitor, heartbeats of both threads, hardware watchdog, systemd | — |
| `WatchdogProofs` | theorems about `Watchdog` | `Watchdog`, `TLAPS` |
| `RingBuffer` | `ring_buffer_write`/`read` with the test's two threads | — |
| `Fifo` | abstract: a bounded queue between two threads | — |
| `RingBufferProofs` | theorems about `RingBuffer` | `RingBuffer`, `TLAPS` |
| `Ota` | `ota_upgrade.sh` with systemd, the service, power failures | — |
| `OtaProofs` | theorems about `Ota` | `Ota`, `TLAPS` |
| `Modbus` | connections, blacklist, packet filter | — |
| `ModbusProofs` | theorems about `Modbus` | `Modbus`, `TLAPS` |
| `SampleLog` | abstract: what a reader of the database file may rely on | — |
| `Database` | `db_manager.c` with SQLite, crashes, power failures | — |
| `DatabaseProofs` | theorems about `Database` | `Database`, `TLAPS` |
| `MpuHal` | `mpu6050.c`, evdev, libevdev, `mpu6050_hal_read` | — |
| `MpuHalProofs` | theorems about `MpuHal` | `MpuHal`, `TLAPS` |
| `Telemetry` | `sht30.c`, `sht30_hal_read`, `metrics.c`, the registers, `/metrics` | — |
| `TelemetryProofs` | theorems about `Telemetry` | `Telemetry`, `TLAPS` |

`RingBuffer` and `Database` implement `Fifo` and `SampleLog`: each has an
`INSTANCE` of the abstract module and states its specification as a property.

Definitions commented "Variant: ..." are not part of the specifications.  Each
is a wrong form of the definition after it, an error one could make in that
code; put in its place, it makes a property of the module fail.  They show
that the properties say something about the code.

### Collector

`pc` follows the thread through `main`, its set-up, the start-up probe
(`warmup`, one step per event node), the opening of the SHT30, and then round
the loop: `top` (reopen if there is no handle), `read`, `sht`, `publish`.  Each
step is one piece of code between two points where the hardware can change
something the thread sees.  `mpu_handle` and `sht_handle` record what is
*behind* a handle: a removed module turns it into `gone` (reads fail), another
input device is `other` (opens well, never sends `EV_ABS`).  `open_fds` counts
descriptors, independently of the handle.

`CountMpuFailure` and `CloseAndReprobe` are code that the source repeats in
three places.  The streaks stop at `StreakCap`: the code only compares them
with 0 and 3.  The SHT30 is unreadable only before the driver's first
measurement or after its module was removed, because `sht30.c` never takes a
measurement back.

Environment: other input devices stay as they are and deliver no samples; a new
device gets the lowest free number (as the input core does); opening a node
that exists succeeds; a sampling MPU6050 has data at each read (it samples every
10 ms, the loop takes 100 ms).

### Watchdog

Time passes in seconds.  In each second the monitor checks once and a live
thread feeds at least once, in any order; `Tick` ends the second when all that
has happened.  Of a heartbeat only "moved since the monitor looked" is kept,
since the monitor only compares it for equality.  A thread is `live`, `waiting`
in a call that times out (the web thread's 5 s receive, the collector's 2 s
probe), `stuck` in a call that may never return, or `gone`.  The hardware
watchdog counts from the moment it is opened, also after the process died.
A start takes its time (`process = "booting"`): `main` opens the database and has
SQLite check all of it before it creates a thread, and the file only ever grows,
so the model puts no bound on those seconds and does not even assume that they
end.  The ghosts `silence`, `ever_fed`, `gave_up`, `failed_starts` and `start_time`
are only written, for the properties.

### RingBuffer

One step per atomic access; the slot copy is split into the two fields the test
compares, in any order, so that a race shows as a torn item.  Indices wrap at
`Modulus` (2^32), a multiple of the capacity.  `written`, `taken` and `lapped`
are ghosts; the item written is its own number, as in the test.

`ImplementsFifo` maps the ring to module `Fifo`: the queue is what the slots
between the two indices hold (`Waiting`, read from the slots, not from ghosts),
the item in the consumer's hand is `data` once both its fields are copied.
Publishing the write index is `Put`, the last field copied out is `Look`,
publishing the read index is `Take`, and everything else is a stutter.  Overwriting
an unread slot is `Overrun`, which `Fifo` allows only with `Room` items waiting;
nothing is promised from then on.

### Ota

One step per command of the script that changes anything, `ln -sfn` as its two
system calls.  Directories hold a `good`, a `bad` (dies before the flag) or a
`broken` (being replaced) program.  The service's process starts whatever the
link points to, writes the flag, and may die at any time.  Every command that
changes something may fail, `systemctl` and `ln` too, which ends the script where
it is (`set -e`); commands that only read are taken to succeed.

The script never calls `sync`.  `links` and `saved` are what a power failure may
still leave of the link and of the files of v2; the kernel writes either back
whenever it likes (`LinkWrittenBack`, `FilesWrittenBack`), and `PowerFails`, at any
step, picks one of what is left.  v1, installed long before, is on the disk.
The timeout is by the wall clock, so `FlagMissing` may skip seconds; a clock that is
set back while the script waits would prolong the wait and is left out.  A reboot
empties `/tmp`.  The check after `ln` that the link is what was just
written is left out: nothing else writes it, so its error branch is dead.

### Modbus

The server thread serves `serving`; further connections wait in the kernel's
`backlog`.  `g_blacklist` is the table with `ban_until` as seconds left; `rules`
is the packet filter, which a restart of the process does not clear and a
reboot does.  Packets of an address in `rules` no longer arrive, but requests
already in the socket are still served.  Each call of `iptables` may fail by
itself, which the server does not notice: the entry is made, the rule is not.
`announced` and `evicted` are ghosts: the seconds left of the ban that was announced,
and who lost its entry to another address since.  Legal requests change nothing
that is modelled.

### Database

The batch, the flush row by row, and what each SQLite call may do: BEGIN inside
an open transaction fails; an INSERT that fails is skipped, and may roll the
transaction back, after which the rows left are inserted one by one; a COMMIT
that finds the file locked leaves the transaction open, so that the rows of the
next flush join it.  `db_manager.c` looks at none of these results.  `stored` is
what is committed, `durable` how much of it has been checkpointed (write-ahead
log with `synchronous=NORMAL`: a power failure may take the rest, from the end).
At a start `db_init` needs a sound schema; `db_check_and_repair` moves the backup
over a file that the check finds damaged, or that it could not check.

A power failure may damage the file and the backup, in a way the check sees or
not; a backup during which the process dies, the empty file a failed one leaves, a
restored file to which the write-ahead log of the old one is applied, are damaged,
too.  What a damaged file holds is not modelled: it may be anything, and `stored`
then stands only for what it would have held.  Taken on trust: the move of the
backup is on the disk at once, and what SQLite promises of an undamaged file.

`db_backup` and `db_insert_alarm` have no caller in the
program; `extras` chooses whether there is one.  A sample is its number; the
collector's round takes some of `RoundRows` samples and then sleeps for longer
than `BATCH_TIMEOUT_MS`.

`SampleLog` is the promise: the file is a log in the order of the samples, each
at most once; it grows at its end, a power failure cuts what was not durable,
and a restore puts the backup, itself such a log, in its place.  A damaged file or
backup is `Garbled` there: nothing is promised of it, and only the restore of an
undamaged backup ends that state.

### MpuHal

A value is the number of the sample in which its axis last changed.  The driver
reports the axes that changed (the input core drops values that did not); evdev
keeps them for the reader and replaces all of them by SYN_DROPPED when its buffer
is full; libevdev takes over what it has room for and throws its queue away at
the event after a SYN_DROPPED; `mpu6050_hal_read` does the rest, one step per
event.  Environment: in a punctual round of the loop at most `RoundSamples`
samples are taken.  `Reopen` is what the collector does after ten empty reads.

What the model makes visible, none of which the code promises otherwise: the
caller's buffer holds six points, so a read takes six events per 100 ms while a
noisy sensor makes sixty, and a full evdev buffer with values that lag behind is
the normal state; `SYN_DROPPED` is not handled, so an axis that does not move
again after one keeps its old value; the cache counts events, not channels, so that
when some axis does not move a full cache may mix values of two samples; what a
read leaves in the cache is taken from the cache's end whatever channels it was, and
a channel never filled is handed out as `AX=0`.

### Telemetry

Every store and every load of the way out is a step: the three plain stores of
the driver and the register stores (relaxed) in any order, the pair
`g_fsm.temp_raw`, `hum_raw` in order.  A value is the number of its measurement.
The `memset` of `modbus_server_start` clears the registers when the collector is
already running.  `record_latency` is four steps, `calc_latency_percentile` copies
the window slot by slot.  Environment: a round is shorter than the driver's
second, and so sees part of at most one measurement.

## 3. What is checked

All bounds are CONSTANTS given in the `.cfg` files.

| Run | Bounds | States | Shows |
|---|---|---|---|
| `collector` | 3 event nodes, limit 3, 2 empty reads, cap 4 | 111,402 | seven properties below |
| `collector_decoy` | same | | `ReinsertedMpuRuns` is violated |
| `watchdog` | the real constants: 5 s, 5 s, 2 s, 3 s, 16 s | 59,160 | six properties below |
| `ring_buffer` | 4 slots, indices mod 8, 20 items, lead up to 7 | 6,889 | five properties below |
| `ring_buffer_loss` | same | | `ZeroDataLoss` is violated |
| `ota` | 3 seconds, 3 upgrades | 77,056 | five properties below |
| `ota_stale_flag` | same | | `FlagMeansV2Started` is violated |
| `modbus` | 3 clients, 2 entries, threshold 2, ban 2 s, backlog 2, 5 illegal requests | 357,674 | five properties below |
| `modbus_ban` | same | | `BanEnds` is violated |
| `database` | batch of 3, rounds of 0, 1 or 4 samples, 5 samples | 1,647,358 | four properties below |
| `mpu_hal` | 3 channels, queues of 6, 2 samples a round, 8 samples | 331,055 | four properties below |
| `telemetry` | window of 2, 3 registers, 3 rounds, 3 measurements | 4,717,882 | four properties below |

**collector.** `FsmMatchesStreak`: DEGRADED means at least three failures in a
row, and three failures are never reported as RUNNING.  `HandleOwnsOneFd`: no
descriptor leaks or is closed twice.  `DeadlockNeedsBoth`: RECOVERING is entered
only from DEGRADED with both sensors over their limit.  `DetectsRemoval`: an MPU
removed for good is noticed, also when the probe keeps opening another device.
`RestoresWithoutDecoy`: an MPU back for good is used again if its number is the
lowest.  `HealthyNeverDegrades`: decoys and SHT30 failures alone never degrade a
working MPU.  Three nodes give a decoy below, above and on both sides of the
MPU; the empty-read limit 2 has the same branches as 10; the cap lies above the
failure limit.  The real probe goes to event3: a fourth node adds no new case.

**watchdog.** `SilenceIsNoticed`: no thread is silent for more than six seconds
while the monitor feeds.  `BlamedWasSilent`: whoever is reported had been silent
for five seconds (four, if it never fed: the first check is made at once and
already counts).  `ResetNeedsCause`: the hardware fires only after the monitor
gave up, which it never does in test mode, or when no start after a crash came to
its monitor in time: systemd's pauses and the seconds the starts took then add up
to the hardware's timeout, but for a second.  (The bound is exact.  With the pause
of 3 s, one start may take 11 s; whether an integrity check of a file that grows
by about 80 rows a second stays below that is not for the model to say.)
`StuckIsNotForever`, `GivingUpIsFatal`: no process lives on with a stuck thread;
once the monitor gave up, only a crash of the process comes before the reset.

**ring_buffer.** The ring is *not* lossless (below).  What holds:
`ImplementsFifo`: until the producer laps the consumer the ring is a queue from
which every item comes once, whole and in order; `FirstLapIsBounded`: during the consumer's first lap the full
test works; `RefusalsAreHonest`: neither side is ever turned away wrongly;
`TestEnds`.  Twenty items are five laps and two and a half wraps of the indices.
`MaxLead` keeps the producer less than `Modulus` ahead: 2^32 unread items are
out of reach.  Both threads finish, so deadlock is not checked.

**ota.** `FreshFlagIsV2s`: if no flag was there when v2 was started, the flag
that is seen is a good v2's.  `PowerSafeFromV1`: an upgrade that starts from v1
leaves a complete program behind the link, whichever command fails and whenever
power does, with two exceptions: while `ln` replaces the link (if the script ends
there, there is none), and, when power fails after the switch, as long as the files
of v2 were not written back (`early_cut`).  It speaks of upgrades that start when
the link to v1 is on the disk; one started from v2 deletes what is running.
`RollbackIsToV1`: a completed rollback ends on an untouched v1, and only power that
fails before the link is on the disk moves it from there.  `ScriptEnds`.
Three upgrades reach v1 to v2, v2 to v2, and an upgrade after a failed one; the
number of seconds only delays.

**modbus.** `OneEntryPerClient`: no address has two entries.
`BannedNotServed`: for as long as its ban was announced no connection of an address
is served, whether or not the rule could be made, unless the table had to give its
entry away or the process restarted.
`CountIsThisConnections`: the count that leads to a ban is that of the present
connection, never one inherited from a slot's earlier owner.  `BannedForCause`:
nobody is banned for less than the threshold in one connection.  Three clients
for two entries force evictions; five requests pass the threshold twice.

**database.** `ImplementsLog`: through every failure an undamaged file stays a log
in order without duplicates, and shrinks only by a power failure or a restore.
`NothingLostWithoutTrouble`: as long as no SQLite call failed and the file is not
damaged, every sample of the process is in the file, the open transaction or the
batch.  `OldRowsLeave`: no
sample waits in memory beyond the next round that delivers any.  `TypeOK` has the
batch within its array.  Rounds of 4 with a batch of 3 flush in the middle of a
round and at its end; five samples leave room for a failed flush between two good
ones.

**mpu_hal.** `NothingSkipped`: until evdev runs over, the cache and the queues
together end in what the sensor shows, for every axis.  `SamplesStayTogether`: if
every sample changes every axis, the points of one read come from at most two
successive samples, whatever the reads before it left in the cache.
`ActiveDeviceIsHeard`: with a punctual loop a sensor of which anything changes is
never silent for more than two reads, so the ten empty reads that count as a
failure do not happen.  `TypeOK`: cache count and caller's buffer stay in bounds.
Queues of two samples' size overflow within three, and change sets of all axes or
one give full and partial caches.

**telemetry.** `PairStaysClose`: a pair handed on is of one measurement or two
successive ones; a reply's humidity is at most two measurements older than its
temperature, or the zero of a register just cleared.  (The bound is exact: with 1
TLC finds a violation.)  `RepliesMoveOn`: nobody is shown an older value than
before, in spite of the registers being cleared late.  `PercentilesAreRecent`: the
percentiles are of recorded latencies not older than the window, though the
window is written while it is copied and the count overshoots for a moment.  Three
rounds fill the window of two and overwrite it.

### Disagreements found

Each of these runs has one property, what a comment, a message or a test of the
repository says, and a counterexample from the code.

1. `collector_decoy`: the run-time probe (`app/main.c:173`) takes the first event
   node without the warm-up of the start-up probe.  With another input device
   below the MPU6050 a reinserted sensor is never found again, against
   `scripts/test_fsm_integration.sh:138-143`.
2. `ring_buffer_loss`: the full test compares a masked with an unmasked index
   (`app/core/ring_buffer.c:52`).
3. `ota_stale_flag`: the flag of v1's start passes for v2's
   (`scripts/ota_upgrade.sh:117`).
4. `modbus_ban`: the 300-second ban never ends in the packet filter
   (`app/modbus/modbus_server.c:97`).

Noticed while reading, without a run: nobody raises the events that leave
RECOVERING (`app/core/fsm.c:74`), so a board whose two sensors were off together
reports it until the process restarts; the web thread's receive timeout equals
the dead threshold (`app/main.c:470`, `app/core/watchdog.c:20`), so that which of
the two is first is a race; `ring_buffer_count` masks the difference of the
indices and calls a full, lapped ring empty; `db_init` fails on a damaged schema
before `db_check_and_repair` could use the backup (`app/core/db_manager.c:58`);
`metrics_generate` and `fsm_wait_for_state` have no caller; the latency index is a
signed 32-bit count whose remainder is negative after it wraps, in some years;
`watchdog_monitor_alive` is never set to 1 (`app/main.c:542` documents it); in
test mode `watchdog_dead_thread` stays after the thread is back; `watchdog.c:31`
says the device is not opened, just after opening it; `ota_upgrade.sh:161` says
the next upgrade overwrites v1, but v2 is always overwritten.

### Fairness

- *Collector*: `WF(Thread)`.  SCHED_FIFO 99 on its own core, non-blocking reads,
  finite sleeps.  Nothing is assumed of the hardware; liveness properties state
  what they need of it as a premise.
- *Watchdog*: time passes, live threads loop, timed waits end, the monitor
  checks, systemd restarts, the hardware fires.  No client ever sends anything,
  nothing stuck ever returns, nothing crashes, and no start comes to an end by
  fairness.
- *RingBuffer*: `WF` of either thread; both only sleep a microsecond and retry.
- *Ota*: `WF(ScriptSteps)`; no command of the script waits for the service.  The
  service is not fair: it may hang for ever.
- *Modbus*: time passes, and the kernel gives up a connection whose replies are
  never acknowledged.
- *Database*, *MpuHal*, *Telemetry* state no liveness and no fairness.

## 4. What is proved

For every value of the constants that satisfies the assumptions named in the
modules:

| Theorem | Property |
|---|---|
| `CollectorTypeOK` | types, with the empty-read count below its limit |
| `CollectorFsmMatchesStreak` | `FsmMatchesStreak` |
| `CollectorHandleOwnsOneFd` | `HandleOwnsOneFd` |
| `CollectorDeadlockNeedsBoth` | `DeadlockNeedsBoth` |
| `CollectorHealthyNeverDegrades` | `HealthyNeverDegrades` |
| `RingTypeOK` | types |
| `RingImplementsFifo` | `ImplementsFifo`, the refinement of module `Fifo` |
| `RingFirstLapIsBounded` | `FirstLapIsBounded` |
| `RingRefusalsAreHonest` | `RefusalsAreHonest` |
| `RingLosslessUnlessLapped` | whole items in order until the lap, from the invariant alone |
| `WatchdogTypeOK` | types, with the dead counts below their threshold |
| `WatchdogSilenceIsNoticed` | `SilenceIsNoticed` |
| `WatchdogBlamedWasSilent` | `BlamedWasSilent` |
| `WatchdogResetNeedsCause` | `ResetNeedsCause` |
| `OtaTypeOK` | types |
| `OtaFreshFlagIsV2s` | `FreshFlagIsV2s` |
| `OtaPowerSafeFromV1` | `PowerSafeFromV1` |
| `OtaRollbackIsToV1` | `RollbackIsToV1` |
| `ModbusTypeOK` | types |
| `ModbusOneEntryPerClient` | `OneEntryPerClient` |
| `ModbusBannedNotServed` | `BannedNotServed` |
| `ModbusCountIsThisConnections` | `CountIsThisConnections` |
| `ModbusBannedForCause` | `BannedForCause` |
| `DatabaseTypeOK` | types, with the batch inside its array |
| `DatabaseNothingLost` | `NothingLostWithoutTrouble` |
| `DatabaseOldRowsLeave` | `OldRowsLeave` |
| `DatabaseFileInOrder` | an undamaged file or backup is in order, nothing twice |
| `DatabaseImplementsLog` | `ImplementsLog`, the refinement of module `SampleLog` |
| `MpuHalTypeOK` | types, with both queues and the cache within their sizes |
| `MpuHalNothingSkipped` | `NothingSkipped` |
| `MpuHalSamplesStayTogether` | `SamplesStayTogether` |
| `MpuHalActiveDeviceIsHeard` | `ActiveDeviceIsHeard` |
| `TelemetryTypeOK` | types, with the count at most one above the window |
| `TelemetryPairStaysClose` | `PairStaysClose` |
| `TelemetryRepliesMoveOn` | `RepliesMoveOn` |
| `TelemetryPercentilesAreRecent` | `PercentilesAreRecent` |

**Collector** (`CollectorAssumption`: the limits are positive, the cap is at
least the failure limit).  The inductive invariant is `TypeOK`,
`FsmMatchesStreak`, `HandleOwnsOneFd` and `BeforeLoop`, which says what holds
before the loop, where `FsmMatchesStreak` is silent: no failure of the MPU6050 is
counted, no device is open until the probe ends, and the state is RUNNING from
`setup` on; and that a read is never
tried without a handle, on which the single close in `CloseAndReprobe` rests.
The heart is `FailureKeepsMatch`, one lemma for the three places that count a
failure; small lemmas say what the table does with each event raised.
`HealthyNeverDegrades` speaks of whole behaviours, but is a safety property: under
its premises `Healthy` (the probe has not passed the MPU's node, the loop has its
handle, no failure is counted) holds at first and is kept by every step between
two states in which the MPU6050 works.  That the node exists, the least number no
other device has, needs the library's theorem on well-founded orders
(`MpuNodeFacts`).

**RingBuffer** (`RingAssumption`: capacity at least 2, `Modulus` a multiple of
it, `MaxLead` between the two).  The inductive invariant has five parts: `TypeOK`;
`Positions` (each index is its thread's item count modulo `Modulus`, the reader is never
ahead, the lead is bounded); `Pcs` (when either thread may be copying);
`Contents` (while not lapped, the slots from `taken` to `written` hold those
items, and what either thread has copied is right); `FirstLapInv`.  The
arithmetic is in lemmas of its own: `DivMod`, `ModUnique`, `ModDistinct` (numbers less
than a capacity apart have different slots), `MaskOfSum` (masking after the wrap
is masking before it, because the capacity divides `Modulus`).

The refinement adds no invariant.  `UnreadIsLead` computes the number of unread
slots from the wrapped indices, `WaitingIsHeld` reads the items out of them; so
under the inductive invariant the abstract queue is `Held`, the items from `taken`
to `written` in order, or `Lost`.  One lemma per abstract action then shows its
step (`PublishedIsPut`, `CopiedIsLook`, `PublishedIsTake`, `LappedStep`).
`RingLosslessUnlessLapped`, the same promise without the abstract queue, is
proved from the invariant alone.

**Watchdog** (`WatchdogAssumption`).  `SilenceIsNoticed` compares a ghost with a
constant and says nothing about the count the code keeps, so the invariant ties
the two: a dead count is at most two behind the silence of its thread (one second
that is not checked yet, one in which the beat came after the check) and never
ahead of it, except for the first check of a thread that has not fed yet.  `Fed`
bounds the time since the hardware was last fed, by one second while the monitor
runs, and after a crash by the pauses and the seconds of the starts since then;
`StartsFacts` says what the bound comes to when the count of failed starts is at
its end.

**Ota** (`OtaAssumption`).  The invariant says, step by step, what the script has
already done: which directory is complete (`DirsKept`, which also says that in an
upgrade from v1 neither the link nor what a power failure may leave of it names
v2 before its files are there), where the link points (`LinkFollowsStep`), that no process is left between a stop and the next start
(`ProcessIsLinked`), and so that a flag which was not there before is v2's
(`FlagIsV2s`).  `VerdictIsLast` carries the result to the next run.

**Modbus** (`ModbusAssumption`).  The three invariants that are checked are
inductive with two additions.  `BanHolds` ties the announced ban to the table: its
entry is there with at least as many seconds left, unless it was given away; with
`OneEntryPerClient`, `BannedNotServed` follows.  `CountNeedsEntry`: a client without an entry has no
illegal request in this connection; without it, evicting an entry could lose part
of a count.  That the slot an entry goes to is one of the table's needs a least
element of a set of numbers (`FirstIsMember`, by the library's theorem on
well-founded orders); `ModSucc` is the step from n to n + 1 modulo the
threshold.

**Database** (`DatabaseAssumption`: a batch of at least one row, rounds of any
size).  `Ordered` puts what is stored, what is in the open transaction and the
rows of the batch that are not yet inserted in one increasing order, all of them
already taken; it is what makes an insert outside a transaction, or a COMMIT of
rows left over from an earlier flush, an extension of the log.  `Places` says
where in `db_manager.c` the collector can be and what a process that does not run
no longer has, `Inserted` that the rows the flush has passed are in the file or the
transaction, `RowsKept` that no row is lost on the way, `FirstIsLate` that the first
insert of a round finds the timeout passed, on which `OldRowsLeave` rests.  The
refinement maps a damaged file or backup to `Garbled` and matches each action with
one of `SampleLog` (`StepRefines`): a commit or an insert outside a transaction is
`Grow`, a checkpoint `Sync`, a power failure `CutShort` or, with damage, `Spoil`, a
backup `BackUp`, a failed or interrupted one `SpoilBackup`, a restore `Restore` or
`RestoreGarbled`; everything else is a stutter, and so is what goes on in a file
that is damaged.

**MpuHal** (`MpuHalAssumption`: any number of channels and samples a round; the
samples of a round fit evdev's buffer, a SYN_DROPPED and the rest of a sample
fit it too, and libevdev's queue is no smaller; 6 channels, 10 samples and queues
of 128 and 256 events are such numbers).  Besides `TypeOK` there are three
properties, each with its own part of the invariant.

- `NothingSkipped` needs `Clean`: without an overflow there is no SYN_DROPPED in the
  queues, and libevdev throws nothing away.  `Brought` is its body as an operator
  on any queue, so that one lemma serves the report of a sample (`BroughtBySample`)
  and another the event that goes into the cache (`BroughtByStore`).
- `SamplesStayTogether` needs `Ordered`: as long as every sample changes every axis
  the events come in one cyclic order, channel after channel, sample after
  sample (`InOrder`); the cache holds, for each channel, the latest value stored
  (`CacheInOrder`); between two reads events are left in the cache only when a
  sample has just been completed, and the points the next read makes of them are
  all of that sample (`OutInOrder`).
- `ActiveDeviceIsHeard` needs `Patient` and `HeardSoon`: a silent read leaves the
  queues empty, so what is sampled in the next punctual round fits
  (`RoundFits`), whatever overflowed before, and the read after that finds it.

`Report` puts the changed axes in the order of the driver's calls by their rank, the
number of changed axes below; `Ranks` shows that the ranks are 1, 2, ... without gaps.
`ReopenFacts` says what a new handle starts with: nothing, or the rest of one
sample.

**Telemetry** (`TelemetryAssumption`: any window, registers, rounds and
measurements).  The properties compare copies with copies; the invariant compares
each copy with what the driver has measured.  `Fresh` does so for the driver's own
fields, `Grows` says that no copy overtakes what it was taken from, and
`ReadIsClose`, `RawIsClose`, `RegisterIsClose` bound how far each one lags, by `Age`
(whether the one measurement that a round may see has already begun) and the
place the collector has reached.  Of a reply `AnswerIsClose` needs only that its
first value is not later than the driver's latest; `BehindTheDriver` gives the rest.
For the percentiles `CountFollows` ties the count to the claimed index step by
step, and `WindowIsFilled` says that each slot below the filled ones holds the
latest record that belongs there; that a new record drives out exactly the one
`WindowSize` before it is `SameSlot`.

**Only model-checked**: the liveness properties `DetectsRemoval`,
`RestoresWithoutDecoy`, `StuckIsNotForever`, `GivingUpIsFatal`, `TestEnds` and
`ScriptEnds`.  They rest on fairness, and this prover cannot reason about ENABLED.
All other properties of the passing runs are proved.

## 5. What is not modelled, and the plan

Left out for good: `setup_cpu.sh`, the libmodbus installer, the build files and
binaries, the manual Modbus client, page layout, logging; bit-banged bus
recovery and register set-up of the drivers (I/O without further state);
`modbus_server_stop` and `db_close`, which the program never reaches because its
threads never return; `db_vacuum`, `fsm_wait_for_state`, `metrics_generate` and
`ring_buffer_count`, which nothing calls; the conversions of a single value (fixed
point, milli-units, register widths).

Plan for what follows: the safety half of the liveness properties, such as the
steps after which a removed MPU6050 can no longer be reported as RUNNING; more of
`main.c` (the order of its start-up and what a failed step leaves behind).
