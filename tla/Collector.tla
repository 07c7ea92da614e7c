----------------------------- MODULE Collector -----------------------------
(***************************************************************************)
(* collector_thread of app/main.c: the loop that reads both sensors,       *)
(* counts their consecutive failures and drives the state machine.         *)
(*                                                                         *)
(* The thread's own steps interleave with the hardware: the mpu6050        *)
(* module can be removed and inserted again, the chip can stop delivering  *)
(* samples, and so on for the SHT30, at any point of the loop.             *)
(*                                                                         *)
(* Heartbeats are the business of module Watchdog.  The /metrics counters, *)
(* database rows and Modbus registers the loop also writes are data that   *)
(* no branch of the loop reads back, and are left out.                     *)
(***************************************************************************)
EXTENDS Naturals, Fsm

CONSTANTS
  LastEvent,    (* /dev/input/event0 .. event<LastEvent> are probed: 3     *)
  FailLimit,    (* consecutive failures that mean "offline": 3             *)
  NoDataLimit,  (* empty reads that count as one failure: 10               *)
  StreakCap     (* the streak counters saturate here (see Bump)            *)

ASSUME CollectorAssumption ==
  /\ LastEvent \in Nat
  /\ FailLimit \in Nat \ {0}
  /\ NoDataLimit \in Nat \ {0}
  /\ StreakCap \in Nat
  /\ StreakCap >= FailLimit

VARIABLES
  pc,                  (* where the thread is in its code                  *)
  probe_i,             (* the index i of the start-up probe loop           *)
  fsm,                 (* g_fsm.current                                    *)
  g_system_state,      (* the copy metrics.c exports                       *)
  mpu_handle,          (* the evdev handle, by the device behind it        *)
  open_fds,            (* event devices the HAL holds open                 *)
  sht_handle,          (* the SHT30 handle, by the device behind it        *)
  mpu_fail_streak,
  mpu_no_data_streak,
  sht_fail_streak,
  others,              (* environment: event nodes of other input devices  *)
  mpu,                 (* environment: the mpu6050 module and its chip     *)
  sht                  (* environment: the sht30 module and its chip       *)

streaks == <<mpu_fail_streak, mpu_no_data_streak, sht_fail_streak>>
handles == <<mpu_handle, open_fds>>
env     == <<others, mpu, sht>>
vars    == <<pc, probe_i, fsm, g_system_state, handles, sht_handle, streaks,
             env>>

PCs     == {"main", "setup", "warmup", "open_sht", "top", "read", "sht",
            "publish", "exited"}

(* "other": a device that never sends EV_ABS events; "gone": the module    *)
(* behind the open file was removed, so every read fails with -ENODEV.     *)
Handles == {"none", "mpu", "other", "gone"}

ShtHandles == {"none", "sht", "gone"}

Looping == pc \in {"top", "read", "sht", "publish"}

-----------------------------------------------------------------------------
(* The event nodes.  The input core gives a new device the lowest free     *)
(* number, so a reinserted mpu6050 comes back where it was.                *)

MpuNode ==
  CHOOSE n \in 0 .. LastEvent + 1 :
    n \notin others /\ \A k \in 0 .. n - 1 : k \in others

Nodes == (others \cup IF mpu = "removed" THEN {} ELSE {MpuNode})
           \cap 0 .. LastEvent

(* What the probe loop inside the main loop opens: the first node that     *)
(* exists, whatever device it is.                                          *)

Probed ==
  IF Nodes = {} THEN "none"
  ELSE IF MpuNode \in Nodes /\ \A n \in Nodes : MpuNode <= n THEN "mpu"
  ELSE "other"

Opened(h) == IF h = "none" THEN 0 ELSE 1

-----------------------------------------------------------------------------
(* The streak counters are ints that only grow between resets.  The code   *)
(* compares them with 0 and with FailLimit only, so a counter that stops   *)
(* at StreakCap >= FailLimit takes the same branches.                      *)
Bump(n) == IF n < StreakCap THEN n + 1 ELSE n

(* Variant: reports one failure late. *)
CountMpuFailureLate ==
  /\ mpu_fail_streak' = Bump(mpu_fail_streak)
  /\ fsm' = IF mpu_fail_streak' > FailLimit
              THEN fsm_transition(fsm, "MPU_FAIL") ELSE fsm

(* One more failure: at FailLimit in a row, and on each one after that,    *)
(* MPU_FAIL is raised.                                                     *)
CountMpuFailure ==
  /\ mpu_fail_streak' = Bump(mpu_fail_streak)
  /\ fsm' = IF mpu_fail_streak' >= FailLimit
              THEN fsm_transition(fsm, "MPU_FAIL") ELSE fsm

(* Variant: forgets to close the old handle. *)
ReprobeLeaking ==
  /\ mpu_handle' = Probed
  /\ open_fds' = open_fds + Opened(Probed)

(* Close the old handle and probe again from event0. *)
CloseAndReprobe ==
  /\ mpu_handle' = Probed
  /\ open_fds' = (open_fds - 1) + Opened(Probed)

-----------------------------------------------------------------------------
Init ==
  /\ pc = "main"
  /\ probe_i = 0
  /\ fsm = "INIT"
  /\ g_system_state = "RUNNING"
  /\ mpu_handle = "none"
  /\ open_fds = 0
  /\ sht_handle = "none"
  /\ mpu_fail_streak = 0
  /\ mpu_no_data_streak = 0
  /\ sht_fail_streak = 0
  /\ others \in SUBSET (0 .. LastEvent)
  /\ mpu \in {"ok", "silent", "removed"}
  /\ sht \in {"no_data", "ok", "removed"}

(* main(): the database is ready, INIT_OK is raised, the thread created. *)
InitOk ==
  /\ pc = "main"
  /\ fsm' = fsm_transition(fsm, "INIT_OK")
  /\ pc' = "setup"
  /\ UNCHANGED <<probe_i, g_system_state, handles, sht_handle, streaks, env>>

(* Binding the thread to its core and SCHED_FIFO; either call may fail,    *)
(* and the thread then returns.                                            *)
SetUpThread ==
  /\ pc = "setup"
  /\ pc' \in {"warmup", "exited"}
  /\ UNCHANGED <<probe_i, fsm, g_system_state, handles, sht_handle, streaks,
                 env>>

(* Variant: takes the first node that exists, without warming it up. *)
WarmUpSkipped ==
  /\ pc = "warmup"
  /\ probe_i <= LastEvent
  /\ probe_i \in Nodes
  /\ mpu_handle' = IF probe_i = MpuNode THEN "mpu" ELSE "other"
  /\ open_fds' = open_fds + 1
  /\ pc' = "open_sht"
  /\ UNCHANGED <<probe_i, fsm, g_system_state, sht_handle, streaks, env>>

(* Start-up probe, node probe_i delivers data within its 50 reads. *)
WarmUpOk ==
  /\ pc = "warmup"
  /\ probe_i <= LastEvent
  /\ probe_i = MpuNode /\ mpu = "ok"
  /\ mpu_handle' = "mpu"
  /\ open_fds' = open_fds + 1
  /\ pc' = "open_sht"
  /\ UNCHANGED <<probe_i, fsm, g_system_state, sht_handle, streaks, env>>

(* There is no node probe_i, or it was opened, stayed silent for 50 reads  *)
(* and was closed.                                                         *)
WarmUpNextNode ==
  /\ pc = "warmup"
  /\ probe_i <= LastEvent
  /\ ~(probe_i = MpuNode /\ mpu = "ok")
  /\ probe_i' = probe_i + 1
  /\ UNCHANGED <<pc, fsm, g_system_state, handles, sht_handle, streaks, env>>

WarmUpNotFound ==
  /\ pc = "warmup"
  /\ probe_i > LastEvent
  /\ pc' = "open_sht"
  /\ UNCHANGED <<probe_i, fsm, g_system_state, handles, sht_handle, streaks,
                 env>>

(* The only time the SHT30 is opened: if it fails, it is never retried.    *)
(* hwmon0 may also be another device, which has no humidity file.          *)
OpenSht ==
  /\ pc = "open_sht"
  /\ sht_handle' \in {"none"} \cup IF sht = "removed" THEN {} ELSE {"sht"}
  /\ pc' = "top"
  /\ UNCHANGED <<probe_i, fsm, g_system_state, handles, streaks, env>>

-----------------------------------------------------------------------------
(* The loop, up to the MPU read. *)

TopWithHandle ==
  /\ pc = "top"
  /\ mpu_handle # "none"
  /\ pc' = "read"
  /\ UNCHANGED <<probe_i, fsm, g_system_state, handles, sht_handle, streaks,
                 env>>

TopReopened ==
  /\ pc = "top"
  /\ mpu_handle = "none"
  /\ Probed # "none"
  /\ mpu_handle' = Probed
  /\ open_fds' = open_fds + 1
  /\ pc' = "read"
  /\ UNCHANGED <<probe_i, fsm, g_system_state, sht_handle, streaks, env>>

(* Variant: no device, so nothing to count. *)
TopSkips ==
  /\ pc = "top"
  /\ mpu_handle = "none"
  /\ Probed = "none"
  /\ pc' = "sht"
  /\ UNCHANGED <<probe_i, fsm, g_system_state, handles, sht_handle, streaks,
                 env>>

TopNoDevice ==
  /\ pc = "top"
  /\ mpu_handle = "none"
  /\ Probed = "none"
  /\ CountMpuFailure
  /\ pc' = "sht"
  /\ UNCHANGED <<probe_i, g_system_state, handles, sht_handle,
                 mpu_no_data_streak, sht_fail_streak, env>>

(* n < 0 *)
ReadFails ==
  /\ pc = "read"
  /\ mpu_handle = "gone"
  /\ CountMpuFailure
  /\ mpu_no_data_streak' = 0
  /\ CloseAndReprobe
  /\ pc' = "sht"
  /\ UNCHANGED <<probe_i, g_system_state, sht_handle, sht_fail_streak, env>>

(* Variant: data alone, without MPU_RESTORED. *)
ReadDataKeepsState ==
  /\ pc = "read"
  /\ mpu_handle = "mpu" /\ mpu = "ok"
  /\ mpu_fail_streak' = 0
  /\ mpu_no_data_streak' = 0
  /\ pc' = "sht"
  /\ UNCHANGED <<fsm, probe_i, g_system_state, handles, sht_handle,
                 sht_fail_streak, env>>

(* n > 0 *)
ReadData ==
  /\ pc = "read"
  /\ mpu_handle = "mpu" /\ mpu = "ok"
  /\ fsm' = IF mpu_fail_streak > 0 /\ fsm = "DEGRADED"
              THEN fsm_transition(fsm, "MPU_RESTORED") ELSE fsm
  /\ mpu_fail_streak' = 0
  /\ mpu_no_data_streak' = 0
  /\ pc' = "sht"
  /\ UNCHANGED <<probe_i, g_system_state, handles, sht_handle,
                 sht_fail_streak, env>>

(* n = 0 *)
NoEvents == mpu_handle = "other" \/ (mpu_handle = "mpu" /\ mpu = "silent")

ReadNothing ==
  /\ pc = "read"
  /\ NoEvents
  /\ mpu_no_data_streak + 1 < NoDataLimit
  /\ mpu_no_data_streak' = mpu_no_data_streak + 1
  /\ pc' = "sht"
  /\ UNCHANGED <<probe_i, fsm, g_system_state, handles, sht_handle,
                 mpu_fail_streak, sht_fail_streak, env>>

(* Variant: goes on counting empty reads after the limit. *)
ReadNothingForgetsReset ==
  /\ pc = "read"
  /\ NoEvents
  /\ mpu_no_data_streak + 1 >= NoDataLimit
  /\ mpu_no_data_streak' = mpu_no_data_streak + 1
  /\ CountMpuFailure
  /\ CloseAndReprobe
  /\ pc' = "sht"
  /\ UNCHANGED <<probe_i, g_system_state, sht_handle, sht_fail_streak, env>>

(* ... for the NoDataLimit-th time in a row: the same as a failed read. *)
ReadNothingTooOften ==
  /\ pc = "read"
  /\ NoEvents
  /\ mpu_no_data_streak + 1 >= NoDataLimit
  /\ mpu_no_data_streak' = 0
  /\ CountMpuFailure
  /\ CloseAndReprobe
  /\ pc' = "sht"
  /\ UNCHANGED <<probe_i, g_system_state, sht_handle, sht_fail_streak, env>>

-----------------------------------------------------------------------------
(* The loop, SHT30 and end of the round. *)

ShtNotOpen ==
  /\ pc = "sht"
  /\ sht_handle = "none"
  /\ pc' = "publish"
  /\ UNCHANGED <<probe_i, fsm, g_system_state, handles, sht_handle, streaks,
                 env>>

(* A read fails (three times in a row, inside the HAL) while the driver    *)
(* has no measurement yet, or once the driver behind the file was removed. *)
(* The driver never takes a measurement back: a bus error later on leaves  *)
(* the last one in place, and the read succeeds.                           *)
ShtUnreadable ==
  sht_handle = "gone" \/ (sht_handle = "sht" /\ sht = "no_data")

(* Variant: blames the bus for the SHT30 alone. *)
ShtFailsAlone ==
  /\ pc = "sht"
  /\ ShtUnreadable
  /\ sht_fail_streak' = Bump(sht_fail_streak)
  /\ fsm' = IF sht_fail_streak' >= FailLimit
              THEN fsm_transition(fsm, "I2C_DEADLOCK") ELSE fsm
  /\ pc' = "publish"
  /\ UNCHANGED <<probe_i, g_system_state, handles, sht_handle,
                 mpu_fail_streak, mpu_no_data_streak, env>>

ShtFails ==
  /\ pc = "sht"
  /\ ShtUnreadable
  /\ sht_fail_streak' = Bump(sht_fail_streak)
  /\ fsm' = IF mpu_fail_streak >= FailLimit /\ sht_fail_streak' >= FailLimit
              THEN fsm_transition(fsm, "I2C_DEADLOCK") ELSE fsm
  /\ pc' = "publish"
  /\ UNCHANGED <<probe_i, g_system_state, handles, sht_handle,
                 mpu_fail_streak, mpu_no_data_streak, env>>

ShtReads ==
  /\ pc = "sht"
  /\ sht_handle = "sht" /\ sht = "ok"
  /\ sht_fail_streak' = 0
  /\ pc' = "publish"
  /\ UNCHANGED <<probe_i, fsm, g_system_state, handles, sht_handle,
                 mpu_fail_streak, mpu_no_data_streak, env>>

Publish ==
  /\ pc = "publish"
  /\ g_system_state' = fsm
  /\ pc' = "top"
  /\ UNCHANGED <<probe_i, fsm, handles, sht_handle, streaks, env>>

-----------------------------------------------------------------------------
(* The hardware.  rmmod and insmod of either module, an MPU6050 that stops *)
(* sampling (the driver's timer still runs, but no event arrives), an      *)
(* SHT30 that is measured for the first time.                              *)

RemoveMpu ==
  /\ mpu # "removed"
  /\ mpu' = "removed"
  /\ mpu_handle' = IF mpu_handle = "mpu" THEN "gone" ELSE mpu_handle
  /\ UNCHANGED <<pc, probe_i, fsm, g_system_state, open_fds, sht_handle,
                 streaks, others, sht>>

InsertMpu ==
  /\ mpu = "removed"
  /\ mpu' = "ok"
  /\ UNCHANGED <<pc, probe_i, fsm, g_system_state, handles, sht_handle,
                 streaks, others, sht>>

SilenceMpu ==
  /\ mpu = "ok"
  /\ mpu' = "silent"
  /\ UNCHANGED <<pc, probe_i, fsm, g_system_state, handles, sht_handle,
                 streaks, others, sht>>

WakeMpu ==
  /\ mpu = "silent"
  /\ mpu' = "ok"
  /\ UNCHANGED <<pc, probe_i, fsm, g_system_state, handles, sht_handle,
                 streaks, others, sht>>

RemoveSht ==
  /\ sht # "removed"
  /\ sht' = "removed"
  /\ sht_handle' = IF sht_handle = "sht" THEN "gone" ELSE sht_handle
  /\ UNCHANGED <<pc, probe_i, fsm, g_system_state, handles, streaks, others,
                 mpu>>

InsertSht ==
  /\ sht = "removed"
  /\ sht' = "no_data"
  /\ UNCHANGED <<pc, probe_i, fsm, g_system_state, handles, sht_handle,
                 streaks, others, mpu>>

(* The driver's first good measurement. *)
MeasureSht ==
  /\ sht = "no_data"
  /\ sht' = "ok"
  /\ UNCHANGED <<pc, probe_i, fsm, g_system_state, handles, sht_handle,
                 streaks, others, mpu>>

-----------------------------------------------------------------------------
Start ==
  \/ InitOk \/ SetUpThread
  \/ WarmUpOk \/ WarmUpNextNode \/ WarmUpNotFound
  \/ OpenSht

Loop ==
  \/ TopWithHandle \/ TopReopened \/ TopNoDevice
  \/ ReadFails \/ ReadData \/ ReadNothing \/ ReadNothingTooOften
  \/ ShtNotOpen \/ ShtFails \/ ShtReads
  \/ Publish

Hardware ==
  \/ RemoveMpu \/ InsertMpu \/ SilenceMpu \/ WakeMpu
  \/ RemoveSht \/ InsertSht \/ MeasureSht

Thread == Start \/ Loop

Next == Thread \/ Hardware

(* The thread is SCHED_FIFO at priority 99 on a core of its own, every     *)
(* read is non-blocking and every sleep finite: it always takes its next   *)
(* step.  Nothing is assumed of the hardware.                              *)
Spec == Init /\ [][Next]_vars /\ WF_vars(Thread)

-----------------------------------------------------------------------------
(* The types of the variables. *)
TypeOK ==
  /\ pc \in PCs
  /\ probe_i \in Nat
  /\ fsm \in States
  /\ g_system_state \in States
  /\ mpu_handle \in Handles
  /\ open_fds \in Nat
  /\ sht_handle \in ShtHandles
  /\ mpu_fail_streak \in 0 .. StreakCap
  /\ mpu_no_data_streak \in Nat /\ mpu_no_data_streak < NoDataLimit
  /\ sht_fail_streak \in 0 .. StreakCap
  /\ others \subseteq 0 .. LastEvent
  /\ mpu \in {"ok", "silent", "removed"}
  /\ sht \in {"no_data", "ok", "removed"}

(* The loop keeps its own count of failures and the machine its own state, *)
(* and only the events tie them: whatever the order of failures, reopens   *)
(* and data, DEGRADED means an MPU offline for FailLimit failures in a     *)
(* row, and an MPU offline for so long is never still reported as RUNNING. *)
FsmMatchesStreak ==
  Looping =>
    /\ fsm \in {"RUNNING", "DEGRADED", "RECOVERING"}
    /\ fsm = "DEGRADED" => mpu_fail_streak >= FailLimit
    /\ mpu_fail_streak >= FailLimit => fsm \in {"DEGRADED", "RECOVERING"}

(* Over any number of removals, failed probes and reopens the collector    *)
(* holds exactly the descriptor its handle stands for: none leaks, none is *)
(* closed twice.                                                           *)
HandleOwnsOneFd == open_fds = Opened(mpu_handle)

(* The bus is only declared deadlocked when both sensors are offline, and  *)
(* by then the machine has been through DEGRADED: the RUNNING entry of     *)
(* I2C_DEADLOCK in the table is never used.                                *)
DeadlockNeedsBoth ==
  [][fsm' = "RECOVERING" /\ fsm # "RECOVERING" =>
       /\ fsm = "DEGRADED"
       /\ mpu_fail_streak >= FailLimit
       /\ sht_fail_streak' >= FailLimit]_vars

(* An MPU that is removed for good is noticed, and stays noticed, even     *)
(* when the probe keeps opening some other input device in its place.      *)
DetectsRemoval ==
  <>[](mpu = "removed") =>
    <>[](fsm \in {"DEGRADED", "RECOVERING"} \/ pc = "exited")

(* An MPU that comes back for good is used again, whatever happened        *)
(* before, provided no other input device has a lower event number         *)
(* (event0 is the MPU's) and the bus was not declared deadlocked.          *)
RestoresWithoutDecoy ==
  0 \notin others /\ <>[](mpu = "ok") =>
    <>[](fsm \in {"RUNNING", "RECOVERING"} \/ pc = "exited")

(* While the MPU works all along, no mix of other input devices and SHT30  *)
(* failures takes the machine out of RUNNING: the start-up probe passes    *)
(* over the decoys.                                                        *)
HealthyNeverDegrades ==
  MpuNode <= LastEvent /\ [](mpu = "ok") => [](fsm \in {"INIT", "RUNNING"})

(* What scripts/test_fsm_integration.sh expects after the driver is loaded *)
(* again ("recovered automatically, state: RUNNING"), for an MPU within    *)
(* reach of the probe and an SHT30 that always has a measurement.          *)
ReinsertedMpuRuns ==
  MpuNode <= LastEvent /\ [](sht = "ok") /\ <>[](mpu = "ok") =>
    <>[](fsm = "RUNNING" \/ pc = "exited")

=============================================================================
