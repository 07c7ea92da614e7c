----------------------------- MODULE Watchdog ------------------------------
(***************************************************************************)
(* watchdog_monitor_thread of app/core/watchdog.c, with what it watches    *)
(* (the heartbeats of the collector and web threads of app/main.c) and     *)
(* what watches it: the hardware watchdog behind /dev/watchdog, and        *)
(* systemd, which restarts the process.                                    *)
(*                                                                         *)
(* Time passes in seconds.  Within a second a live thread feeds at least   *)
(* once and the monitor checks once (its loop sleeps for one second), in   *)
(* any order; Tick ends the second.  A heartbeat is only ever compared     *)
(* with the value the monitor saw last, so all that is kept of it is       *)
(* whether it moved since.                                                 *)
(***************************************************************************)
EXTENDS Naturals

CONSTANTS
  DeadThreshold,   (* checks without a heartbeat until a thread is dead: 5 *)
  RecvTimeout,     (* the web thread's SO_RCVTIMEO, in seconds: 5          *)
  WarmUp,          (* seconds of the collector's start-up probe: up to 2   *)
  RestartSec,      (* systemd's pause before it restarts the process: 3    *)
  HwTimeout,       (* seconds until an unfed hardware watchdog resets: 16  *)
  SilenceCap       (* the ghost silence saturates here                     *)

ASSUME WatchdogAssumption ==
  /\ DeadThreshold \in Nat /\ DeadThreshold > 1
  /\ RecvTimeout \in Nat /\ RecvTimeout <= DeadThreshold
  /\ WarmUp \in Nat /\ WarmUp + 1 < DeadThreshold
  /\ RestartSec \in Nat \ {0}
  /\ HwTimeout \in Nat /\ HwTimeout > RestartSec + 1
  /\ SilenceCap \in Nat /\ SilenceCap > DeadThreshold + 1

VARIABLES
  test_mode,      (* g_watchdog_test_mode, from the command line           *)
  wdt_present,    (* whether /dev/watchdog can be opened                   *)
  process,        (* "down" until systemd starts it again, "booting" until *)
                  (* main has created its threads, then "up"               *)
  down_for,       (* seconds the process has been down                     *)
  status,         (* what each thread is doing                             *)
  wait_left,      (* seconds until a bounded wait of the thread times out  *)
  fed,            (* whether the thread fed in this second                 *)
  moved,          (* whether its heartbeat moved since the monitor looked  *)
  monitor,        (* the monitor thread                                    *)
  checked,        (* whether it checked in this second                     *)
  dead_count,     (* sensor_dead_count and http_dead_count                 *)
  dead_thread,    (* g_watchdog_dead_thread                                *)
  hw_on,          (* the hardware watchdog is counting                     *)
  hw_left,        (* seconds until it resets the board                     *)
  silence,        (* ghost: seconds since the thread fed, or was created   *)
  ever_fed,       (* ghost: whether it fed since it was created            *)
  gave_up,        (* ghost: the last monitor to feed the hardware gave up  *)
  failed_starts,  (* ghost: starts since then that never reached a monitor *)
  start_time      (* ghost: seconds since then that the starts took        *)

config  == <<test_mode, wdt_present>>
threads == <<status, wait_left, fed, moved, silence, ever_fed>>
mon     == <<monitor, checked, dead_count, dead_thread>>
hw      == <<hw_on, hw_left>>
ghosts  == <<gave_up, failed_starts, start_time>>
vars    == <<config, process, down_for, threads, mon, hw, ghosts>>

Threads == {"collector", "web"}

(* "waiting": in a call that times out; "stuck": in one that may never     *)
(* return; "gone": the thread function returned during its set-up.         *)
Statuses == {"live", "waiting", "stuck", "gone"}

ThreadId(t) == IF t = "collector" THEN 1 ELSE 2

(* Starts that fit between a crash and the hardware's reset. *)
StartsBeforeReset == (HwTimeout - 2) \div RestartSec

-----------------------------------------------------------------------------
NotYet == [t \in Threads |-> FALSE]
Zero   == [t \in Threads |-> 0]

Init ==
  /\ test_mode \in BOOLEAN
  /\ wdt_present \in BOOLEAN
  /\ process = "down"
  /\ down_for = RestartSec
  /\ status = [t \in Threads |-> "gone"]
  /\ wait_left = Zero
  /\ fed = NotYet
  /\ moved = NotYet
  /\ monitor = "none"
  /\ checked = FALSE
  /\ dead_count = Zero
  /\ dead_thread = 0
  /\ silence = Zero
  /\ ever_fed = NotYet
  /\ hw_on = FALSE
  /\ hw_left = 0
  /\ gave_up = FALSE
  /\ failed_starts = 0
  /\ start_time = 0

-----------------------------------------------------------------------------
(* systemd and the process. *)

(* The variables of the program are those of a new process. *)
NewVariables ==
  /\ fed' = NotYet /\ moved' = NotYet
  /\ checked' = FALSE
  /\ dead_count' = Zero
  /\ dead_thread' = 0
  /\ silence' = Zero /\ ever_fed' = NotYet

(* No thread is left of a process that ended. *)
NoThreads ==
  /\ status' = [t \in Threads |-> "gone"]
  /\ wait_left' = Zero
  /\ monitor' = "none"
  /\ NewVariables

(* systemd starts the program.  main() opens the database and has SQLite   *)
(* check the whole of it, which takes its time.                            *)
Boot ==
  /\ process = "down" /\ down_for >= RestartSec
  /\ process' = "booting"
  /\ UNCHANGED <<config, down_for, threads, mon, hw, ghosts>>

(* Then it creates the collector, which may be busy with its start-up      *)
(* probe, the web thread, and the monitor.  Either of the first two        *)
(* returns at once when its scheduling or its socket cannot be set up.     *)
Start ==
  /\ process = "booting"
  /\ process' = "up"
  /\ status' \in [Threads -> {"live", "waiting", "gone"}]
  /\ status'["web"] # "waiting"
  /\ wait_left' = [t \in Threads |->
                     IF status'[t] = "waiting" THEN WarmUp ELSE 0]
  /\ monitor' = "starting"
  /\ NewVariables
  /\ UNCHANGED <<config, down_for, hw, ghosts>>

(* main() exits, or dies, before it creates any thread (the state machine  *)
(* or the database cannot be initialised).                                 *)
StartFails ==
  /\ process = "booting"
  /\ process' = "down"
  /\ down_for' = 0
  /\ failed_starts' =
       IF failed_starts < StartsBeforeReset THEN failed_starts + 1
       ELSE failed_starts
  /\ UNCHANGED <<config, threads, mon, hw, gave_up, start_time>>

(* The process dies, or exits because modbus_server_start failed.  Closing *)
(* /dev/watchdog without the magic character leaves the hardware counting. *)
Crash ==
  /\ process = "up"
  /\ process' = "down"
  /\ down_for' = 0
  /\ NoThreads
  /\ failed_starts' =
       IF monitor = "starting" /\ failed_starts < StartsBeforeReset
         THEN failed_starts + 1 ELSE failed_starts
  /\ UNCHANGED <<config, hw, gave_up, start_time>>

-----------------------------------------------------------------------------
(* The watched threads. *)

Beat(t) ==
  /\ fed' = [fed EXCEPT ![t] = TRUE]
  /\ moved' = [moved EXCEPT ![t] = TRUE]
  /\ silence' = [silence EXCEPT ![t] = 0]
  /\ ever_fed' = [ever_fed EXCEPT ![t] = TRUE]

(* A live thread goes round its loop. *)
Feed(t) ==
  /\ process = "up"
  /\ status[t] = "live"
  /\ Beat(t)
  /\ UNCHANGED <<config, process, down_for, status, wait_left, mon, hw,
                 ghosts>>

(* The web thread has fed, accepted a client and waits for its request. *)
Accept ==
  /\ process = "up"
  /\ status["web"] = "live" /\ fed["web"]
  /\ status' = [status EXCEPT !["web"] = "waiting"]
  /\ wait_left' = [wait_left EXCEPT !["web"] = RecvTimeout]
  /\ UNCHANGED <<config, process, down_for, fed, moved, silence, ever_fed,
                 mon, hw, ghosts>>

(* The request arrived or the wait timed out; the probe found its device   *)
(* or gave up.  Either way the thread feeds next.                          *)
EndWait(t) ==
  /\ process = "up"
  /\ status[t] = "waiting"
  /\ status' = [status EXCEPT ![t] = "live"]
  /\ wait_left' = [wait_left EXCEPT ![t] = 0]
  /\ Beat(t)
  /\ UNCHANGED <<config, process, down_for, mon, hw, ghosts>>

(* A call without a timeout does not return (a send, a disk write), which  *)
(* may be the reply to the request the web thread was waiting for ...      *)
GetStuck(t) ==
  /\ process = "up"
  /\ status[t] \in {"live", "waiting"}
  /\ status' = [status EXCEPT ![t] = "stuck"]
  /\ wait_left' = [wait_left EXCEPT ![t] = 0]
  /\ UNCHANGED <<config, process, down_for, fed, moved, silence, ever_fed,
                 mon, hw, ghosts>>

(* ... or returns after all. *)
GetUnstuck(t) ==
  /\ process = "up"
  /\ status[t] = "stuck"
  /\ status' = [status EXCEPT ![t] = "live"]
  /\ Beat(t)
  /\ UNCHANGED <<config, process, down_for, wait_left, mon, hw, ghosts>>

-----------------------------------------------------------------------------
(* The monitor thread. *)

MonitorOpens ==
  /\ monitor = "starting"
  /\ IF wdt_present
       THEN /\ monitor' = "running"
            /\ hw_on' = TRUE
            /\ hw_left' = HwTimeout
       ELSE /\ monitor' = "no_device"
            /\ UNCHANGED hw
  /\ gave_up' = FALSE
  /\ failed_starts' = 0
  /\ start_time' = 0
  /\ UNCHANGED <<config, process, down_for, threads, checked, dead_count,
                 dead_thread>>

(* Variant: starts counting a thread's silence over, one check early. *)
CountedFromOne(t) ==
  IF moved[t] THEN 1
  ELSE IF dead_count[t] < DeadThreshold THEN dead_count[t] + 1
  ELSE DeadThreshold

(* The new count for one thread; it only matters whether it reached        *)
(* DeadThreshold, so it stops there.                                       *)
Counted(t) ==
  IF moved[t] THEN 0
  ELSE IF dead_count[t] < DeadThreshold THEN dead_count[t] + 1
  ELSE DeadThreshold

(* Variant: the collector's count alone decides. *)
IsSensorDead == dead_count'["collector"] >= DeadThreshold

(* Variant: > instead of >=. *)
IsAnyDeadLate == \E t \in Threads : dead_count'[t] > DeadThreshold

is_any_dead == \E t \in Threads : dead_count'[t] >= DeadThreshold

(* What both outcomes of a check share.  When both threads are dead, the   *)
(* web thread is the one that is reported.                                 *)
Check ==
  /\ monitor = "running"
  /\ ~checked
  /\ checked' = TRUE
  /\ dead_count' = [t \in Threads |-> Counted(t)]
  /\ moved' = NotYet
  /\ dead_thread' = IF dead_count'["web"] >= DeadThreshold THEN 2
                    ELSE IF dead_count'["collector"] >= DeadThreshold THEN 1
                    ELSE dead_thread
  /\ UNCHANGED <<config, process, down_for, status, wait_left, fed, silence,
                 ever_fed, failed_starts, start_time>>

MonitorFeeds ==
  /\ Check
  /\ ~is_any_dead \/ test_mode
  /\ hw_left' = HwTimeout
  /\ UNCHANGED <<monitor, hw_on, gave_up>>

(* Variant: ignores test mode. *)
MonitorGivesUpAlways ==
  /\ Check
  /\ is_any_dead
  /\ monitor' = "gave_up"
  /\ gave_up' = TRUE
  /\ UNCHANGED hw

(* Variant: closes the device with the magic character. *)
MonitorGivesUpCleanly ==
  /\ Check
  /\ is_any_dead /\ ~test_mode
  /\ monitor' = "gave_up"
  /\ gave_up' = TRUE
  /\ hw_on' = FALSE
  /\ UNCHANGED hw_left

(* The monitor leaves its loop, its file still open. *)
MonitorGivesUp ==
  /\ Check
  /\ is_any_dead /\ ~test_mode
  /\ monitor' = "gave_up"
  /\ gave_up' = TRUE
  /\ UNCHANGED hw

-----------------------------------------------------------------------------
(* Time and the hardware watchdog. *)

(* A second is over once everyone has done what a second always has time   *)
(* for: live threads have fed, expired waits have ended, the monitor has   *)
(* checked, systemd has restarted the process, the hardware has fired.     *)
(* How many seconds a start may take is not bounded.                       *)
SecondIsOver ==
  /\ process = "up" => \A t \in Threads :
                         /\ status[t] = "live" => fed[t]
                         /\ status[t] = "waiting" => wait_left[t] > 0
  /\ process = "down" => down_for < RestartSec
  /\ monitor # "starting"
  /\ monitor = "running" => checked
  /\ hw_on => hw_left > 0

Tick ==
  /\ SecondIsOver
  /\ down_for' = IF process = "down" THEN down_for + 1 ELSE down_for
  /\ wait_left' = [t \in Threads |->
                     IF status[t] = "waiting" /\ wait_left[t] > 0
                       THEN wait_left[t] - 1 ELSE wait_left[t]]
  /\ silence' = [t \in Threads |->
                   IF process # "up" THEN 0
                   ELSE IF silence[t] < SilenceCap THEN silence[t] + 1
                   ELSE SilenceCap]
  /\ fed' = NotYet
  /\ checked' = FALSE
  /\ hw_left' = IF hw_on THEN hw_left - 1 ELSE hw_left
  /\ start_time' = IF process = "booting" /\ hw_on THEN start_time + 1
                   ELSE start_time
  /\ UNCHANGED <<config, process, status, moved, ever_fed, monitor,
                 dead_count, dead_thread, hw_on, gave_up, failed_starts>>

(* The board resets and boots again; the hardware watchdog is off until    *)
(* it is opened.                                                           *)
HwReset ==
  /\ hw_on /\ hw_left = 0
  /\ hw_on' = FALSE
  /\ process' = "down"
  /\ down_for' = RestartSec
  /\ NoThreads
  /\ gave_up' = FALSE
  /\ failed_starts' = 0
  /\ start_time' = 0
  /\ UNCHANGED <<config, hw_left>>

-----------------------------------------------------------------------------
Next ==
  \/ Boot \/ Start \/ StartFails \/ Crash
  \/ \E t \in Threads :
       Feed(t) \/ EndWait(t) \/ GetStuck(t) \/ GetUnstuck(t)
  \/ Accept
  \/ MonitorOpens \/ MonitorFeeds \/ MonitorGivesUp
  \/ Tick \/ HwReset

(* Time goes on, live threads go round their loops, waits that time out    *)
(* end, the monitor (SCHED_OTHER, but on a core without real-time threads) *)
(* checks every second, systemd restarts, the hardware fires.  Nothing     *)
(* forces a client, a crash, a stuck thread, or a start to succeed or end. *)
Fairness ==
  /\ WF_vars(Tick)
  /\ \A t \in Threads : WF_vars(Feed(t)) /\ WF_vars(EndWait(t))
  /\ WF_vars(MonitorOpens)
  /\ WF_vars(MonitorFeeds \/ MonitorGivesUp)
  /\ WF_vars(Boot)
  /\ WF_vars(HwReset)

Spec == Init /\ [][Next]_vars /\ Fairness

-----------------------------------------------------------------------------
(* The types of the variables, a thread counted dead being no longer fed   *)
(* for.                                                                    *)
TypeOK ==
  /\ test_mode \in BOOLEAN /\ wdt_present \in BOOLEAN
  /\ process \in {"down", "booting", "up"}
  /\ down_for \in 0 .. RestartSec
  /\ status \in [Threads -> Statuses]
  /\ wait_left \in [Threads -> Nat]
  /\ fed \in [Threads -> BOOLEAN]
  /\ moved \in [Threads -> BOOLEAN]
  /\ monitor \in {"none", "starting", "running", "gave_up", "no_device"}
  /\ checked \in BOOLEAN
  /\ dead_count \in [Threads -> 0 .. DeadThreshold]
  /\ dead_thread \in 0 .. 2
  /\ hw_on \in BOOLEAN
  /\ hw_left \in 0 .. HwTimeout
  /\ silence \in [Threads -> 0 .. SilenceCap]
  /\ ever_fed \in [Threads -> BOOLEAN]
  /\ gave_up \in BOOLEAN
  /\ failed_starts \in 0 .. StartsBeforeReset
  /\ start_time \in 0 .. HwTimeout
  /\ monitor = "running" /\ ~test_mode =>
       \A t \in Threads : dead_count[t] < DeadThreshold

(* The monitor never blames a thread that was not silent: a thread that    *)
(* has ever fed is silent for DeadThreshold seconds when it is reported.   *)
(* One that never fed is counted from the very first check, made as soon   *)
(* as it exists, and so is reported a second early.                        *)
BlamedWasSilent ==
  [][\A t \in Threads :
       dead_thread' # dead_thread /\ dead_thread' = ThreadId(t) =>
         /\ silence[t] >= DeadThreshold - 1
         /\ ever_fed[t] => silence[t] >= DeadThreshold]_vars

(* No thread is silent for more than DeadThreshold + 1 seconds while the   *)
(* monitor goes on feeding the hardware.                                   *)
SilenceIsNoticed ==
  monitor = "running" /\ ~test_mode =>
    \A t \in Threads : silence[t] <= DeadThreshold + 1

(* A board is never reset in test mode for a thread that fell silent, nor  *)
(* by restarts that are quick enough: the hardware fires after a monitor   *)
(* outside test mode gave up, or after a crash from which no start reached *)
(* its monitor in time.  systemd's pauses and the seconds the starts took  *)
(* then make up the hardware's timeout, but for the last second before the *)
(* crash.                                                                  *)
ResetNeedsCause ==
  [][HwReset => \/ gave_up /\ ~test_mode
                \/ (failed_starts + 1) * RestartSec + start_time
                     >= HwTimeout - 1]_vars

(* No process lives on for ever with a thread that is stuck or returned,   *)
(* whatever the other thread does, when there is a device to open.         *)
StuckIsNotForever ==
  wdt_present /\ ~test_mode =>
    \A t \in Threads :
      []<>(process # "up" \/ status[t] \notin {"stuck", "gone"})

(* Once the monitor gives up, the board resets unless the process crashes  *)
(* first: the reported thread coming back to life does not save it.        *)
GivingUpIsFatal ==
  monitor = "gave_up" ~> process # "up"

=============================================================================
