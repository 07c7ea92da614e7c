--------------------------- MODULE WatchdogProofs ---------------------------
(***************************************************************************)
(* The safety properties of Watchdog, for every threshold, timeout and     *)
(* pause that the assumption allows.                                       *)
(***************************************************************************)
EXTENDS Watchdog, TLAPS

-----------------------------------------------------------------------------
(* The monitor lives as long as the process; before it opens the device    *)
(* nothing has been counted and no second has passed.                      *)
Lives ==
  /\ process # "up" <=> monitor = "none"
  /\ monitor = "starting" =>
       /\ ~checked
       /\ \A t \in Threads : /\ silence[t] = 0 /\ dead_count[t] = 0
                             /\ ever_fed[t] <=> moved[t]

(* The count of a thread follows its silence: at most two behind it, of    *)
(* which one may be a second that was not checked yet, and one the second  *)
(* in which the beat came after the check ...                              *)
CountIsClose(t) ==
  /\ moved[t] => silence[t] <= IF checked THEN 0 ELSE 1
  /\ ~moved[t] => silence[t] <= dead_count[t] + IF checked THEN 1 ELSE 2

(* ... and never ahead of it, except for the first check of a thread that  *)
(* has not fed yet.                                                        *)
CountIsEarned(t) ==
  /\ ~moved[t] /\ ever_fed[t] =>
       silence[t] >= dead_count[t] + IF checked THEN 0 ELSE 1
  /\ ~moved[t] /\ ~ever_fed[t] =>
       silence[t] + (IF checked THEN 1 ELSE 0) >= dead_count[t]
  /\ ~ever_fed[t] => ~moved[t]

Counts ==
  monitor = "running" =>
    \A t \in Threads :
      /\ CountIsEarned(t)
      /\ ~test_mode => CountIsClose(t) /\ dead_count[t] < DeadThreshold

(* The hardware was fed at most a second ago, or before the crash and the  *)
(* pauses and starts since then.                                           *)
Elapsed == HwTimeout - hw_left

Fed ==
  /\ gave_up => ~test_mode
  /\ monitor = "gave_up" => gave_up
  /\ hw_on => wdt_present /\ start_time <= Elapsed
  /\ monitor = "no_device" => ~wdt_present
  /\ monitor = "running" =>
       /\ failed_starts = 0 /\ start_time = 0 /\ ~gave_up
       /\ hw_on => Elapsed <= IF checked THEN 0 ELSE 1
  /\ /\ hw_on /\ ~gave_up /\ monitor \in {"none", "starting"}
     /\ failed_starts < StartsBeforeReset
     => Elapsed <= 1 + failed_starts * RestartSec + down_for + start_time

IInv == TypeOK /\ Lives /\ Counts /\ Fed

-----------------------------------------------------------------------------
(* Arithmetic. *)

(* One start more than those that fit before a reset takes too long.       *)
LEMMA StartsFacts ==
  /\ StartsBeforeReset \in Nat
  /\ (StartsBeforeReset + 1) * RestartSec >= HwTimeout - 1
<1> DEFINE a == HwTimeout - 2
           b == RestartSec
           d == a \div b
<1>1. a \in Nat /\ b \in Nat /\ b > 0
  BY WatchdogAssumption
<1>2. d = StartsBeforeReset
  BY DEF StartsBeforeReset
<1> HIDE DEF a, b
<1>3. d \in Nat /\ a = d * b + (a % b) /\ a % b \in 0 .. b - 1
  BY <1>1, SMTT(30)
<1> HIDE DEF d
<1>4. d * b \in Nat /\ (d + 1) * b = d * b + b
  BY <1>1, <1>3
<1>5. (d + 1) * b >= a + 1
  BY <1>1, <1>3, <1>4
<1> QED BY <1>1, <1>2, <1>3, <1>5, WatchdogAssumption DEF a, b

(* The bound on the elapsed time when one more start has failed.           *)
LEMMA OneMoreStart ==
  ASSUME NEW n \in Nat
  PROVE  /\ n * RestartSec \in Nat
         /\ (n + 1) * RestartSec = n * RestartSec + RestartSec
BY WatchdogAssumption

(* A second more on either side of the bound.                              *)
LEMMA OneSecondMore ==
  ASSUME NEW e \in Nat, NEW p \in Nat,
         NEW d \in Nat, NEW s \in Nat, NEW dd \in Nat, NEW ss \in Nat,
         e <= 1 + p + d + s, dd + ss = d + s + 1
  PROVE  e + 1 <= 1 + p + dd + ss
OBVIOUS

-----------------------------------------------------------------------------
(* The invariant holds when the board is switched on. *)
LEMMA InitInv == Init => IInv
<1> SUFFICES ASSUME Init PROVE IInv
  OBVIOUS
<1>1. TypeOK
  <2>1. /\ RestartSec \in 0 .. RestartSec
        /\ 0 \in 0 .. HwTimeout /\ 0 \in 0 .. StartsBeforeReset
        /\ 0 \in 0 .. DeadThreshold /\ 0 \in 0 .. SilenceCap
        /\ 0 \in 0 .. 2
    BY WatchdogAssumption, StartsFacts
  <2>2. /\ \A t \in Threads : Zero[t] = 0
        /\ Zero \in [Threads -> 0 .. DeadThreshold]
        /\ Zero \in [Threads -> 0 .. SilenceCap]
        /\ Zero \in [Threads -> Nat]
    BY <2>1 DEF Zero
  <2>3. NotYet \in [Threads -> BOOLEAN]
    BY DEF NotYet
  <2>4. [t \in Threads |-> "gone"] \in [Threads -> Statuses]
    BY DEF Statuses
  <2> QED BY <2>1, <2>2, <2>3, <2>4 DEF Init, TypeOK
<1>2. Lives /\ Counts /\ Fed
  BY DEF Init, Lives, Counts, Fed
<1> QED BY <1>1, <1>2 DEF IInv

-----------------------------------------------------------------------------
(* The process. *)

LEMMA BootKeepsInv == IInv /\ Boot => IInv'
<1> SUFFICES ASSUME IInv, Boot PROVE IInv'
  OBVIOUS
<1>1. /\ process = "down" /\ process' = "booting"
      /\ UNCHANGED <<test_mode, wdt_present, down_for, status, wait_left, fed,
                     moved, silence, ever_fed, monitor, checked, dead_count,
                     dead_thread, hw_on, hw_left, gave_up, failed_starts,
                     start_time>>
  BY DEF Boot, config, threads, mon, hw, ghosts
<1>2. TypeOK'
  BY <1>1 DEF IInv, TypeOK
<1>3. Lives' /\ Counts'
  BY <1>1 DEF IInv, Lives, Counts, CountIsClose, CountIsEarned
<1>4. Fed'
  BY <1>1 DEF IInv, Fed, Elapsed
<1> QED BY <1>2, <1>3, <1>4 DEF IInv

LEMMA StartKeepsInv == IInv /\ Start => IInv'
<1> SUFFICES ASSUME IInv, Start PROVE IInv'
  OBVIOUS
<1> USE DEF IInv
<1>1. TypeOK'
  <2>1. /\ NotYet \in [Threads -> BOOLEAN]
        /\ Zero \in [Threads -> 0 .. DeadThreshold]
        /\ Zero \in [Threads -> 0 .. SilenceCap]
    BY WatchdogAssumption DEF NotYet, Zero
  <2>2. status' \in [Threads -> Statuses]
    BY DEF Start, Statuses
  <2>3. wait_left' \in [Threads -> Nat]
    BY WatchdogAssumption DEF Start
  <2>4. UNCHANGED <<test_mode, wdt_present, down_for, hw_on, hw_left,
                    gave_up, failed_starts, start_time>>
    BY DEF Start, config, hw, ghosts
  <2>5. /\ process' = "up" /\ monitor' = "starting" /\ checked' = FALSE
        /\ fed' = NotYet /\ moved' = NotYet /\ ever_fed' = NotYet
        /\ dead_count' = Zero /\ silence' = Zero /\ dead_thread' = 0
    BY Zenon DEF Start, NewVariables
  <2>6. checked' \in BOOLEAN
    BY <2>5, Zenon
  <2>7. dead_thread' \in 0 .. 2
    BY <2>5
  <2> QED BY <2>1, <2>2, <2>3, <2>4, <2>5, <2>6, <2>7 DEF TypeOK
<1>2. Lives'
  BY DEF Start, NewVariables, Lives, Zero, NotYet
<1>3. Counts'
  BY DEF Start, Counts
<1>4. Fed'
  BY DEF Start, Fed, Lives, Elapsed, config, hw, ghosts
<1> QED BY <1>1, <1>2, <1>3, <1>4

(* Each failed start adds one pause to the time since the hardware was fed. *)
LEMMA StartFailsKeepsInv == IInv /\ StartFails => IInv'
<1> SUFFICES ASSUME IInv, StartFails PROVE IInv'
  OBVIOUS
<1> USE DEF IInv
<1>1. TypeOK'
  BY WatchdogAssumption, StartsFacts
     DEF StartFails, TypeOK, config, threads, mon, hw
<1>2. Lives'
  BY DEF StartFails, Lives, threads, mon, TypeOK
<1>3. Counts'
  BY DEF StartFails, Counts, CountIsClose, CountIsEarned, config, threads, mon
<1>4. Fed'
  <2>1. monitor = "none" /\ monitor' = "none"
    BY DEF StartFails, Lives, mon
  <2>2. ASSUME hw_on', ~gave_up', failed_starts' < StartsBeforeReset
        PROVE  Elapsed' <= 1 + failed_starts' * RestartSec + down_for'
                             + start_time'
    <3>1. /\ failed_starts \in Nat /\ failed_starts' = failed_starts + 1
          /\ failed_starts < StartsBeforeReset
      BY <2>2, StartsFacts DEF StartFails, TypeOK
    <3>2. Elapsed <= 1 + failed_starts * RestartSec + down_for + start_time
      BY <2>1, <2>2, <3>1 DEF StartFails, Fed, hw
    <3>3. /\ down_for \in 0 .. RestartSec /\ down_for' = 0
          /\ start_time \in Nat /\ start_time' = start_time
          /\ Elapsed' = Elapsed
      BY WatchdogAssumption DEF StartFails, TypeOK, Elapsed, hw
    <3>4. /\ failed_starts * RestartSec \in Nat
          /\ (failed_starts + 1) * RestartSec
               = failed_starts * RestartSec + RestartSec
      BY <3>1, OneMoreStart
    <3>5. Elapsed \in Nat
      BY WatchdogAssumption DEF TypeOK, Elapsed
    <3> QED BY <3>1, <3>2, <3>3, <3>4, <3>5, WatchdogAssumption
  <2> QED BY <2>1, <2>2 DEF StartFails, Fed, Elapsed, config, hw
<1> QED BY <1>1, <1>2, <1>3, <1>4

LEMMA CrashKeepsInv == IInv /\ Crash => IInv'
<1> SUFFICES ASSUME IInv, Crash PROVE IInv'
  OBVIOUS
<1> USE DEF IInv
<1>1. TypeOK'
  <2>1. /\ NotYet \in [Threads -> BOOLEAN]
        /\ Zero \in [Threads -> 0 .. DeadThreshold]
        /\ Zero \in [Threads -> 0 .. SilenceCap]
        /\ Zero \in [Threads -> Nat]
        /\ [t \in Threads |-> "gone"] \in [Threads -> Statuses]
    BY WatchdogAssumption DEF NotYet, Zero, Statuses
  <2>2. /\ process' = "down" /\ monitor' = "none" /\ checked' = FALSE
        /\ status' = [t \in Threads |-> "gone"] /\ wait_left' = Zero
        /\ fed' = NotYet /\ moved' = NotYet /\ ever_fed' = NotYet
        /\ dead_count' = Zero /\ silence' = Zero /\ dead_thread' = 0
    BY Zenon DEF Crash, NoThreads, NewVariables
  <2>3. /\ down_for' \in 0 .. RestartSec
        /\ failed_starts' \in 0 .. StartsBeforeReset
    BY WatchdogAssumption, StartsFacts DEF Crash, TypeOK
  <2>4. UNCHANGED <<test_mode, wdt_present, hw_on, hw_left, gave_up,
                    start_time>>
    BY DEF Crash, config, hw
  <2>5. checked' \in BOOLEAN
    BY <2>2, Zenon
  <2>6. dead_thread' \in 0 .. 2
    BY <2>2
  <2> QED BY <2>1, <2>2, <2>3, <2>4, <2>5, <2>6 DEF TypeOK
<1>2. Lives'
  BY DEF Crash, NoThreads, Lives
<1>3. Counts'
  BY DEF Crash, NoThreads, Counts
<1>4. Fed'
  <2>1. /\ monitor # "none" /\ monitor' = "none"
        /\ hw_on' = hw_on /\ gave_up' = gave_up /\ Elapsed' = Elapsed
        /\ down_for' = 0 /\ start_time' = start_time /\ start_time \in Nat
    BY WatchdogAssumption DEF Crash, NoThreads, Lives, Elapsed, hw, TypeOK
  <2>2. ASSUME hw_on', ~gave_up', failed_starts' < StartsBeforeReset
        PROVE  Elapsed' <= 1 + failed_starts' * RestartSec + down_for'
                             + start_time'
    <3>1. monitor \in {"starting", "running"}
      BY <2>1, <2>2 DEF TypeOK, Fed
    <3>2. Elapsed \in Nat
      BY WatchdogAssumption DEF TypeOK, Elapsed
    <3>3. CASE monitor = "running"
      <4>1. failed_starts' = 0 /\ Elapsed <= 1
        BY <2>1, <2>2, <3>2, <3>3 DEF Crash, Fed
      <4> QED BY <2>1, <4>1, <3>2, WatchdogAssumption
    <3>4. CASE monitor = "starting"
      <4>1. /\ failed_starts \in Nat /\ failed_starts' = failed_starts + 1
            /\ failed_starts < StartsBeforeReset
        BY <2>2, <3>4, StartsFacts DEF Crash, TypeOK
      <4>2. Elapsed <= 1 + failed_starts * RestartSec + down_for + start_time
        BY <2>1, <2>2, <3>4, <4>1 DEF Fed
      <4>3. down_for \in Nat /\ down_for <= RestartSec
        BY WatchdogAssumption DEF TypeOK
      <4>4. /\ failed_starts * RestartSec \in Nat
            /\ (failed_starts + 1) * RestartSec
                 = failed_starts * RestartSec + RestartSec
        BY <4>1, OneMoreStart
      <4> QED BY <2>1, <3>2, <4>1, <4>2, <4>3, <4>4, WatchdogAssumption
    <3> QED BY <3>1, <3>3, <3>4
  <2> QED BY <2>1, <2>2 DEF Crash, Fed, config, hw
<1> QED BY <1>1, <1>2, <1>3, <1>4

-----------------------------------------------------------------------------
(* The watched threads. *)

(* What a beat does to the thread that feeds, and to the other one. *)
LEMMA BeatKeeps ==
  ASSUME TypeOK, Lives, Counts, NEW t \in Threads, Beat(t),
         UNCHANGED <<test_mode, process, monitor, checked, dead_count>>
  PROVE  /\ fed' \in [Threads -> BOOLEAN]
         /\ moved' \in [Threads -> BOOLEAN]
         /\ silence' \in [Threads -> 0 .. SilenceCap]
         /\ ever_fed' \in [Threads -> BOOLEAN]
         /\ Lives' /\ Counts'
<1>1. /\ moved'[t] = TRUE /\ ever_fed'[t] = TRUE /\ silence'[t] = 0
      /\ \A u \in Threads \ {t} : /\ moved'[u] = moved[u]
                                  /\ ever_fed'[u] = ever_fed[u]
                                  /\ silence'[u] = silence[u]
  BY DEF Beat, TypeOK
<1>2. /\ fed' \in [Threads -> BOOLEAN]
      /\ moved' \in [Threads -> BOOLEAN]
      /\ silence' \in [Threads -> 0 .. SilenceCap]
      /\ ever_fed' \in [Threads -> BOOLEAN]
  BY WatchdogAssumption DEF Beat, TypeOK
<1>3. Lives'
  BY <1>1 DEF Lives
<1>4. Counts'
  <2> SUFFICES ASSUME monitor' = "running", NEW u \in Threads
               PROVE  /\ CountIsEarned(u)'
                      /\ ~test_mode' => /\ CountIsClose(u)'
                                        /\ dead_count'[u] < DeadThreshold
    BY DEF Counts
  <2>1. /\ CountIsEarned(u)
        /\ ~test_mode => CountIsClose(u) /\ dead_count[u] < DeadThreshold
    BY DEF Counts
  <2>2. CASE u = t
    BY <1>1, <2>1, <2>2 DEF CountIsEarned, CountIsClose
  <2>3. CASE u # t
    BY <1>1, <2>1, <2>3 DEF CountIsEarned, CountIsClose
  <2> QED BY <2>2, <2>3
<1> QED BY <1>2, <1>3, <1>4

LEMMA FeedKeepsInv == ASSUME NEW t \in Threads PROVE IInv /\ Feed(t) => IInv'
<1> SUFFICES ASSUME IInv, Feed(t) PROVE IInv'
  OBVIOUS
<1> USE DEF IInv
<1>1. /\ Beat(t)
      /\ UNCHANGED <<test_mode, wdt_present, process, down_for, status,
                     wait_left, monitor, checked, dead_count, dead_thread,
                     hw_on, hw_left, gave_up, failed_starts, start_time>>
  BY DEF Feed, config, mon, hw, ghosts
<1>2. /\ fed' \in [Threads -> BOOLEAN] /\ moved' \in [Threads -> BOOLEAN]
      /\ silence' \in [Threads -> 0 .. SilenceCap]
      /\ ever_fed' \in [Threads -> BOOLEAN]
      /\ Lives' /\ Counts'
  BY <1>1, BeatKeeps
<1>3. TypeOK'
  BY <1>1, <1>2 DEF TypeOK
<1>4. Fed'
  BY <1>1 DEF Fed, Elapsed
<1> QED BY <1>2, <1>3, <1>4

LEMMA EndWaitKeepsInv ==
  ASSUME NEW t \in Threads PROVE IInv /\ EndWait(t) => IInv'
<1> SUFFICES ASSUME IInv, EndWait(t) PROVE IInv'
  OBVIOUS
<1> USE DEF IInv
<1>1. /\ Beat(t)
      /\ UNCHANGED <<test_mode, wdt_present, process, down_for, monitor,
                     checked, dead_count, dead_thread, hw_on, hw_left,
                     gave_up, failed_starts, start_time>>
  BY DEF EndWait, config, mon, hw, ghosts
<1>2. /\ fed' \in [Threads -> BOOLEAN] /\ moved' \in [Threads -> BOOLEAN]
      /\ silence' \in [Threads -> 0 .. SilenceCap]
      /\ ever_fed' \in [Threads -> BOOLEAN]
      /\ Lives' /\ Counts'
  BY <1>1, BeatKeeps
<1>3. status' \in [Threads -> Statuses] /\ wait_left' \in [Threads -> Nat]
  BY DEF EndWait, TypeOK, Statuses
<1>4. TypeOK'
  BY <1>1, <1>2, <1>3 DEF TypeOK
<1>5. Fed'
  BY <1>1 DEF Fed, Elapsed
<1> QED BY <1>2, <1>4, <1>5

LEMMA GetUnstuckKeepsInv ==
  ASSUME NEW t \in Threads PROVE IInv /\ GetUnstuck(t) => IInv'
<1> SUFFICES ASSUME IInv, GetUnstuck(t) PROVE IInv'
  OBVIOUS
<1> USE DEF IInv
<1>1. /\ Beat(t)
      /\ UNCHANGED <<test_mode, wdt_present, process, down_for, wait_left,
                     monitor, checked, dead_count, dead_thread, hw_on,
                     hw_left, gave_up, failed_starts, start_time>>
  BY DEF GetUnstuck, config, mon, hw, ghosts
<1>2. /\ fed' \in [Threads -> BOOLEAN] /\ moved' \in [Threads -> BOOLEAN]
      /\ silence' \in [Threads -> 0 .. SilenceCap]
      /\ ever_fed' \in [Threads -> BOOLEAN]
      /\ Lives' /\ Counts'
  BY <1>1, BeatKeeps
<1>3. status' \in [Threads -> Statuses]
  BY DEF GetUnstuck, TypeOK, Statuses
<1>4. TypeOK'
  BY <1>1, <1>2, <1>3 DEF TypeOK
<1>5. Fed'
  BY <1>1 DEF Fed, Elapsed
<1> QED BY <1>2, <1>4, <1>5

(* Beginning to wait, or not returning, changes only what the thread does. *)
LEMMA StatusKeepsInv ==
  ASSUME IInv, status' \in [Threads -> Statuses],
         wait_left' \in [Threads -> Nat],
         UNCHANGED <<config, process, down_for, fed, moved, silence, ever_fed,
                     mon, hw, ghosts>>
  PROVE  IInv'
<1>1. TypeOK'
  BY DEF IInv, TypeOK, config, mon, hw, ghosts
<1>2. Lives' /\ Counts'
  BY DEF IInv, Lives, Counts, CountIsClose, CountIsEarned, config, mon
<1>3. Fed'
  BY DEF IInv, Fed, Elapsed, config, mon, hw, ghosts
<1> QED BY <1>1, <1>2, <1>3 DEF IInv

LEMMA AcceptKeepsInv == IInv /\ Accept => IInv'
<1> SUFFICES ASSUME IInv, Accept PROVE IInv'
  OBVIOUS
<1>1. status' \in [Threads -> Statuses] /\ wait_left' \in [Threads -> Nat]
  BY WatchdogAssumption DEF Accept, IInv, TypeOK, Statuses
<1> QED BY <1>1, StatusKeepsInv DEF Accept

LEMMA GetStuckKeepsInv ==
  ASSUME NEW t \in Threads PROVE IInv /\ GetStuck(t) => IInv'
<1> SUFFICES ASSUME IInv, GetStuck(t) PROVE IInv'
  OBVIOUS
<1>1. status' \in [Threads -> Statuses] /\ wait_left' \in [Threads -> Nat]
  BY DEF GetStuck, IInv, TypeOK, Statuses
<1> QED BY <1>1, StatusKeepsInv DEF GetStuck

-----------------------------------------------------------------------------
(* The monitor. *)

LEMMA MonitorOpensKeepsInv == IInv /\ MonitorOpens => IInv'
<1> SUFFICES ASSUME IInv, MonitorOpens PROVE IInv'
  OBVIOUS
<1> USE DEF IInv
<1>1. /\ monitor = "starting" /\ monitor' \in {"running", "no_device"}
      /\ gave_up' = FALSE
      /\ UNCHANGED <<test_mode, wdt_present, process, down_for, status,
                     wait_left, fed, moved, silence, ever_fed, checked,
                     dead_count, dead_thread>>
  BY Zenon DEF MonitorOpens, config, threads
<1>2. /\ failed_starts' = 0 /\ failed_starts' \in 0 .. StartsBeforeReset
      /\ start_time' = 0 /\ start_time' \in 0 .. HwTimeout
      /\ \A t \in Threads : dead_count'[t] < DeadThreshold
  BY <1>1, StartsFacts, WatchdogAssumption DEF MonitorOpens, Lives
<1>3. CASE wdt_present
  <2>1. monitor' = "running" /\ hw_on' = TRUE /\ hw_left' = HwTimeout
    BY <1>3 DEF MonitorOpens
  <2>2. TypeOK'
    <3>1. hw_on' \in BOOLEAN /\ gave_up' \in BOOLEAN
      BY <1>1, <2>1, Zenon
    <3>2. hw_left' \in 0 .. HwTimeout
      BY <2>1, WatchdogAssumption
    <3> QED BY <1>1, <1>2, <3>1, <3>2 DEF TypeOK
  <2>3. Lives'
    BY <1>1, <2>1 DEF Lives
  <2>4. Counts'
    BY <1>1, WatchdogAssumption
       DEF Counts, CountIsClose, CountIsEarned, Lives
  <2>5. Fed'
    BY <1>1, <1>2, <1>3, <2>1, WatchdogAssumption DEF Fed, Elapsed
  <2> QED BY <2>2, <2>3, <2>4, <2>5
<1>4. CASE ~wdt_present
  <2>1. monitor' = "no_device" /\ hw_on' = hw_on /\ hw_left' = hw_left
    BY <1>4 DEF MonitorOpens, hw
  <2>2. TypeOK'
    <3>1. gave_up' \in BOOLEAN
      BY <1>1, Zenon
    <3> QED BY <1>1, <1>2, <2>1, <3>1 DEF TypeOK
  <2>3. Lives'
    BY <1>1, <2>1 DEF Lives
  <2>4. Counts'
    BY <2>1 DEF Counts
  <2>5. Fed'
    BY <1>1, <1>2, <1>4, <2>1 DEF Fed
  <2> QED BY <2>2, <2>3, <2>4, <2>5
<1> QED BY <1>3, <1>4

(* One check: the count follows the silence, whatever the outcome. *)
LEMMA CheckFacts ==
  ASSUME TypeOK, Counts, Check, NEW t \in Threads
  PROVE  /\ dead_count'[t] = Counted(t) /\ ~moved'[t] /\ checked'
         /\ Counted(t) \in 0 .. DeadThreshold
         /\ CountIsEarned(t)'
         /\ ~test_mode => CountIsClose(t)'
<1>1. /\ dead_count'[t] = Counted(t) /\ ~moved'[t] /\ checked' /\ ~checked
      /\ silence'[t] = silence[t] /\ ever_fed'[t] = ever_fed[t]
  BY DEF Check, NotYet
<1>2. /\ CountIsEarned(t)
      /\ ~test_mode => CountIsClose(t) /\ dead_count[t] < DeadThreshold
  BY DEF Check, Counts
<1>3. /\ silence[t] \in Nat /\ dead_count[t] \in 0 .. DeadThreshold
      /\ moved[t] \in BOOLEAN /\ ever_fed[t] \in BOOLEAN
  BY DEF TypeOK
<1>4. Counted(t) \in 0 .. DeadThreshold
  BY <1>3, WatchdogAssumption DEF Counted
<1>5. CountIsEarned(t)'
  BY <1>1, <1>2, <1>3, <1>4, WatchdogAssumption DEF CountIsEarned, Counted
<1>6. ~test_mode => CountIsClose(t)'
  BY <1>1, <1>2, <1>3, WatchdogAssumption DEF CountIsClose, Counted
<1> QED BY <1>1, <1>4, <1>5, <1>6

LEMMA CheckKeepsTypes ==
  ASSUME TypeOK, Counts, Check
  PROVE  /\ dead_count' \in [Threads -> 0 .. DeadThreshold]
         /\ moved' \in [Threads -> BOOLEAN]
         /\ checked' \in BOOLEAN
         /\ dead_thread' \in 0 .. 2
         /\ UNCHANGED <<test_mode, wdt_present, process, down_for, status,
                        wait_left, fed, silence, ever_fed, failed_starts,
                        start_time>>
<1>1. dead_count' = [t \in Threads |-> Counted(t)]
  BY DEF Check
<1>2. \A t \in Threads : Counted(t) \in 0 .. DeadThreshold
  BY CheckFacts
<1>3. moved' \in [Threads -> BOOLEAN] /\ checked' \in BOOLEAN
  BY DEF Check, NotYet
<1>4. dead_thread' \in {dead_thread, 1, 2}
  BY DEF Check
<1>5. dead_thread' \in 0 .. 2
  BY <1>4 DEF TypeOK
<1>6. UNCHANGED <<test_mode, wdt_present, process, down_for, status,
                  wait_left, fed, silence, ever_fed, failed_starts,
                  start_time>>
  BY DEF Check, config
<1> QED BY <1>1, <1>2, <1>3, <1>5, <1>6

LEMMA MonitorFeedsKeepsInv == IInv /\ MonitorFeeds => IInv'
<1> SUFFICES ASSUME IInv, MonitorFeeds PROVE IInv'
  OBVIOUS
<1> USE DEF IInv
<1>1. /\ Check /\ monitor = "running" /\ monitor' = "running"
      /\ hw_on' = hw_on /\ gave_up' = gave_up
  BY DEF MonitorFeeds, Check
<1>2. hw_left' = HwTimeout
  BY DEF MonitorFeeds
<1>4. Lives'
  BY <1>1, CheckKeepsTypes DEF Lives
<1>5. Counts'
  <2> SUFFICES ASSUME NEW t \in Threads
               PROVE  /\ CountIsEarned(t)'
                      /\ ~test_mode' => /\ CountIsClose(t)'
                                        /\ dead_count'[t] < DeadThreshold
    BY DEF Counts
  <2>1. /\ CountIsEarned(t)' /\ (~test_mode => CountIsClose(t)')
        /\ dead_count'[t] \in 0 .. DeadThreshold
    BY <1>1, CheckFacts
  <2>2. test_mode' = test_mode
    BY <1>1, CheckKeepsTypes
  <2>3. ~test_mode => dead_count'[t] < DeadThreshold
    BY <2>1, WatchdogAssumption DEF MonitorFeeds, is_any_dead
  <2> QED BY <2>1, <2>2, <2>3
<1>6. TypeOK'
  <2>1. monitor' = "running" /\ ~test_mode' =>
          \A t \in Threads : dead_count'[t] < DeadThreshold
    BY <1>5 DEF Counts
  <2> QED BY <1>1, <1>2, <2>1, CheckKeepsTypes, WatchdogAssumption DEF TypeOK
<1>7. Fed'
  BY <1>1, <1>2, CheckKeepsTypes, WatchdogAssumption DEF Fed, Elapsed
<1> QED BY <1>4, <1>5, <1>6, <1>7

LEMMA MonitorGivesUpKeepsInv == IInv /\ MonitorGivesUp => IInv'
<1> SUFFICES ASSUME IInv, MonitorGivesUp PROVE IInv'
  OBVIOUS
<1> USE DEF IInv
<1>1. /\ Check /\ monitor = "running" /\ monitor' = "gave_up"
      /\ hw_on' = hw_on /\ gave_up' = TRUE /\ ~test_mode
  BY DEF MonitorGivesUp, Check, hw
<1>2. hw_left' = hw_left
  BY DEF MonitorGivesUp, hw
<1>3. TypeOK'
  BY <1>1, <1>2, CheckKeepsTypes DEF TypeOK
<1>4. Lives'
  BY <1>1, CheckKeepsTypes DEF Lives
<1>5. Counts'
  BY <1>1 DEF Counts
<1>6. Fed'
  BY <1>1, <1>2, CheckKeepsTypes DEF Fed, Elapsed
<1> QED BY <1>3, <1>4, <1>5, <1>6

-----------------------------------------------------------------------------
(* Time and the hardware watchdog. *)

LEMMA TickKeepsInv == IInv /\ Tick => IInv'
<1> SUFFICES ASSUME IInv, Tick PROVE IInv'
  OBVIOUS
<1> USE DEF IInv
<1>1. /\ UNCHANGED <<test_mode, wdt_present, process, status, moved,
                     ever_fed, monitor, dead_count, dead_thread, hw_on,
                     gave_up, failed_starts>>
      /\ checked' = FALSE
      /\ monitor # "starting" /\ (monitor = "running" => checked)
  BY DEF Tick, SecondIsOver, config
<1>2. /\ down_for' \in 0 .. RestartSec
      /\ down_for' = IF process = "down" THEN down_for + 1 ELSE down_for
  BY WatchdogAssumption DEF Tick, SecondIsOver, TypeOK
<1>3. /\ hw_left' \in 0 .. HwTimeout
      /\ hw_on => hw_left' = hw_left - 1
  BY WatchdogAssumption DEF Tick, SecondIsOver, TypeOK
<1>4. /\ silence' \in [Threads -> 0 .. SilenceCap]
      /\ \A t \in Threads :
           silence'[t] = IF process # "up" THEN 0
                         ELSE IF silence[t] < SilenceCap THEN silence[t] + 1
                         ELSE SilenceCap
  BY WatchdogAssumption DEF Tick, TypeOK
<1>5. wait_left' \in [Threads -> Nat]
  BY DEF Tick, TypeOK
<1>6. fed' \in [Threads -> BOOLEAN] /\ checked' \in BOOLEAN
  BY DEF Tick, NotYet
<1>11. /\ start_time' = IF process = "booting" /\ hw_on THEN start_time + 1
                        ELSE start_time
       /\ start_time' \in 0 .. HwTimeout
       /\ hw_on => Elapsed' = Elapsed + 1 /\ start_time' <= Elapsed'
  <2>1. start_time' = IF process = "booting" /\ hw_on THEN start_time + 1
                      ELSE start_time
    BY DEF Tick
  <2>2. hw_on => hw_left > 0 /\ hw_left' = hw_left - 1
    BY <1>3 DEF Tick, SecondIsOver
  <2>3. hw_on => start_time <= Elapsed
    BY DEF Fed
  <2> QED BY <2>1, <2>2, <2>3, WatchdogAssumption DEF TypeOK, Elapsed
<1>7. TypeOK'
  BY <1>1, <1>2, <1>3, <1>4, <1>5, <1>6, <1>11 DEF TypeOK
<1>8. Lives'
  BY <1>1 DEF Lives
<1>9. Counts'
  <2> SUFFICES ASSUME monitor' = "running", NEW t \in Threads
               PROVE  /\ CountIsEarned(t)'
                      /\ ~test_mode' => /\ CountIsClose(t)'
                                        /\ dead_count'[t] < DeadThreshold
    BY DEF Counts
  <2>1. /\ CountIsEarned(t) /\ checked /\ ~checked' /\ process = "up"
        /\ ~test_mode => CountIsClose(t) /\ dead_count[t] < DeadThreshold
    BY <1>1 DEF Counts, Lives
  <2>2. /\ silence[t] \in 0 .. SilenceCap
        /\ dead_count[t] \in 0 .. DeadThreshold
    BY DEF TypeOK
  <2>3. CountIsEarned(t)'
    BY <1>1, <1>4, <2>1, <2>2, WatchdogAssumption DEF CountIsEarned
  <2>4. ~test_mode => CountIsClose(t)'
    BY <1>1, <1>4, <2>1, <2>2, WatchdogAssumption DEF CountIsClose
  <2> QED BY <1>1, <2>1, <2>3, <2>4
<1>10. Fed'
  <2>2. monitor = "running" /\ hw_on => Elapsed' <= 1
    BY <1>1, <1>3, WatchdogAssumption DEF Fed, Elapsed, TypeOK
  <2>3. ASSUME hw_on, ~gave_up, monitor = "none",
               failed_starts < StartsBeforeReset
        PROVE  Elapsed' <= 1 + failed_starts * RestartSec + down_for'
                             + start_time'
    <3>1. Elapsed <= 1 + failed_starts * RestartSec + down_for + start_time
      BY <2>3 DEF Fed
    <3>2. process = "down" \/ process = "booting"
      BY <2>3 DEF Lives, TypeOK
    <3>3. down_for' + start_time' = down_for + start_time + 1
      BY <1>2, <1>11, <2>3, <3>2 DEF TypeOK
    <3>4. /\ failed_starts * RestartSec \in Nat
          /\ down_for \in Nat /\ start_time \in Nat /\ Elapsed \in Nat
          /\ down_for' \in Nat /\ start_time' \in Nat
      BY <1>2, <1>11, OneMoreStart, StartsFacts, WatchdogAssumption
         DEF TypeOK, Elapsed
    <3>5. Elapsed' = Elapsed + 1
      BY <1>11, <2>3, Zenon
    <3>6. PICK p \in Nat : p = failed_starts * RestartSec
      BY <3>4
    <3>7. Elapsed <= 1 + p + down_for + start_time
      BY <3>1, <3>6, Zenon
    <3>8. Elapsed' <= 1 + p + down_for' + start_time'
      BY <3>3, <3>4, <3>6, <3>7, <3>5, OneSecondMore, Zenon
    <3> QED BY <3>6, <3>8, Zenon
  <2>4. monitor = "running" => start_time' = 0
    BY <1>11 DEF Fed, Lives
  <2> QED BY <1>1, <1>11, <2>2, <2>3, <2>4 DEF Fed
<1> QED BY <1>7, <1>8, <1>9, <1>10

LEMMA HwResetKeepsInv == IInv /\ HwReset => IInv'
<1> SUFFICES ASSUME IInv, HwReset PROVE IInv'
  OBVIOUS
<1> USE DEF IInv
<1>1. TypeOK'
  <2>1. /\ NotYet \in [Threads -> BOOLEAN]
        /\ Zero \in [Threads -> 0 .. DeadThreshold]
        /\ Zero \in [Threads -> 0 .. SilenceCap]
        /\ Zero \in [Threads -> Nat]
        /\ [t \in Threads |-> "gone"] \in [Threads -> Statuses]
    BY WatchdogAssumption DEF NotYet, Zero, Statuses
  <2>2. /\ process' = "down" /\ monitor' = "none" /\ checked' = FALSE
        /\ status' = [t \in Threads |-> "gone"] /\ wait_left' = Zero
        /\ fed' = NotYet /\ moved' = NotYet /\ ever_fed' = NotYet
        /\ dead_count' = Zero /\ silence' = Zero /\ dead_thread' = 0
        /\ hw_on' = FALSE /\ gave_up' = FALSE
    BY Zenon DEF HwReset, NoThreads, NewVariables
  <2>3. /\ down_for' \in 0 .. RestartSec
        /\ failed_starts' \in 0 .. StartsBeforeReset
        /\ start_time' \in 0 .. HwTimeout
    BY WatchdogAssumption, StartsFacts DEF HwReset
  <2>4. UNCHANGED <<test_mode, wdt_present, hw_left>>
    BY DEF HwReset, config
  <2>5. checked' \in BOOLEAN /\ hw_on' \in BOOLEAN /\ gave_up' \in BOOLEAN
    BY <2>2, Zenon
  <2>6. dead_thread' \in 0 .. 2
    BY <2>2
  <2> QED BY <2>1, <2>2, <2>3, <2>4, <2>5, <2>6 DEF TypeOK
<1>2. Lives'
  BY DEF HwReset, NoThreads, Lives
<1>3. Counts'
  BY DEF HwReset, NoThreads, Counts
<1>4. Fed'
  BY DEF HwReset, NoThreads, Fed
<1> QED BY <1>1, <1>2, <1>3, <1>4

-----------------------------------------------------------------------------
(* The theorems. *)

(* Every step keeps the invariant. *)
LEMMA NextKeepsInv == IInv /\ [Next]_vars => IInv'
<1> SUFFICES ASSUME IInv, [Next]_vars PROVE IInv'
  OBVIOUS
<1>1. CASE Boot \/ Start \/ StartFails \/ Crash
  BY <1>1, BootKeepsInv, StartKeepsInv, StartFailsKeepsInv, CrashKeepsInv, Zenon
<1>2. CASE \E t \in Threads :
             Feed(t) \/ EndWait(t) \/ GetStuck(t) \/ GetUnstuck(t)
  BY <1>2, FeedKeepsInv, EndWaitKeepsInv, GetStuckKeepsInv,
     GetUnstuckKeepsInv, Zenon
<1>3. CASE Accept
  BY <1>3, AcceptKeepsInv, Zenon
<1>4. CASE MonitorOpens \/ MonitorFeeds \/ MonitorGivesUp
  BY <1>4, MonitorOpensKeepsInv, MonitorFeedsKeepsInv,
     MonitorGivesUpKeepsInv, Zenon
<1>5. CASE Tick \/ HwReset
  BY <1>5, TickKeepsInv, HwResetKeepsInv, Zenon
<1>6. CASE UNCHANGED vars
  <2>1. UNCHANGED <<config, process, down_for, threads, mon, hw, ghosts>>
    BY <1>6 DEF vars
  <2>2. status' = status /\ wait_left' = wait_left
    BY <2>1 DEF threads
  <2>3. status' \in [Threads -> Statuses] /\ wait_left' \in [Threads -> Nat]
    BY <2>2 DEF IInv, TypeOK
  <2> QED BY <2>1, <2>3, StatusKeepsInv DEF threads
<1> QED BY <1>1, <1>2, <1>3, <1>4, <1>5, <1>6, Zenon DEF Next

(* The types of the variables hold at every step. *)
THEOREM WatchdogTypeOK == Spec => []TypeOK
<1>1. IInv => TypeOK
  BY DEF IInv
<1> QED BY <1>1, InitInv, NextKeepsInv, PTL DEF Spec

(* The monitor never goes on feeding the hardware while a thread has been  *)
(* silent for more than DeadThreshold + 1 seconds, whatever the timeouts   *)
(* of the other threads, and through every crash and restart.              *)
THEOREM WatchdogSilenceIsNoticed == Spec => []SilenceIsNoticed
<1>1. IInv => SilenceIsNoticed
  <2> SUFFICES ASSUME IInv, monitor = "running", ~test_mode,
                      NEW t \in Threads
               PROVE  silence[t] <= DeadThreshold + 1
    BY DEF SilenceIsNoticed
  <2>1. CountIsClose(t) /\ dead_count[t] < DeadThreshold
    BY DEF IInv, Counts
  <2>2. /\ silence[t] \in Nat /\ dead_count[t] \in Nat
        /\ moved[t] \in BOOLEAN
    BY DEF IInv, TypeOK
  <2> QED BY <2>1, <2>2, WatchdogAssumption DEF CountIsClose
<1> QED BY <1>1, InitInv, NextKeepsInv, PTL DEF Spec

(* A check that reports a thread reports one whose count is full, and the  *)
(* count is earned by silence.                                             *)
LEMMA CheckBlamesSilent ==
  ASSUME IInv, Check, NEW t \in Threads,
         dead_thread' # dead_thread, dead_thread' = ThreadId(t)
  PROVE  /\ silence[t] >= DeadThreshold - 1
         /\ ever_fed[t] => silence[t] >= DeadThreshold
<1>1. dead_count'[t] >= DeadThreshold
  BY DEF Check, ThreadId, Threads
<1>2. dead_count'[t] = Counted(t) /\ ~checked /\ CountIsEarned(t)
  BY CheckFacts DEF IInv, Check, Counts
<1>3. /\ silence[t] \in Nat /\ dead_count[t] \in 0 .. DeadThreshold
      /\ moved[t] \in BOOLEAN /\ ever_fed[t] \in BOOLEAN
  BY DEF IInv, TypeOK
<1>4. ~moved[t] /\ dead_count[t] >= DeadThreshold - 1
  BY <1>1, <1>2, <1>3, WatchdogAssumption DEF Counted
<1> QED BY <1>2, <1>3, <1>4, WatchdogAssumption DEF CountIsEarned

(* Whatever thread is reported dead was silent for as long as the          *)
(* threshold says.                                                         *)
THEOREM WatchdogBlamedWasSilent == Spec => BlamedWasSilent
<1> DEFINE Blame ==
      \A t \in Threads :
        dead_thread' # dead_thread /\ dead_thread' = ThreadId(t) =>
          /\ silence[t] >= DeadThreshold - 1
          /\ ever_fed[t] => silence[t] >= DeadThreshold
<1>1. IInv /\ [Next]_vars => [Blame]_vars
  <2> SUFFICES ASSUME IInv, Next, NEW t \in Threads,
                      dead_thread' # dead_thread,
                      dead_thread' = ThreadId(t)
               PROVE  /\ silence[t] >= DeadThreshold - 1
                      /\ ever_fed[t] => silence[t] >= DeadThreshold
    BY DEF vars
  <2>1. CASE Check
    BY <2>1, CheckBlamesSilent
  <2>2. CASE dead_thread' \in {0, dead_thread}
    BY <2>2 DEF ThreadId
  <2>3. Check \/ dead_thread' \in {0, dead_thread}
    <3>1. CASE Start \/ Crash \/ HwReset
      BY <3>1 DEF Start, Crash, HwReset, NoThreads, NewVariables
    <3>2. CASE Boot \/ StartFails \/ MonitorOpens \/ Tick
      BY <3>2 DEF Boot, StartFails, MonitorOpens, Tick, mon
    <3>3. CASE \/ Accept
               \/ \E u \in Threads :
                    Feed(u) \/ EndWait(u) \/ GetStuck(u) \/ GetUnstuck(u)
      BY <3>3 DEF Accept, Feed, EndWait, GetStuck, GetUnstuck, mon
    <3>4. CASE MonitorFeeds \/ MonitorGivesUp
      BY <3>4 DEF MonitorFeeds, MonitorGivesUp
    <3> QED BY <3>1, <3>2, <3>3, <3>4, Zenon DEF Next
  <2> QED BY <2>1, <2>2, <2>3
<1> QED BY <1>1, InitInv, NextKeepsInv, PTL DEF Spec, BlamedWasSilent

(* Quick restarts never reset the board: a reset follows a monitor that    *)
(* gave up outside test mode, or a crash after which the pauses and the    *)
(* starts took as long as the hardware waits.                              *)
THEOREM WatchdogResetNeedsCause == Spec => ResetNeedsCause
<1> DEFINE Cause ==
      HwReset => \/ gave_up /\ ~test_mode
                 \/ (failed_starts + 1) * RestartSec + start_time
                      >= HwTimeout - 1
<1>1. IInv => Cause
  <2> SUFFICES ASSUME IInv, hw_on, hw_left = 0, ~(gave_up /\ ~test_mode)
               PROVE  (failed_starts + 1) * RestartSec + start_time
                        >= HwTimeout - 1
    BY DEF HwReset
  <2>1. Elapsed = HwTimeout
    BY WatchdogAssumption DEF Elapsed
  <2>2. /\ failed_starts \in Nat /\ start_time \in Nat
        /\ down_for \in Nat /\ down_for <= RestartSec
    BY StartsFacts, WatchdogAssumption DEF IInv, TypeOK
  <2>3. ~gave_up /\ monitor # "no_device" /\ monitor # "gave_up"
    BY DEF IInv, Fed
  <2>4. monitor # "running"
    BY <2>1, WatchdogAssumption DEF IInv, Fed
  <2>5. monitor \in {"none", "starting"}
    BY <2>3, <2>4 DEF IInv, TypeOK
  <2>6. /\ failed_starts * RestartSec \in Nat
        /\ (failed_starts + 1) * RestartSec
             = failed_starts * RestartSec + RestartSec
    BY <2>2, OneMoreStart
  <2>7. CASE failed_starts < StartsBeforeReset
    <3>1. HwTimeout <= 1 + failed_starts * RestartSec + down_for + start_time
      BY <2>1, <2>3, <2>5, <2>7 DEF IInv, Fed
    <3> QED BY <2>2, <2>6, <3>1, WatchdogAssumption
  <2>8. CASE failed_starts = StartsBeforeReset
    BY <2>2, <2>8, StartsFacts, WatchdogAssumption
  <2> QED BY <2>7, <2>8, StartsFacts DEF IInv, TypeOK
<1> QED BY <1>1, InitInv, NextKeepsInv, PTL DEF Spec, ResetNeedsCause

=============================================================================
