-------------------------- MODULE CollectorProofs --------------------------
(***************************************************************************)
(* The safety properties of Collector, for every LastEvent, FailLimit,     *)
(* NoDataLimit and StreakCap that CollectorAssumption allows.              *)
(***************************************************************************)
EXTENDS Collector, WellFoundedInduction, TLAPS

-----------------------------------------------------------------------------
(* The rows of the transition table that the collector uses. *)

(* No event takes fsm.c's machine out of its five states. *)
LEMMA TransitionStates ==
  ASSUME NEW s \in States, NEW e \in Events
  PROVE  fsm_transition(s, e) \in States
<1>1. transition_table[s][e] \in States \cup {Illegal}
  BY DEF transition_table, States, Events, Illegal
<1> QED BY <1>1 DEF fsm_transition

(* INIT_OK starts the machine. *)
LEMMA InitOkRuns == fsm_transition("INIT", "INIT_OK") = "RUNNING"
<1>1. transition_table["INIT"]["INIT_OK"] = "RUNNING"
  BY DEF transition_table, States, Events, Illegal
<1> QED BY <1>1 DEF fsm_transition, Illegal

(* MPU_FAIL degrades a running machine and no other state the loop is in. *)
LEMMA MpuFailDegrades ==
  /\ fsm_transition("RUNNING", "MPU_FAIL") = "DEGRADED"
  /\ fsm_transition("DEGRADED", "MPU_FAIL") = "DEGRADED"
  /\ fsm_transition("RECOVERING", "MPU_FAIL") = "RECOVERING"
<1>1. /\ transition_table["RUNNING"]["MPU_FAIL"] = "DEGRADED"
      /\ transition_table["DEGRADED"]["MPU_FAIL"] = Illegal
      /\ transition_table["RECOVERING"]["MPU_FAIL"] = Illegal
  BY DEF transition_table, States, Events, Illegal
<1> QED BY <1>1 DEF fsm_transition, Illegal

(* MPU_RESTORED brings a degraded machine back. *)
LEMMA MpuRestoredRuns ==
  fsm_transition("DEGRADED", "MPU_RESTORED") = "RUNNING"
<1>1. transition_table["DEGRADED"]["MPU_RESTORED"] = "RUNNING"
  BY DEF transition_table, States, Events, Illegal
<1> QED BY <1>1 DEF fsm_transition, Illegal

(* I2C_DEADLOCK leads to RECOVERING, or is rejected there. *)
LEMMA DeadlockRecovers ==
  /\ fsm_transition("DEGRADED", "I2C_DEADLOCK") = "RECOVERING"
  /\ fsm_transition("RECOVERING", "I2C_DEADLOCK") = "RECOVERING"
<1>1. /\ transition_table["DEGRADED"]["I2C_DEADLOCK"] = "RECOVERING"
      /\ transition_table["RECOVERING"]["I2C_DEADLOCK"] = Illegal
  BY DEF transition_table, States, Events, Illegal
<1> QED BY <1>1 DEF fsm_transition, Illegal

(* A saturating counter stays in range, and reaches a limit below its cap  *)
(* exactly when the counter it stands for does.                            *)
LEMMA BumpFacts ==
  ASSUME NEW n \in 0 .. StreakCap
  PROVE  /\ Bump(n) \in 0 .. StreakCap
         /\ n >= FailLimit => Bump(n) >= FailLimit
BY CollectorAssumption DEF Bump

(* The probe yields a handle, and one that holds a descriptor or none. *)
LEMMA ProbedFacts ==
  /\ Probed \in Handles \ {"gone"}
  /\ \A h : Opened(h) \in {0, 1} /\ (Opened(h) = 0 <=> h = "none")
BY DEF Probed, Handles, Opened

-----------------------------------------------------------------------------
(* Outside the loop nothing has failed yet, and the handle is there when   *)
(* the thread reads it.                                                    *)
BeforeLoop ==
  /\ pc = "main" => fsm = "INIT"
  /\ pc \in {"setup", "warmup", "open_sht", "exited"} => fsm = "RUNNING"
  /\ pc \in {"main", "setup", "warmup", "open_sht", "exited"} =>
       mpu_fail_streak = 0
  /\ pc \in {"main", "setup", "warmup"} => mpu_handle = "none"
  /\ pc = "read" => mpu_handle # "none"

IInv == TypeOK /\ FsmMatchesStreak /\ HandleOwnsOneFd /\ BeforeLoop

(* The invariant holds when the process starts. *)
LEMMA InitInv == Init => IInv
<1> SUFFICES ASSUME Init PROVE IInv
  OBVIOUS
<1>1. TypeOK
  <2>1. 0 < NoDataLimit /\ 0 \in 0 .. StreakCap
    BY CollectorAssumption
  <2> QED BY <2>1 DEF Init, TypeOK, PCs, States, Handles, ShtHandles
<1>2. FsmMatchesStreak
  BY DEF Init, FsmMatchesStreak, Looping
<1>3. HandleOwnsOneFd
  BY DEF Init, HandleOwnsOneFd, Opened
<1>4. BeforeLoop
  BY DEF Init, BeforeLoop
<1> QED BY <1>1, <1>2, <1>3, <1>4 DEF IInv

(* The three places that count an MPU failure keep count and state         *)
(* together: this is the heart of the invariant.                           *)
LEMMA FailureKeepsMatch ==
  ASSUME mpu_fail_streak \in 0 .. StreakCap,
         fsm \in {"RUNNING", "DEGRADED", "RECOVERING"},
         fsm = "DEGRADED" => mpu_fail_streak >= FailLimit,
         CountMpuFailure
  PROVE  /\ mpu_fail_streak' \in 0 .. StreakCap
         /\ fsm' \in {"RUNNING", "DEGRADED", "RECOVERING"}
         /\ fsm' = "DEGRADED" => mpu_fail_streak' >= FailLimit
         /\ mpu_fail_streak' >= FailLimit => fsm' \in {"DEGRADED", "RECOVERING"}
<1>1. mpu_fail_streak' = Bump(mpu_fail_streak)
  BY DEF CountMpuFailure
<1>2. /\ mpu_fail_streak' \in 0 .. StreakCap
      /\ mpu_fail_streak >= FailLimit => mpu_fail_streak' >= FailLimit
  BY <1>1, BumpFacts
<1>3. CASE mpu_fail_streak' >= FailLimit
  <2>1. fsm' = fsm_transition(fsm, "MPU_FAIL")
    BY <1>3 DEF CountMpuFailure
  <2> QED BY <1>2, <1>3, <2>1, MpuFailDegrades
<1>4. CASE ~(mpu_fail_streak' >= FailLimit)
  <2>1. fsm' = fsm
    BY <1>4 DEF CountMpuFailure
  <2> QED BY <1>2, <1>4, <2>1
<1> QED BY <1>3, <1>4

(* Every step of the start-up keeps the invariant. *)
LEMMA StartKeepsInv == IInv /\ Start => IInv'
<1> SUFFICES ASSUME IInv, Start PROVE IInv'
  OBVIOUS
<1> USE CollectorAssumption
    DEF IInv, TypeOK, FsmMatchesStreak, HandleOwnsOneFd, BeforeLoop,
        PCs, States, Handles, ShtHandles, Looping, Opened
<1>1. CASE InitOk
  BY <1>1, InitOkRuns DEF InitOk, handles, streaks, env
<1>2. CASE SetUpThread
  BY <1>2 DEF SetUpThread, handles, streaks, env
<1>3. CASE WarmUpOk
  BY <1>3 DEF WarmUpOk, streaks, env
<1>4. CASE WarmUpNextNode
  BY <1>4 DEF WarmUpNextNode, handles, streaks, env
<1>5. CASE WarmUpNotFound
  BY <1>5 DEF WarmUpNotFound, handles, streaks, env
<1>6. CASE OpenSht
  BY <1>6 DEF OpenSht, handles, streaks, env
<1> QED BY <1>1, <1>2, <1>3, <1>4, <1>5, <1>6 DEF Start

(* So does every step of the loop. *)
LEMMA LoopKeepsInv == IInv /\ Loop => IInv'
<1> SUFFICES ASSUME IInv, Loop PROVE IInv'
  OBVIOUS
<1> USE CollectorAssumption
    DEF IInv, TypeOK, FsmMatchesStreak, HandleOwnsOneFd, BeforeLoop,
        PCs, States, Handles, ShtHandles, Looping
<1>1. CASE TopWithHandle
  BY <1>1 DEF TopWithHandle, handles, streaks, env
<1>2. CASE TopReopened
  <2>1. mpu_handle' \in Handles /\ mpu_handle' # "none" /\ open_fds' = 1
    BY <1>2, ProbedFacts DEF TopReopened, Opened
  <2> QED BY <1>2, <2>1 DEF TopReopened, streaks, env, Opened
<1>3. CASE TopNoDevice
  BY <1>3, FailureKeepsMatch DEF TopNoDevice, handles, env
<1>4. CASE ReadFails
  <2>1. mpu_handle' \in Handles /\ open_fds' = Opened(mpu_handle')
        /\ open_fds' \in Nat
    BY <1>4, ProbedFacts DEF ReadFails, CloseAndReprobe, Opened
  <2> QED BY <1>4, <2>1, FailureKeepsMatch DEF ReadFails, env
<1>5. CASE ReadData
  <2>1. fsm' \in {"RUNNING", "RECOVERING"}
    BY <1>5, MpuRestoredRuns DEF ReadData
  <2> QED BY <1>5, <2>1 DEF ReadData, handles, env
<1>6. CASE ReadNothing
  BY <1>6 DEF ReadNothing, handles, env
<1>7. CASE ReadNothingTooOften
  <2>1. mpu_handle' \in Handles /\ open_fds' = Opened(mpu_handle')
        /\ open_fds' \in Nat
    BY <1>7, ProbedFacts
       DEF ReadNothingTooOften, NoEvents, CloseAndReprobe, Opened
  <2> QED BY <1>7, <2>1, FailureKeepsMatch DEF ReadNothingTooOften, env
<1>8. CASE ShtNotOpen
  BY <1>8 DEF ShtNotOpen, handles, streaks, env
<1>9. CASE ShtFails
  <2>1. sht_fail_streak' \in 0 .. StreakCap
    BY <1>9, BumpFacts DEF ShtFails
  <2>2. \/ fsm' = fsm
        \/ mpu_fail_streak >= FailLimit /\ fsm' = "RECOVERING"
    BY <1>9, DeadlockRecovers DEF ShtFails
  <2> QED BY <1>9, <2>1, <2>2 DEF ShtFails, handles, env
<1>10. CASE ShtReads
  BY <1>10 DEF ShtReads, handles, env
<1>11. CASE Publish
  BY <1>11 DEF Publish, handles, streaks, env
<1> QED BY <1>1, <1>2, <1>3, <1>4, <1>5, <1>6, <1>7, <1>8, <1>9, <1>10,
           <1>11 DEF Loop

(* And so does whatever happens to the sensors. *)
LEMMA HardwareKeepsInv == IInv /\ Hardware => IInv'
<1> SUFFICES ASSUME IInv, Hardware PROVE IInv'
  OBVIOUS
<1> USE DEF IInv, TypeOK, FsmMatchesStreak, HandleOwnsOneFd, BeforeLoop,
            Looping, Handles, ShtHandles, Opened, streaks, handles
<1>1. CASE RemoveMpu
  BY <1>1 DEF RemoveMpu
<1>2. CASE InsertMpu
  BY <1>2 DEF InsertMpu
<1>3. CASE SilenceMpu
  BY <1>3 DEF SilenceMpu
<1>4. CASE WakeMpu
  BY <1>4 DEF WakeMpu
<1>5. CASE RemoveSht
  BY <1>5 DEF RemoveSht
<1>6. CASE InsertSht
  BY <1>6 DEF InsertSht
<1>7. CASE MeasureSht
  BY <1>7 DEF MeasureSht
<1> QED BY <1>1, <1>2, <1>3, <1>4, <1>5, <1>6, <1>7 DEF Hardware

(* The invariant is inductive. *)
LEMMA NextKeepsInv == IInv /\ [Next]_vars => IInv'
<1> SUFFICES ASSUME IInv, [Next]_vars PROVE IInv'
  OBVIOUS
<1>1. CASE Thread
  BY <1>1, StartKeepsInv, LoopKeepsInv DEF Thread
<1>2. CASE Hardware
  BY <1>2, HardwareKeepsInv
<1>3. CASE UNCHANGED vars
  BY <1>3 DEF vars, streaks, handles, env, IInv, TypeOK, FsmMatchesStreak,
              HandleOwnsOneFd, BeforeLoop, Looping
<1> QED BY <1>1, <1>2, <1>3 DEF Next

-----------------------------------------------------------------------------
(* The collector keeps its variables in their types. *)
THEOREM CollectorTypeOK == Spec => []TypeOK
<1>1. IInv => TypeOK
  BY DEF IInv
<1> QED BY <1>1, InitInv, NextKeepsInv, PTL DEF Spec

(* Failure counts and reported state never contradict each other. *)
THEOREM CollectorFsmMatchesStreak == Spec => []FsmMatchesStreak
<1>1. IInv => FsmMatchesStreak
  BY DEF IInv
<1> QED BY <1>1, InitInv, NextKeepsInv, PTL DEF Spec

(* No removal, failed probe or reopen leaks a descriptor. *)
THEOREM CollectorHandleOwnsOneFd == Spec => []HandleOwnsOneFd
<1>1. IInv => HandleOwnsOneFd
  BY DEF IInv
<1> QED BY <1>1, InitInv, NextKeepsInv, PTL DEF Spec

(* RECOVERING is entered from DEGRADED only, with both sensors offline. *)
THEOREM CollectorDeadlockNeedsBoth == Spec => DeadlockNeedsBoth
<1> DEFINE Entering == fsm' = "RECOVERING" /\ fsm # "RECOVERING"
           Justified == /\ fsm = "DEGRADED"
                        /\ mpu_fail_streak >= FailLimit
                        /\ sht_fail_streak' >= FailLimit
<1>1. IInv /\ [Next]_vars => [Entering => Justified]_vars
  <2> SUFFICES ASSUME IInv, Next, Entering PROVE Justified
    OBVIOUS
  <2>1. fsm \in States /\ fsm # "RECOVERING"
    BY DEF IInv, TypeOK
  <2>2. CASE ShtFails
    <3>1. mpu_fail_streak >= FailLimit /\ sht_fail_streak' >= FailLimit
      BY <2>2 DEF ShtFails
    <3>2. fsm = "DEGRADED"
      BY <2>1, <2>2, <3>1 DEF ShtFails, IInv, FsmMatchesStreak, Looping
    <3> QED BY <3>1, <3>2
  <2>3. CASE CountMpuFailure /\ Looping
    <3>1. fsm \in {"RUNNING", "DEGRADED"}
      BY <2>1, <2>3 DEF IInv, FsmMatchesStreak
    <3>2. fsm' \in {"RUNNING", "DEGRADED"}
      BY <2>3, <3>1, MpuFailDegrades DEF CountMpuFailure
    <3> QED BY <3>2
  <2>4. CASE ReadData
    <3>1. fsm' = "RUNNING" \/ fsm' = fsm
      BY <2>4, MpuRestoredRuns DEF ReadData
    <3> QED BY <3>1
  <2>5. CASE InitOk
    <3>1. fsm' = "RUNNING"
      BY <2>5, InitOkRuns DEF InitOk, IInv, BeforeLoop
    <3> QED BY <3>1
  <2>6. CASE fsm' = fsm
    BY <2>6
  <2>7. \/ ShtFails \/ ReadData \/ InitOk \/ fsm' = fsm
        \/ CountMpuFailure /\ Looping
    BY DEF Next, Thread, Start, Loop, Hardware, Looping,
           SetUpThread, WarmUpOk, WarmUpNextNode, WarmUpNotFound, OpenSht,
           TopWithHandle, TopReopened, TopNoDevice, ReadFails, ReadNothing,
           ReadNothingTooOften, ShtNotOpen, ShtReads, Publish,
           RemoveMpu, InsertMpu, SilenceMpu, WakeMpu, RemoveSht, InsertSht, MeasureSht
  <2> QED BY <2>2, <2>3, <2>4, <2>5, <2>6, <2>7
<1> QED BY <1>1, InitInv, NextKeepsInv, PTL DEF Spec, DeadlockNeedsBoth

-----------------------------------------------------------------------------
(* A collector whose MPU works all along. *)

(* The input core always has a number to give: MpuNode is the lowest one   *)
(* that no other device has.                                               *)
LEMMA MpuNodeFacts ==
  ASSUME others \subseteq 0 .. LastEvent
  PROVE  /\ MpuNode \in 0 .. LastEvent + 1
         /\ MpuNode \notin others /\ \A k \in 0 .. MpuNode - 1 : k \in others
<1> DEFINE less == OpToRel(<, Nat)
           free == {n \in 0 .. LastEvent + 1 : n \notin others}
<1>1. free \subseteq Nat /\ LastEvent + 1 \in free
  BY CollectorAssumption
<1>2. \A m, n \in Nat : m < n => <<m, n>> \in less
  BY DEF OpToRel
<1>3. IsWellFoundedOn(less, Nat)
  BY NatLessThanWellFounded
<1> HIDE DEF less
<1>4. PICK n \in free : \A k \in free : <<k, n>> \notin less
  <2> HIDE DEF free
  <2>1. free # {}
    BY <1>1
  <2> QED BY <1>1, <1>3, <2>1, WFMin, Zenon
<1>5. \A k \in 0 .. n - 1 : k \in others
  <2> SUFFICES ASSUME NEW k \in 0 .. n - 1, k \notin others
               PROVE  FALSE
    OBVIOUS
  <2>1. n \in 0 .. LastEvent + 1 /\ n \in Nat
    BY <1>1, <1>4
  <2>2. k \in Nat /\ k < n /\ k \in 0 .. LastEvent + 1
    BY <2>1, CollectorAssumption
  <2>3. k \in free
    BY <2>2
  <2> HIDE DEF free
  <2> QED BY <1>2, <1>4, <2>1, <2>2, <2>3
<1>6. \E m \in 0 .. LastEvent + 1 :
        m \notin others /\ \A k \in 0 .. m - 1 : k \in others
  BY <1>4, <1>5
<1> QED BY <1>6, Zenon DEF MpuNode

(* The probe has not passed the MPU, and once it has found it the handle   *)
(* stays; so no failure is ever counted.                                   *)
Healthy ==
  /\ MpuNode <= LastEvent
  /\ pc \in {"main", "setup", "warmup"} => probe_i <= MpuNode
  /\ pc \in {"open_sht", "top", "read", "sht", "publish"} => mpu_handle = "mpu"
  /\ mpu_fail_streak = 0
  /\ fsm \in {"INIT", "RUNNING"}

LEMMA HealthyStays ==
  ASSUME IInv, Healthy, mpu = "ok", mpu' = "ok", [Next]_vars
  PROVE  Healthy'
<1>1. /\ MpuNode \in Nat /\ probe_i \in Nat /\ LastEvent \in Nat
      /\ FailLimit \in Nat /\ FailLimit > 0
  BY MpuNodeFacts, CollectorAssumption DEF IInv, TypeOK
<1>2. others' = others
  BY DEF Next, Thread, Start, Loop, Hardware, vars, env, InitOk,
         SetUpThread, WarmUpOk, WarmUpNextNode, WarmUpNotFound, OpenSht,
         TopWithHandle, TopReopened, TopNoDevice, ReadFails, ReadData,
         ReadNothing, ReadNothingTooOften, ShtNotOpen, ShtFails, ShtReads,
         Publish, RemoveMpu, InsertMpu, SilenceMpu, WakeMpu, RemoveSht,
         InsertSht, MeasureSht
<1>3. MpuNode' = MpuNode
  BY <1>2, Zenon DEF MpuNode
<1>4. MpuNode \in Nat /\ MpuNode' = MpuNode /\ MpuNode <= LastEvent
  BY <1>1, <1>3 DEF Healthy
<1> USE DEF Healthy
<1> HIDE DEF MpuNode
<1>5. CASE InitOk
  BY <1>4, <1>5, InitOkRuns DEF InitOk, handles, streaks, IInv, BeforeLoop
<1>6. CASE SetUpThread
  BY <1>4, <1>6 DEF SetUpThread, handles, streaks
<1>7. CASE WarmUpOk
  BY <1>4, <1>7 DEF WarmUpOk, streaks
<1>8. CASE WarmUpNextNode
  <2>1. probe_i <= MpuNode /\ probe_i # MpuNode
    BY <1>8 DEF WarmUpNextNode
  <2>2. probe_i' <= MpuNode
    BY <1>1, <1>8, <2>1 DEF WarmUpNextNode
  <2> QED BY <1>4, <1>8, <2>2 DEF WarmUpNextNode, handles, streaks
<1>9. CASE WarmUpNotFound
  BY <1>1, <1>4, <1>9 DEF WarmUpNotFound
<1>10. CASE OpenSht
  BY <1>4, <1>10 DEF OpenSht, handles, streaks
<1>11. CASE TopWithHandle
  BY <1>4, <1>11 DEF TopWithHandle, handles, streaks
<1>12. CASE TopReopened \/ TopNoDevice \/ ReadFails \/ ReadNothing
            \/ ReadNothingTooOften
  BY <1>12 DEF TopReopened, TopNoDevice, ReadFails, ReadNothing,
               ReadNothingTooOften, NoEvents
<1>13. CASE ReadData
  BY <1>4, <1>13 DEF ReadData, handles
<1>14. CASE ShtNotOpen
  BY <1>4, <1>14 DEF ShtNotOpen, handles, streaks
<1>15. CASE ShtFails
  <2>1. ~(mpu_fail_streak >= FailLimit)
    BY <1>1
  <2>2. fsm' = fsm
    BY <1>15, <2>1 DEF ShtFails
  <2> QED BY <1>4, <1>15, <2>2 DEF ShtFails, handles
<1>16. CASE ShtReads
  BY <1>4, <1>16 DEF ShtReads, handles
<1>17. CASE Publish
  BY <1>4, <1>17 DEF Publish, handles, streaks
<1>18. CASE Hardware
  BY <1>4, <1>18 DEF Hardware, RemoveMpu, InsertMpu, SilenceMpu, WakeMpu,
                     RemoveSht, InsertSht, MeasureSht, handles, streaks
<1>19. CASE UNCHANGED vars
  BY <1>4, <1>19 DEF vars, handles, streaks
<1> QED BY <1>5, <1>6, <1>7, <1>8, <1>9, <1>10, <1>11, <1>12, <1>13, <1>14,
           <1>15, <1>16, <1>17, <1>18, <1>19
        DEF Next, Thread, Start, Loop

(* While the MPU works, neither a decoy among the event devices nor an     *)
(* SHT30 that fails takes the machine out of RUNNING.                      *)
THEOREM CollectorHealthyNeverDegrades == Spec => HealthyNeverDegrades
<1> DEFINE Ok      == mpu = "ok"
           Within  == MpuNode <= LastEvent
           Running == fsm \in {"INIT", "RUNNING"}
<1>1. Init /\ Within => Healthy
  <2> SUFFICES ASSUME Init, Within
               PROVE  Healthy
    OBVIOUS
  <2>1. probe_i <= MpuNode
    BY MpuNodeFacts DEF Init
  <2> QED BY <2>1 DEF Init, Healthy
<1>2. IInv /\ Healthy /\ Ok /\ Ok' /\ [Next]_vars => Healthy'
  BY HealthyStays
<1>3. Healthy => Running
  BY DEF Healthy
<1> QED BY <1>1, <1>2, <1>3, InitInv, NextKeepsInv, PTL
        DEF Spec, HealthyNeverDegrades
=============================================================================
