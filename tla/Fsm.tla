-------------------------------- MODULE Fsm --------------------------------
(***************************************************************************)
(* The five-state machine of app/core/fsm.c: the transition table and the  *)
(* effect of fsm_transition on g_fsm.current.  The mutex makes the call    *)
(* atomic, so here it is an operator from the old state to the new one;    *)
(* the modules that raise events apply it to their own state variable.     *)
(***************************************************************************)

States == {"INIT", "RUNNING", "DEGRADED", "RECOVERING", "FAULT"}

Events == {"INIT_OK", "MPU_FAIL", "I2C_DEADLOCK", "BUS_RECOVERED",
           "BUS_RECOVER_FAIL", "MPU_RESTORED", "ALL_OFFLINE",
           "WATCHDOG_RESET"}

(* The -1 entries of the table. *)
Illegal == "illegal"

transition_table ==
  [s \in States |-> [e \in Events |->
     CASE s = "INIT"       /\ e = "INIT_OK"          -> "RUNNING"
       [] s = "RUNNING"    /\ e = "MPU_FAIL"         -> "DEGRADED"
       [] s \in {"RUNNING", "DEGRADED"}
                           /\ e = "I2C_DEADLOCK"     -> "RECOVERING"
       [] s = "DEGRADED"   /\ e = "MPU_RESTORED"     -> "RUNNING"
       [] s = "RECOVERING" /\ e = "BUS_RECOVERED"    -> "RUNNING"
       [] s = "RECOVERING" /\ e = "BUS_RECOVER_FAIL" -> "FAULT"
       [] s # "FAULT"      /\ e = "ALL_OFFLINE"      -> "FAULT"
       [] s = "FAULT"      /\ e = "WATCHDOG_RESET"   -> "INIT"
       [] OTHER                                      -> Illegal]]

(* The state after event e arrives in state s: a rejected event changes    *)
(* nothing.                                                                *)
fsm_transition(s, e) ==
  IF transition_table[s][e] = Illegal THEN s ELSE transition_table[s][e]

=============================================================================
