----------------------------- MODULE SampleLog -----------------------------
(***************************************************************************)
(* What a reader of the database file may rely on: a log of samples in the *)
(* order in which they were taken, each at most once.  It grows at its     *)
(* end, with gaps where samples were lost; a power failure may cut off     *)
(* what had not reached the disk; and the whole of it may be replaced by   *)
(* the backup, once.  Of a file or a backup that has been damaged nothing  *)
(* is promised; only an undamaged backup brings a log back.                *)
(***************************************************************************)
EXTENDS Naturals, Sequences, SequencesExt

CONSTANTS
  NoLog,     (* there is no backup                                         *)
  Garbled    (* what a damaged file holds                                  *)

VARIABLES
  stored,    (* the samples in the file, by the number they were taken in, *)
             (* or Garbled                                                 *)
  durable,   (* how many of them a power failure cannot take away          *)
  backup     (* the samples in the backup, or Garbled, or NoLog            *)

logvars == <<stored, durable, backup>>

InOrder(log) == \A i, j \in DOMAIN log : i < j => log[i] < log[j]

Spoiled(b) == IF b = NoLog THEN {NoLog} ELSE {b, Garbled}

Init ==
  /\ stored = << >>
  /\ durable = 0
  /\ backup = NoLog

(* New samples come after all that are stored. *)
Grow ==
  /\ stored # Garbled /\ stored' # Garbled
  /\ IsPrefix(stored, stored') /\ InOrder(stored')
  /\ UNCHANGED <<durable, backup>>

Sync ==
  /\ stored # Garbled
  /\ durable' = Len(stored)
  /\ UNCHANGED <<stored, backup>>

CutShort ==
  /\ stored # Garbled /\ stored' # Garbled
  /\ IsPrefix(stored', stored) /\ Len(stored') >= durable
  /\ backup' \in Spoiled(backup)
  /\ UNCHANGED durable

Spoil ==
  /\ stored' = Garbled /\ durable' = 0
  /\ backup' \in Spoiled(backup)

(* A backup holds what is stored, and perhaps samples whose transaction    *)
(* was still open.                                                         *)
BackUp ==
  /\ stored # Garbled
  /\ backup' \notin {NoLog, Garbled}
  /\ IsPrefix(stored, backup') /\ InOrder(backup')
  /\ UNCHANGED <<stored, durable>>

SpoilBackup ==
  /\ backup' = Garbled
  /\ UNCHANGED <<stored, durable>>

Restore ==
  /\ backup \notin {NoLog, Garbled}
  /\ stored' = backup
  /\ durable' = Len(backup)
  /\ backup' = NoLog

RestoreGarbled ==
  /\ backup # NoLog
  /\ stored' = Garbled /\ durable' = 0
  /\ backup' = NoLog

Next ==
  \/ Grow \/ Sync \/ CutShort \/ Spoil
  \/ BackUp \/ SpoilBackup \/ Restore \/ RestoreGarbled

Spec == Init /\ [][Next]_logvars

=============================================================================
