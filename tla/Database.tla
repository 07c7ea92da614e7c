----------------------------- MODULE Database ------------------------------
(***************************************************************************)
(* app/core/db_manager.c: samples are collected in a batch in memory and   *)
(* written to an SQLite file in one transaction.  One thread calls it, the *)
(* collector, which takes some samples in every round and then sleeps for  *)
(* 100 ms, longer than BATCH_TIMEOUT_MS.                                   *)
(*                                                                         *)
(* A sample is its number.  Of SQLite the model has what its manual        *)
(* promises: the outcomes of BEGIN, INSERT and COMMIT, whose results       *)
(* db_manager.c never looks at; a write-ahead log with synchronous=NORMAL, *)
(* in which a transaction is safe from a power failure only once it has    *)
(* been checkpointed.  A file that is damaged may hold anything at all:    *)
(* what the model keeps of its rows then means nothing, and no property    *)
(* speaks of it.                                                           *)
(***************************************************************************)
EXTENDS Naturals, Sequences, SequencesExt

CONSTANTS
  BATCH_SIZE,  (* rows of batch_buffer: 10                                 *)
  RoundRows,   (* how many samples a round may deliver: 0, 2, 1..6, 3..8   *)
  MaxRows,     (* bound: samples taken                                     *)
  NoLog,       (* there is no backup                                       *)
  Garbled      (* what a damaged file holds                                *)

ASSUME DatabaseAssumption ==
  /\ BATCH_SIZE \in Nat \ {0}
  /\ RoundRows \subseteq Nat
  /\ MaxRows \in Nat
  /\ NoLog \notin Seq(Nat) /\ Garbled \notin Seq(Nat) /\ NoLog # Garbled

VARIABLES
  extras,      (* whether some caller uses db_backup and db_insert_alarm,  *)
               (* which db_manager.h offers and main.c does not call       *)
  process,     (* "down", "opened" by db_init, or "running"                *)
  at,          (* where the collector is in db_manager.c                   *)
  resume,      (* where db_flush_batch returns to                          *)
  batch,       (* batch_buffer, up to batch_count                          *)
  late,        (* BATCH_TIMEOUT_MS have passed since last_flush_time       *)
  row,         (* the loop variable of the flush                           *)
  round_left,  (* samples of this round that are still to be inserted      *)
  next_row,    (* the number of the next sample                            *)
  in_txn, txn, (* the connection's open transaction                        *)
  stored,      (* the rows of the file that are committed                  *)
  durable,     (* how many of them a power failure cannot take away        *)
  damage,      (* "none", "hidden": integrity_check does not see it,       *)
               (* "pages": it does, "schema": even CREATE TABLE fails      *)
  backup, backup_damage,
  trouble,     (* ghost: a call of SQLite failed since the process started *)
  start_row,   (* ghost: the first sample of this process                  *)
  round_first  (* ghost: the first sample of the latest round with any     *)

code   == <<process, at, resume, batch, late, row>>
conn   == <<in_txn, txn>>
file   == <<stored, durable, damage>>
saved  == <<backup, backup_damage>>
rounds == <<round_left, next_row, start_row, round_first>>
vars   == <<extras, code, conn, file, saved, rounds, trouble>>

Damages == {"none", "hidden", "pages", "schema"}

(* What may become of a file with damage d when more damage is done. *)
Worse(d) == {d} \cup (Damages \ {"none"})

-----------------------------------------------------------------------------
Init ==
  /\ extras \in BOOLEAN
  /\ process = "down" /\ at = "idle" /\ resume = "idle"
  /\ batch = << >> /\ late = FALSE /\ row = 1
  /\ round_left = 0 /\ next_row = 1 /\ start_row = 1 /\ round_first = 1
  /\ in_txn = FALSE /\ txn = << >>
  /\ stored = << >> /\ durable = 0 /\ damage = "none"
  /\ backup = NoLog /\ backup_damage = "none"
  /\ trouble = FALSE

-----------------------------------------------------------------------------
(* main() opens and checks the database; systemd restarts it for ever.     *)

(* db_init.  When even its CREATE TABLE fails main() exits, before it has  *)
(* come to the check and the backup.                                       *)
Open ==
  /\ process = "down" /\ damage # "schema"
  /\ process' = "opened"
  /\ at' = "idle" /\ resume' = "idle"
  /\ batch' = << >> /\ late' = FALSE /\ row' = 1
  /\ start_row' = next_row /\ round_first' = next_row /\ round_left' = 0
  /\ trouble' = FALSE
  /\ UNCHANGED <<extras, conn, file, saved, next_row>>

(* db_check_and_repair: the integrity check finds nothing. *)
CheckPasses ==
  /\ process = "opened" /\ damage \in {"none", "hidden"}
  /\ process' = "running"
  /\ UNCHANGED <<extras, at, resume, batch, late, row, conn, file, saved,
                 rounds, trouble>>

(* The check finds damage, or cannot be carried out.  The backup is moved  *)
(* over the file, and is used without a check of its own.  If closing the  *)
(* old file could not empty its write-ahead log, that log is found next to *)
(* the restored file and applied to it: its pages overwrite others.        *)
RestoreBackup ==
  /\ process = "opened" /\ backup # NoLog
  /\ process' = "running"
  /\ stored' = backup /\ durable' = Len(backup)
  /\ damage' \in Worse(backup_damage)
  /\ backup' = NoLog /\ backup_damage' = "none"
  /\ UNCHANGED <<extras, at, resume, batch, late, row, conn, rounds, trouble>>

(* The same without a backup, or it cannot be moved: main() exits. *)
RepairFails ==
  /\ process = "opened"
  /\ process' = "down"
  /\ UNCHANGED <<extras, at, resume, batch, late, row, conn, file, saved,
                 rounds, trouble>>

-----------------------------------------------------------------------------
(* db_insert_sensor, once per sample. *)

(* Variant: a sleep shorter than BATCH_TIMEOUT_MS. *)
RoundStartsSoon ==
  /\ process = "running" /\ at = "idle" /\ round_left = 0
  /\ \E n \in RoundRows :
       /\ next_row + n <= MaxRows + 1
       /\ round_left' = n
       /\ round_first' = IF n > 0 THEN next_row ELSE round_first
  /\ UNCHANGED <<extras, process, at, resume, batch, late, row, conn, file,
                 saved, next_row, start_row, trouble>>

(* The collector has slept and starts its next round: last_flush_time is   *)
(* more than BATCH_TIMEOUT_MS ago.                                         *)
RoundStarts ==
  /\ process = "running" /\ at = "idle" /\ round_left = 0
  /\ late' = TRUE
  /\ \E n \in RoundRows :
       /\ next_row + n <= MaxRows + 1
       /\ round_left' = n
       /\ round_first' = IF n > 0 THEN next_row ELSE round_first
  /\ UNCHANGED <<extras, process, at, resume, batch, row, conn, file, saved,
                 next_row, start_row, trouble>>

(* Within a round, too, time passes. *)
TimePasses ==
  /\ process = "running" /\ ~late
  /\ late' = TRUE
  /\ UNCHANGED <<extras, process, at, resume, batch, row, conn, file, saved,
                 rounds, trouble>>

BatchFull ==
  /\ process = "running" /\ at = "idle" /\ round_left > 0
  /\ Len(batch) >= BATCH_SIZE
  /\ at' = "begin" /\ resume' = "append"
  /\ UNCHANGED <<extras, process, batch, late, row, conn, file, saved,
                 rounds, trouble>>

(* Variant: does not look whether the batch is full. *)
AppendRowUnchecked ==
  /\ process = "running"
  /\ at = "append" \/ (at = "idle" /\ round_left > 0)
  /\ batch' = Append(batch, next_row)
  /\ next_row' = next_row + 1 /\ round_left' = round_left - 1
  /\ at' = IF late THEN "begin" ELSE "idle"
  /\ resume' = "idle"
  /\ UNCHANGED <<extras, process, late, row, conn, file, saved, start_row,
                 round_first, trouble>>

AppendRow ==
  /\ process = "running"
  /\ at = "append" \/ (at = "idle" /\ round_left > 0 /\ Len(batch) < BATCH_SIZE)
  /\ batch' = Append(batch, next_row)
  /\ next_row' = next_row + 1 /\ round_left' = round_left - 1
  /\ at' = IF late THEN "begin" ELSE "idle"
  /\ resume' = "idle"
  /\ UNCHANGED <<extras, process, late, row, conn, file, saved, start_row,
                 round_first, trouble>>

-----------------------------------------------------------------------------
(* db_flush_batch *)

FlushStep(from) == process = "running" /\ at = from

(* BEGIN.  Inside a transaction that an earlier COMMIT has left open it is *)
(* an error, and the rows join that transaction.                           *)
Begin ==
  /\ FlushStep("begin")
  /\ at' = "rows" /\ row' = 1
  /\ in_txn' = TRUE
  /\ trouble' = (trouble \/ in_txn)
  /\ UNCHANGED <<extras, process, resume, batch, late, txn, file, saved,
                 rounds>>

BeginFails ==
  /\ FlushStep("begin")
  /\ at' = "rows" /\ row' = 1
  /\ trouble' = TRUE
  /\ UNCHANGED <<extras, process, resume, batch, late, conn, file, saved,
                 rounds>>

(* Variant: the loop ends one row early. *)
StoreRowButLast ==
  /\ FlushStep("rows") /\ row <= Len(batch)
  /\ row' = row + 1
  /\ IF row = Len(batch) THEN UNCHANGED <<txn, stored>>
     ELSE IF in_txn THEN txn' = Append(txn, batch[row]) /\ UNCHANGED stored
     ELSE stored' = Append(stored, batch[row]) /\ UNCHANGED txn
  /\ UNCHANGED <<extras, process, at, resume, batch, late, in_txn, durable,
                 damage, saved, rounds, trouble>>

(* One INSERT.  Outside a transaction it commits by itself. *)
StoreRow ==
  /\ FlushStep("rows") /\ row <= Len(batch)
  /\ row' = row + 1
  /\ IF in_txn THEN txn' = Append(txn, batch[row]) /\ UNCHANGED stored
     ELSE stored' = Append(stored, batch[row]) /\ UNCHANGED txn
  /\ UNCHANGED <<extras, process, at, resume, batch, late, in_txn, durable,
                 damage, saved, rounds, trouble>>

(* An INSERT that fails (locked, or never prepared) is skipped; a full     *)
(* disk or an I/O error also rolls the transaction back, and the rows      *)
(* after it are inserted outside of any.                                   *)
StoreRowFails ==
  /\ FlushStep("rows") /\ row <= Len(batch)
  /\ row' = row + 1
  /\ trouble' = TRUE
  /\ \/ UNCHANGED conn
     \/ in_txn /\ in_txn' = FALSE /\ txn' = << >>
  /\ UNCHANGED <<extras, process, at, resume, batch, late, file, saved,
                 rounds>>

(* Variant: keeps the rows for another try, which stores them twice. *)
FlushReturnsKeeping ==
  /\ FlushStep("rows") /\ row > Len(batch)
  /\ at' = resume
  /\ late' = FALSE
  /\ UNCHANGED <<extras, process, resume, batch, row, rounds>>

(* Whatever became of the rows, the batch is empty and the clock restarts. *)
FlushReturns ==
  /\ FlushStep("rows") /\ row > Len(batch)
  /\ at' = resume
  /\ batch' = << >>
  /\ late' = FALSE
  /\ UNCHANGED <<extras, process, resume, row, rounds>>

(* COMMIT; an error when the transaction is gone. *)
Commit ==
  /\ FlushReturns
  /\ in_txn' = FALSE /\ txn' = << >>
  /\ stored' = stored \o txn
  /\ trouble' = (trouble \/ ~in_txn)
  /\ UNCHANGED <<durable, damage, saved>>

(* A COMMIT that finds the file locked leaves the transaction open; any    *)
(* other error rolls it back.                                              *)
CommitFails ==
  /\ in_txn
  /\ FlushReturns
  /\ trouble' = TRUE
  /\ UNCHANGED conn \/ (in_txn' = FALSE /\ txn' = << >>)
  /\ UNCHANGED <<file, saved>>

-----------------------------------------------------------------------------
(* Operations without a caller in the program. *)

Extra == extras /\ process = "running" /\ at = "idle"

(* db_backup: in one step, whatever the state of the file is. *)
BackUp ==
  /\ Extra
  /\ backup' \in {stored, stored \o txn}
  /\ backup_damage' = damage
  /\ UNCHANGED <<extras, code, conn, file, rounds, trouble>>

(* When it fails nobody is told.  An earlier backup stays as it was, but   *)
(* without one an empty file may be left, which passes for a backup.       *)
BackUpFails ==
  /\ Extra
  /\ backup = NoLog
  /\ backup' = << >> /\ backup_damage' = "hidden"
  /\ UNCHANGED <<extras, code, conn, file, rounds, trouble>>

(* db_insert_alarm: its COMMIT also commits what an earlier one has left   *)
(* open, and its checkpoint makes everything durable.  (The alarms         *)
(* themselves, in a table of their own, are left out.)                     *)
InsertAlarm ==
  /\ Extra
  /\ in_txn' = FALSE /\ txn' = << >>
  /\ stored' = stored \o txn
  /\ trouble' = (trouble \/ in_txn)
  /\ UNCHANGED <<extras, code, durable, damage, saved, rounds>>

(* BEGIN, the INSERT or COMMIT fails: as after a flush the transaction may *)
(* be left open, which goes on with what was open before, or be gone.      *)
InsertAlarmFails ==
  /\ Extra
  /\ trouble' = TRUE
  /\ \/ in_txn' = TRUE /\ UNCHANGED txn
     \/ in_txn' = FALSE /\ txn' = << >>
  /\ UNCHANGED <<extras, code, file, saved, rounds>>

(* SQLite moves the write-ahead log into the file: after an alarm, or when *)
(* the log has grown to 1000 pages.                                        *)
Checkpoint ==
  /\ process = "running" /\ durable < Len(stored)
  /\ durable' = Len(stored)
  /\ UNCHANGED <<extras, code, conn, stored, damage, saved, rounds, trouble>>

-----------------------------------------------------------------------------
Gone ==
  /\ process' = "down"
  /\ at' = "idle" /\ resume' = "idle" /\ batch' = << >> /\ row' = 1
  /\ round_left' = 0
  /\ in_txn' = FALSE /\ txn' = << >>
  /\ UNCHANGED <<extras, late, next_row, start_row, round_first, trouble>>

(* The process dies; the file is as it was after the last commit. *)
Crash ==
  /\ process # "down"
  /\ Gone
  /\ UNCHANGED <<file, saved>>

(* It dies while db_backup writes: of the pages some are new, some old,    *)
(* and the journal that could undo this does not follow the backup when it *)
(* is moved over the file.                                                 *)
CrashInBackup ==
  /\ Extra
  /\ Gone
  /\ backup' = << >> /\ backup_damage' \in Damages \ {"none"}
  /\ UNCHANGED file

(* Power fails: what was not checkpointed may be lost, from the end, and   *)
(* the card may damage the file and the backup.                            *)
PowerFails ==
  /\ Gone
  /\ \E n \in durable .. Len(stored) : stored' = SubSeq(stored, 1, n)
  /\ damage' \in Worse(damage)
  /\ backup_damage' \in IF backup = NoLog THEN {"none"} ELSE Worse(backup_damage)
  /\ UNCHANGED <<durable, backup>>

-----------------------------------------------------------------------------
Main == Open \/ CheckPasses \/ RestoreBackup \/ RepairFails

Collector ==
  \/ RoundStarts \/ TimePasses \/ BatchFull \/ AppendRow
  \/ Begin \/ BeginFails \/ StoreRow \/ StoreRowFails
  \/ Commit \/ CommitFails

Next ==
  \/ Main \/ Collector
  \/ BackUp \/ BackUpFails \/ InsertAlarm \/ InsertAlarmFails \/ Checkpoint
  \/ Crash \/ CrashInBackup \/ PowerFails

Spec == Init /\ [][Next]_vars

-----------------------------------------------------------------------------
(* The types of the variables.  The batch never outgrows its array, also   *)
(* when a flush fails.                                                     *)
TypeOK ==
  /\ extras \in BOOLEAN
  /\ process \in {"down", "opened", "running"}
  /\ at \in {"idle", "append", "begin", "rows"}
  /\ resume \in {"idle", "append"}
  /\ batch \in Seq(1 .. MaxRows) /\ Len(batch) <= BATCH_SIZE
  /\ late \in BOOLEAN
  /\ row \in 1 .. BATCH_SIZE + 1
  /\ round_left \in 0 .. MaxRows
  /\ next_row \in 1 .. MaxRows + 1
  /\ next_row + round_left <= MaxRows + 1
  /\ in_txn \in BOOLEAN /\ txn \in Seq(1 .. MaxRows)
  /\ ~in_txn => txn = << >>
  /\ stored \in Seq(1 .. MaxRows) /\ durable \in 0 .. Len(stored)
  /\ damage \in Damages /\ backup_damage \in Damages
  /\ backup = NoLog \/ backup \in Seq(1 .. MaxRows)
  /\ trouble \in BOOLEAN
  /\ start_row \in 1 .. next_row /\ round_first \in 1 .. next_row

(* For its reader the file is a log of samples (module SampleLog) as long  *)
(* as it is not damaged, and again once an undamaged backup has replaced   *)
(* it: through failed inserts and commits, transactions left open,         *)
(* crashes, power failures and restores no sample is stored twice or out   *)
(* of order, and only a power failure or a restore takes any away.         *)
LogStored  == IF damage = "none" THEN stored ELSE Garbled
LogDurable == IF damage = "none" THEN durable ELSE 0
LogBackup  == IF backup # NoLog /\ backup_damage # "none" THEN Garbled
              ELSE backup

Log == INSTANCE SampleLog
         WITH stored <- LogStored, durable <- LogDurable, backup <- LogBackup

ImplementsLog == Log!Spec

(* While no call of SQLite has failed and the file is not damaged, every   *)
(* sample of this process is stored or still in the batch: a crash loses   *)
(* no more than one batch.                                                 *)
NothingLostWithoutTrouble ==
  process = "running" /\ ~trouble /\ damage = "none" =>
    start_row .. next_row - 1 \subseteq
      Range(stored) \cup Range(txn) \cup Range(batch)

(* No sample stays in memory beyond the next round that delivers any: its  *)
(* first insert writes out everything before it.                           *)
OldRowsLeave ==
  at = "idle" /\ next_row > round_first =>
    \A i \in DOMAIN batch : batch[i] >= round_first

=============================================================================
