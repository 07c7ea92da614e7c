--------------------------- MODULE DatabaseProofs ---------------------------
(***************************************************************************)
(* The safety properties of Database and its refinement of SampleLog, for  *)
(* any size of the batch, any rounds and any number of samples.            *)
(***************************************************************************)
EXTENDS Database, SequenceTheorems, TLAPS

-----------------------------------------------------------------------------
(* The inductive invariant. *)

(* The types, apart: what has few values, and what holds samples.          *)
ControlOK ==
  /\ extras \in BOOLEAN /\ process \in {"down", "opened", "running"}
  /\ at \in {"idle", "append", "begin", "rows"}
  /\ resume \in {"idle", "append"}
  /\ late \in BOOLEAN /\ in_txn \in BOOLEAN /\ trouble \in BOOLEAN
  /\ damage \in Damages /\ backup_damage \in Damages
  /\ ~in_txn => txn = << >>

BatchOK ==
  /\ batch \in Seq(1 .. MaxRows) /\ Len(batch) <= BATCH_SIZE
  /\ row \in 1 .. BATCH_SIZE + 1

RoundsOK ==
  /\ round_left \in 0 .. MaxRows /\ next_row \in 1 .. MaxRows + 1
  /\ next_row + round_left <= MaxRows + 1
  /\ start_row \in 1 .. next_row /\ round_first \in 1 .. next_row

FileOK ==
  /\ txn \in Seq(1 .. MaxRows)
  /\ stored \in Seq(1 .. MaxRows) /\ durable \in 0 .. Len(stored)
  /\ backup = NoLog \/ backup \in Seq(1 .. MaxRows)

(* Samples of one sequence are in order, all of one come before all of     *)
(* another, all have been taken.                                           *)
Sorted(s)    == \A i, j \in DOMAIN s : i < j => s[i] < s[j]
Before(s, t) == \A i \in DOMAIN s : \A j \in DOMAIN t : s[i] < t[j]
Taken(s)     == \A i \in DOMAIN s : s[i] < next_row

(* The rows of the batch that are not yet inserted. *)
FirstRow == IF at = "rows" THEN row ELSE 1
Ahead(s) == \A i \in DOMAIN s : \A j \in DOMAIN batch :
              j >= FirstRow => s[i] < batch[j]

(* What is stored, what is in the transaction, what is in the batch: in    *)
(* this order, and so is the backup.                                       *)
Ordered ==
  /\ Sorted(stored) /\ Sorted(txn) /\ Sorted(batch)
  /\ Before(stored, txn) /\ Ahead(stored) /\ Ahead(txn)
  /\ Taken(stored) /\ Taken(txn) /\ Taken(batch)
  /\ backup # NoLog => Sorted(backup) /\ Taken(backup)

(* What a process that does not run has; where the collector can be. *)
Places ==
  /\ process # "running" =>
       /\ at = "idle" /\ batch = << >> /\ txn = << >> /\ ~in_txn
       /\ round_left = 0
  /\ process = "opened" => start_row = next_row /\ round_first = next_row
  /\ at = "append" => batch = << >> /\ round_left > 0
  /\ at \in {"begin", "rows"} =>
       IF resume = "append" THEN round_left > 0 ELSE next_row > round_first
  /\ at = "rows" => row <= Len(batch) + 1

(* The rows that the flush has passed are in the file or the transaction.  *)
Inserted ==
  at = "rows" /\ ~trouble =>
    \A i \in 1 .. row - 1 : batch[i] \in Range(stored) \cup Range(txn)

(* NothingLostWithoutTrouble, of the rows that were stored, also when the  *)
(* file can no longer be read.                                             *)
RowsKept ==
  process = "running" /\ ~trouble =>
    start_row .. next_row - 1 \subseteq
      Range(stored) \cup Range(txn) \cup Range(batch)

(* The first insert of a round flushes the batch. *)
FirstIsLate == at = "idle" /\ next_row = round_first /\ round_left > 0 => late

IInv ==
  /\ TypeOK
  /\ Ordered
  /\ Places
  /\ Inserted
  /\ FirstIsLate
  /\ RowsKept
  /\ OldRowsLeave

LEMMA TypeParts ==
  /\ TypeOK <=> ControlOK /\ BatchOK /\ RoundsOK /\ FileOK
  /\ TypeOK' <=> ControlOK' /\ BatchOK' /\ RoundsOK' /\ FileOK'
BY Zenon DEF TypeOK, ControlOK, BatchOK, RoundsOK, FileOK

-----------------------------------------------------------------------------
(* Sequences of samples. *)

(* Appending a later sample keeps the order. *)
LEMMA AppendFacts ==
  ASSUME NEW S, NEW s \in Seq(S), NEW x \in S
  PROVE  /\ Append(s, x) \in Seq(S)
         /\ DOMAIN Append(s, x) = 1 .. Len(s) + 1
         /\ \A i \in DOMAIN s : i \in 1 .. Len(s) /\ Append(s, x)[i] = s[i]
         /\ Append(s, x)[Len(s) + 1] = x
         /\ Len(Append(s, x)) = Len(s) + 1
OBVIOUS

LEMMA AppendSorted ==
  ASSUME NEW s \in Seq(Nat), NEW x \in Nat, Sorted(s),
         \A i \in DOMAIN s : s[i] < x
  PROVE  Sorted(Append(s, x))
<1> SUFFICES ASSUME NEW i \in DOMAIN Append(s, x),
                    NEW j \in DOMAIN Append(s, x), i < j
             PROVE  Append(s, x)[i] < Append(s, x)[j]
  BY DEF Sorted
<1>1. i \in DOMAIN s /\ Append(s, x)[i] = s[i]
  OBVIOUS
<1>2. CASE j \in DOMAIN s
  BY <1>1, <1>2 DEF Sorted
<1>3. CASE j \notin DOMAIN s
  <2>1. Append(s, x)[j] = x
    BY <1>3
  <2> QED BY <1>1, <2>1
<1> QED BY <1>2, <1>3

(* An element of a concatenation is one of its parts. *)
LEMMA ConcatFacts ==
  ASSUME NEW S, NEW s \in Seq(S), NEW t \in Seq(S)
  PROVE  /\ s \o t \in Seq(S) /\ Len(s \o t) = Len(s) + Len(t)
         /\ DOMAIN (s \o t) = 1 .. Len(s) + Len(t)
         /\ \A i \in 1 .. Len(s) : (s \o t)[i] = s[i]
         /\ \A i \in 1 .. Len(s) + Len(t) : i > Len(s) =>
              i - Len(s) \in DOMAIN t /\ (s \o t)[i] = t[i - Len(s)]
         /\ Len(s) \in Nat /\ Len(t) \in Nat
         /\ DOMAIN s = 1 .. Len(s)
OBVIOUS

LEMMA ConcatSorted ==
  ASSUME NEW s \in Seq(Nat), NEW t \in Seq(Nat), Sorted(s), Sorted(t),
         Before(s, t)
  PROVE  Sorted(s \o t)
<1> DEFINE c == s \o t
<1> SUFFICES ASSUME NEW i \in DOMAIN c, NEW j \in DOMAIN c, i < j
             PROVE  c[i] < c[j]
  BY DEF Sorted
<1>1. /\ i \in 1 .. Len(s) + Len(t) /\ j \in 1 .. Len(s) + Len(t)
      /\ \A k \in 1 .. Len(s) : c[k] = s[k]
      /\ \A k \in 1 .. Len(s) + Len(t) : k > Len(s) =>
           k - Len(s) \in DOMAIN t /\ c[k] = t[k - Len(s)]
      /\ Len(s) \in Nat /\ Len(t) \in Nat /\ DOMAIN s = 1 .. Len(s)
  BY ConcatFacts
<1> HIDE DEF c
<1>2. CASE j <= Len(s)
  BY <1>1, <1>2 DEF Sorted
<1>3. CASE i <= Len(s) /\ j > Len(s)
  BY <1>1, <1>3 DEF Before
<1>4. CASE i > Len(s)
  <2>1. i - Len(s) \in DOMAIN t /\ j - Len(s) \in DOMAIN t
    BY <1>1, <1>4
  <2>2. i - Len(s) < j - Len(s)
    BY <1>1
  <2>3. c[i] = t[i - Len(s)] /\ c[j] = t[j - Len(s)]
    BY <1>1, <1>4
  <2> QED BY <2>1, <2>2, <2>3 DEF Sorted
<1> QED BY <1>1, <1>2, <1>3, <1>4

(* What it means for the range. *)
LEMMA RangeAppend ==
  ASSUME NEW S, NEW s \in Seq(S), NEW x \in S
  PROVE  Range(Append(s, x)) = Range(s) \cup {x}
<1>1. \A i \in DOMAIN Append(s, x) :
        (i \in DOMAIN s /\ Append(s, x)[i] = s[i]) \/ Append(s, x)[i] = x
  OBVIOUS
<1>2. \A i \in DOMAIN s : i \in DOMAIN Append(s, x) /\ Append(s, x)[i] = s[i]
  OBVIOUS
<1>3. Len(s) + 1 \in DOMAIN Append(s, x) /\ Append(s, x)[Len(s) + 1] = x
  OBVIOUS
<1> QED BY <1>1, <1>2, <1>3 DEF Range

(* Prefixes. *)
LEMMA PrefixOfConcat ==
  ASSUME NEW S, NEW s \in Seq(S), NEW t \in Seq(S)
  PROVE  IsPrefix(s, s \o t)
BY ConcatProperties DEF IsPrefix

LEMMA PrefixOfAppend ==
  ASSUME NEW S, NEW s \in Seq(S), NEW x \in S
  PROVE  IsPrefix(s, Append(s, x))
BY AppendProperties DEF IsPrefix

LEMMA CutFacts ==
  ASSUME NEW S, NEW s \in Seq(S), NEW n \in 0 .. Len(s)
  PROVE  /\ SubSeq(s, 1, n) \in Seq(S) /\ Len(SubSeq(s, 1, n)) = n
         /\ \A i \in 1 .. n : SubSeq(s, 1, n)[i] = s[i]
         /\ IsPrefix(SubSeq(s, 1, n), s)
BY SubSeqProperties DEF IsPrefix

(* The sequences of the invariant hold numbers. *)
LEMMA NumberTypes ==
  ASSUME TypeOK
  PROVE  /\ stored \in Seq(Nat) /\ txn \in Seq(Nat) /\ batch \in Seq(Nat)
         /\ backup # NoLog => backup \in Seq(Nat)
         /\ next_row \in Nat /\ round_first \in Nat /\ start_row \in Nat
         /\ round_left \in Nat /\ row \in Nat /\ durable \in Nat
         /\ FirstRow \in Nat
<1>1. 1 .. MaxRows \subseteq Nat /\ MaxRows \in Nat /\ BATCH_SIZE \in Nat
  BY DatabaseAssumption
<1>2. \A s \in Seq(1 .. MaxRows) : s \in Seq(Nat)
  BY <1>1, SeqMonotonic, Zenon
<1>3. /\ stored \in Seq(Nat) /\ txn \in Seq(Nat) /\ batch \in Seq(Nat)
      /\ backup # NoLog => backup \in Seq(Nat)
  BY <1>2 DEF TypeOK
<1>4. /\ next_row \in Nat /\ round_first \in Nat /\ start_row \in Nat
      /\ round_left \in Nat /\ row \in Nat
  BY <1>1 DEF TypeOK
<1>5. durable \in Nat
  BY <1>3 DEF TypeOK
<1> QED BY <1>3, <1>4, <1>5 DEF FirstRow

-----------------------------------------------------------------------------
(* The invariant holds before the first process. *)
LEMMA InitInv == Init => IInv
<1> SUFFICES ASSUME Init PROVE IInv
  OBVIOUS
<1>1. TypeOK
  <2>1. << >> \in Seq(1 .. MaxRows) /\ Len(<< >>) = 0
    OBVIOUS
  <2>2. ControlOK
    BY Zenon DEF Init, ControlOK, Damages
  <2>3. BatchOK /\ RoundsOK /\ FileOK
    BY <2>1, DatabaseAssumption DEF Init, BatchOK, RoundsOK, FileOK
  <2> QED BY <2>2, <2>3, TypeParts
<1>2. Ordered
  BY DEF Init, Ordered, Sorted, Before, Ahead, Taken
<1>3. Places /\ Inserted /\ FirstIsLate
  BY DEF Init, Places, Inserted, FirstIsLate
<1>4. RowsKept /\ OldRowsLeave
  BY DEF Init, RowsKept, OldRowsLeave
<1> QED BY <1>1, <1>2, <1>3, <1>4 DEF IInv

-----------------------------------------------------------------------------
(* Steps that move no samples. *)

(* The order is kept when the batch stays or is dropped, and the           *)
(* transaction stays or is rolled back.                                    *)
LEMMA OrderStays ==
  ASSUME TypeOK, Ordered, stored' = stored, backup' = backup,
         next_row' = next_row,
         txn' = txn \/ txn' = << >>,
         \/ batch' = << >>
         \/ batch' = batch /\ FirstRow' \in Nat /\ FirstRow' >= FirstRow
  PROVE  Ordered'
<1>1. Sorted(stored)' /\ Taken(stored)'
  BY DEF Ordered, Sorted, Taken
<1>2. (backup # NoLog => Sorted(backup) /\ Taken(backup))'
  BY DEF Ordered, Sorted, Taken
<1>3. Sorted(txn)' /\ Taken(txn)' /\ Before(stored, txn)'
  BY DEF Ordered, Sorted, Taken, Before
<1>4. Sorted(batch)' /\ Taken(batch)'
  BY DEF Ordered, Sorted, Taken
<1>5. Ahead(stored)' /\ Ahead(txn)'
  <2>1. CASE batch' = << >>
    BY <2>1 DEF Ahead
  <2>2. CASE batch' = batch /\ FirstRow' \in Nat /\ FirstRow' >= FirstRow
    <3>1. \A j \in DOMAIN batch : j \in Nat
      BY NumberTypes
    <3>2. FirstRow \in Nat
      BY NumberTypes
    <3>3. \A j \in DOMAIN batch : j >= FirstRow' => j >= FirstRow
      BY <2>2, <3>1, <3>2
    <3> QED BY <2>2, <3>3 DEF Ordered, Ahead
  <2> QED BY <2>1, <2>2
<1> QED BY <1>1, <1>2, <1>3, <1>4, <1>5 DEF Ordered

LEMMA OpenKeepsInv ==
  ASSUME IInv, Open PROVE IInv'
<1>1. /\ extras' = extras /\ process' = "opened" /\ at' = "idle"
      /\ resume' = "idle" /\ batch' = << >> /\ late' = FALSE /\ row' = 1
      /\ round_left' = 0 /\ next_row' = next_row /\ start_row' = next_row
      /\ round_first' = next_row /\ in_txn' = in_txn /\ txn' = txn
      /\ stored' = stored /\ durable' = durable /\ damage' = damage
      /\ backup' = backup /\ backup_damage' = backup_damage
      /\ trouble' = FALSE
  BY Zenon DEF Open, conn, file, saved
<1>2. process # "running"
  BY DEF Open
<1>3. TypeOK'
  <2>1. ControlOK'
    BY <1>1, Zenon DEF IInv, TypeOK, ControlOK
  <2>2. BatchOK' /\ RoundsOK' /\ FileOK'
    BY <1>1, DatabaseAssumption
    DEF IInv, TypeOK, BatchOK, RoundsOK, FileOK
  <2> QED BY <2>1, <2>2, TypeParts
<1>4. Ordered'
  BY <1>1, OrderStays, Zenon DEF IInv
<1>5. Places'
  BY <1>1, <1>2 DEF IInv, Places
<1>6. Inserted' /\ FirstIsLate' /\ RowsKept' /\ OldRowsLeave'
  BY <1>1 DEF Inserted, FirstIsLate, RowsKept, OldRowsLeave
<1> QED BY <1>3, <1>4, <1>5, <1>6 DEF IInv

LEMMA CheckPassesKeepsInv ==
  ASSUME IInv, CheckPasses PROVE IInv'
<1>1. /\ UNCHANGED <<extras, at, resume, batch, late, row, round_left,
                     next_row, start_row, round_first, in_txn, txn, stored,
                     durable, damage, backup, backup_damage, trouble>>
      /\ process = "opened" /\ process' = "running"
  BY DEF CheckPasses, conn, file, saved, rounds
<1>2. TypeOK'
  BY <1>1, Zenon DEF IInv, TypeOK
<1>3. FirstRow' = FirstRow /\ FirstRow \in Nat
  BY <1>1, NumberTypes DEF FirstRow, IInv
<1>4. Ordered'
  BY <1>1, <1>3, OrderStays DEF IInv
<1>5. start_row = next_row /\ at = "idle" /\ batch = << >>
  BY <1>1 DEF IInv, Places
<1>6. start_row' .. next_row' - 1 = {}
  BY <1>1, <1>5, NumberTypes DEF IInv
<1>7. Places' /\ Inserted' /\ FirstIsLate'
  BY <1>1, <1>5 DEF IInv, Places, Inserted, FirstIsLate
<1>8. RowsKept' /\ OldRowsLeave'
  BY <1>1, <1>5, <1>6 DEF RowsKept, OldRowsLeave
<1> QED BY <1>2, <1>4, <1>7, <1>8 DEF IInv

(* The restored file is in order, and the process has nothing in memory.   *)
LEMMA RestoreBackupKeepsInv ==
  ASSUME IInv, RestoreBackup PROVE IInv'
<1>1. /\ UNCHANGED <<extras, at, resume, batch, late, row, round_left,
                     next_row, start_row, round_first, in_txn, txn, trouble>>
      /\ process = "opened" /\ process' = "running" /\ backup # NoLog
      /\ stored' = backup /\ durable' = Len(backup) /\ backup' = NoLog
      /\ damage' \in Worse(backup_damage) /\ backup_damage' = "none"
  BY DEF RestoreBackup, conn, rounds
<1>2. TypeOK'
  <2>1. ControlOK'
    BY <1>1, Zenon DEF IInv, TypeOK, ControlOK, Damages, Worse
  <2>2. BatchOK' /\ RoundsOK'
    BY <1>1, Zenon DEF IInv, TypeOK, BatchOK, RoundsOK
  <2>3. FileOK'
    BY <1>1 DEF IInv, TypeOK, FileOK
  <2> QED BY <2>1, <2>2, <2>3, TypeParts
<1>3. start_row = next_row /\ at = "idle" /\ batch = << >> /\ txn = << >>
  BY <1>1 DEF IInv, Places
<1>4. Ordered'
  BY <1>1, <1>3 DEF IInv, Ordered, Sorted, Taken, Before, Ahead
<1>5. start_row' .. next_row' - 1 = {}
  BY <1>1, <1>3, NumberTypes DEF IInv
<1>6. Places' /\ Inserted' /\ FirstIsLate'
  BY <1>1, <1>3 DEF IInv, Places, Inserted, FirstIsLate
<1>7. RowsKept' /\ OldRowsLeave'
  BY <1>1, <1>3, <1>5 DEF RowsKept, OldRowsLeave
<1> QED BY <1>2, <1>4, <1>6, <1>7 DEF IInv

LEMMA RepairFailsKeepsInv ==
  ASSUME IInv, RepairFails PROVE IInv'
<1>1. /\ UNCHANGED <<extras, at, resume, batch, late, row, round_left,
                     next_row, start_row, round_first, in_txn, txn, stored,
                     durable, damage, backup, backup_damage, trouble>>
      /\ process = "opened" /\ process' = "down"
  BY DEF RepairFails, conn, file, saved, rounds
<1>2. TypeOK'
  BY <1>1, Zenon DEF IInv, TypeOK
<1>3. FirstRow' = FirstRow /\ FirstRow \in Nat
  BY <1>1, NumberTypes DEF FirstRow, IInv
<1>4. Ordered'
  BY <1>1, <1>3, OrderStays DEF IInv
<1>5. Places' /\ Inserted' /\ FirstIsLate'
  BY <1>1 DEF IInv, Places, Inserted, FirstIsLate
<1>6. RowsKept' /\ OldRowsLeave'
  BY <1>1 DEF IInv, Places, RowsKept, OldRowsLeave
<1> QED BY <1>2, <1>4, <1>5, <1>6 DEF IInv

-----------------------------------------------------------------------------
(* Rounds. *)

LEMMA RoundStartsKeepsInv ==
  ASSUME IInv, RoundStarts PROVE IInv'
<1>1. /\ UNCHANGED <<extras, process, at, resume, batch, row, next_row,
                     start_row, in_txn, txn, stored, durable, damage, backup,
                     backup_damage, trouble>>
      /\ process = "running" /\ at = "idle" /\ late' = TRUE
  BY DEF RoundStarts, conn, file, saved
<1>2. PICK n \in RoundRows :
        /\ next_row + n <= MaxRows + 1 /\ round_left' = n
        /\ round_first' = IF n > 0 THEN next_row ELSE round_first
  BY DEF RoundStarts
<1>3. TypeOK'
  <2>1. ControlOK'
    BY <1>1, Zenon DEF IInv, TypeOK, ControlOK
  <2>2. BatchOK' /\ FileOK'
    BY <1>1, Zenon DEF IInv, TypeOK, BatchOK, FileOK
  <2>3. n \in Nat /\ MaxRows \in Nat
    BY DatabaseAssumption
  <2>4. /\ next_row \in 1 .. MaxRows + 1 /\ start_row \in 1 .. next_row
        /\ round_first \in 1 .. next_row
    BY DEF IInv, TypeOK
  <2>5. RoundsOK'
    BY <1>1, <1>2, <2>3, <2>4 DEF RoundsOK
  <2> QED BY <2>1, <2>2, <2>5, TypeParts
<1>4. FirstRow' = FirstRow /\ FirstRow \in Nat
  BY <1>1, NumberTypes DEF FirstRow, IInv
<1>5. Ordered'
  BY <1>1, <1>4, OrderStays DEF IInv
<1>6. Places' /\ Inserted'
  BY <1>1 DEF IInv, Places, Inserted
<1>7. FirstIsLate'
  BY <1>1, Zenon DEF FirstIsLate
<1>8. RowsKept'
  BY <1>1, Zenon DEF IInv, RowsKept
<1>9. OldRowsLeave'
  <2>1. next_row \in Nat
    BY NumberTypes DEF IInv
  <2>2. next_row' > round_first' => round_first' = round_first
    BY <1>1, <1>2, <2>1
  <2> QED BY <1>1, <2>2 DEF IInv, OldRowsLeave
<1> QED BY <1>3, <1>5, <1>6, <1>7, <1>8, <1>9 DEF IInv

LEMMA TimePassesKeepsInv ==
  ASSUME IInv, TimePasses PROVE IInv'
<1>1. /\ UNCHANGED <<extras, process, at, resume, batch, row, round_left,
                     next_row, start_row, round_first, in_txn, txn, stored,
                     durable, damage, backup, backup_damage, trouble>>
      /\ late' = TRUE
  BY DEF TimePasses, conn, file, saved, rounds
<1>2. TypeOK'
  BY <1>1, Zenon DEF IInv, TypeOK
<1>3. FirstRow' = FirstRow /\ FirstRow \in Nat
  BY <1>1, NumberTypes DEF FirstRow, IInv
<1>4. Ordered'
  BY <1>1, <1>3, OrderStays DEF IInv
<1>5. Places' /\ Inserted'
  BY <1>1 DEF IInv, Places, Inserted
<1>6. FirstIsLate' /\ RowsKept' /\ OldRowsLeave'
  BY <1>1, Zenon DEF IInv, FirstIsLate, RowsKept, OldRowsLeave
<1> QED BY <1>2, <1>4, <1>5, <1>6 DEF IInv

LEMMA BatchFullKeepsInv ==
  ASSUME IInv, BatchFull PROVE IInv'
<1>1. /\ UNCHANGED <<extras, process, batch, late, row, round_left,
                     next_row, start_row, round_first, in_txn, txn, stored,
                     durable, damage, backup, backup_damage, trouble>>
      /\ process = "running" /\ at = "idle" /\ round_left > 0
      /\ at' = "begin" /\ resume' = "append"
  BY DEF BatchFull, conn, file, saved, rounds
<1>2. TypeOK'
  BY <1>1, Zenon DEF IInv, TypeOK
<1>3. FirstRow' = FirstRow /\ FirstRow \in Nat
  BY <1>1, NumberTypes DEF FirstRow, IInv
<1>4. Ordered'
  BY <1>1, <1>3, OrderStays DEF IInv
<1>5. Places' /\ Inserted' /\ FirstIsLate' /\ OldRowsLeave'
  BY <1>1 DEF Places, Inserted, FirstIsLate, OldRowsLeave
<1>6. RowsKept'
  BY <1>1, Zenon DEF IInv, RowsKept
<1> QED BY <1>2, <1>4, <1>5, <1>6 DEF IInv

(* The new row is later than all that were taken; it stays in the batch    *)
(* only when the rows before it are of its own round.                      *)
LEMMA AppendRowKeepsInv ==
  ASSUME IInv, AppendRow PROVE IInv'
<1>1. /\ UNCHANGED <<extras, late, row, start_row, round_first, in_txn, txn,
                     stored, durable, damage, backup, backup_damage, trouble>>
      /\ process = "running" /\ process' = "running"
      /\ batch' = Append(batch, next_row) /\ next_row' = next_row + 1
      /\ round_left' = round_left - 1
      /\ at' = IF late THEN "begin" ELSE "idle"
      /\ resume' = "idle"
  BY DEF AppendRow, conn, file, saved
<1>2. \/ at = "append" /\ batch = << >>
      \/ at = "idle" /\ Len(batch) < BATCH_SIZE
  BY DEF AppendRow, IInv, Places
<1>3. /\ round_left \in 0 .. MaxRows /\ round_left > 0
      /\ next_row \in 1 .. MaxRows + 1 /\ next_row + round_left <= MaxRows + 1
      /\ MaxRows \in Nat /\ BATCH_SIZE \in Nat /\ BATCH_SIZE > 0
  BY DatabaseAssumption DEF AppendRow, IInv, TypeOK, Places
<1>4. next_row \in 1 .. MaxRows /\ next_row \in Nat
  BY <1>3
<1>5. batch \in Seq(1 .. MaxRows) /\ batch \in Seq(Nat)
  BY NumberTypes DEF IInv, TypeOK
<1>6. /\ DOMAIN batch' = 1 .. Len(batch) + 1
      /\ \A i \in DOMAIN batch : batch'[i] = batch[i] /\ i \in 1 .. Len(batch)
      /\ batch'[Len(batch) + 1] = next_row
      /\ Len(batch') = Len(batch) + 1 /\ Len(batch) \in Nat
      /\ batch' \in Seq(1 .. MaxRows)
  BY <1>1, <1>4, <1>5, AppendFacts
<1>7. \A i \in DOMAIN batch' :
        (i \in DOMAIN batch /\ batch'[i] = batch[i]) \/ batch'[i] = next_row
  BY <1>5, <1>6
<1>8. at # "rows" /\ at' # "rows" /\ FirstRow = 1 /\ FirstRow' = 1
  BY <1>1, <1>2 DEF FirstRow
<1>9. TypeOK'
  <2>1. at' \in {"idle", "begin"}
    BY <1>1
  <2>2. ControlOK'
    BY <1>1, <2>1, Zenon DEF IInv, TypeOK, ControlOK
  <2>3. BatchOK'
    <3>1. Len(batch) < BATCH_SIZE
      BY <1>2, <1>3
    <3> QED BY <1>1, <1>3, <1>6, <3>1 DEF IInv, TypeOK, BatchOK
  <2>4. RoundsOK'
    BY <1>1, <1>3 DEF IInv, TypeOK, RoundsOK
  <2>5. FileOK'
    BY <1>1, Zenon DEF IInv, TypeOK, FileOK
  <2> QED BY <2>2, <2>3, <2>4, <2>5, TypeParts
<1>10. Ordered'
  <2>1. Sorted(stored)' /\ Sorted(txn)' /\ Before(stored, txn)'
    BY <1>1 DEF IInv, Ordered, Sorted, Before
  <2>2. Sorted(batch)'
    <3>1. Sorted(batch) /\ \A i \in DOMAIN batch : batch[i] < next_row
      BY DEF IInv, Ordered, Taken
    <3>2. Sorted(Append(batch, next_row))
      BY <1>4, <1>5, <3>1, AppendSorted
    <3> QED BY <1>1, <3>2 DEF Sorted
  <2>3. \A x \in Nat : x < next_row => x < next_row'
    BY <1>1, <1>4
  <2>4. /\ \A i \in DOMAIN stored : stored[i] \in Nat
        /\ \A i \in DOMAIN txn : txn[i] \in Nat
        /\ \A i \in DOMAIN batch : batch[i] \in Nat
        /\ backup # NoLog => \A i \in DOMAIN backup : backup[i] \in Nat
    <3>1. \A s \in Seq(Nat) : \A i \in DOMAIN s : s[i] \in Nat
      OBVIOUS
    <3> QED BY <3>1, NumberTypes, Zenon DEF IInv
  <2>5. Taken(stored)' /\ Taken(txn)'
    BY <1>1, <2>3, <2>4 DEF IInv, Ordered, Taken
  <2>6. Taken(batch)'
    <3>1. \A i \in DOMAIN batch : batch[i] < next_row'
      BY <2>3, <2>4 DEF IInv, Ordered, Taken
    <3>2. next_row < next_row'
      BY <1>1, <1>4
    <3> QED BY <1>7, <3>1, <3>2 DEF Taken
  <2>7. (backup # NoLog => Sorted(backup) /\ Taken(backup))'
    BY <1>1, <2>3, <2>4 DEF IInv, Ordered, Sorted, Taken
  <2>8. \A j \in DOMAIN batch : j >= 1
    BY <1>6
  <2>9. Ahead(stored)' /\ Ahead(txn)'
    BY <1>1, <1>7, <1>8, <2>8 DEF IInv, Ordered, Ahead, Taken
  <2> QED BY <2>1, <2>2, <2>5, <2>6, <2>7, <2>9 DEF Ordered
<1>11. round_first < next_row' /\ round_first \in Nat
  BY <1>1, <1>3 DEF IInv, TypeOK
<1>12. Places'
  BY <1>1, <1>11 DEF Places
<1>13. Inserted' /\ FirstIsLate'
  BY <1>1, <1>8, <1>11 DEF Inserted, FirstIsLate
<1>14. RowsKept'
  <2>1. Range(batch)' = Range(batch) \cup {next_row}
    <3>1. Range(Append(batch, next_row)) = Range(batch) \cup {next_row}
      BY <1>4, <1>5, RangeAppend
    <3> QED BY <1>1, <3>1 DEF Range
  <2>2. Range(stored)' = Range(stored) /\ Range(txn)' = Range(txn)
    BY <1>1 DEF Range
  <2>3. start_row \in Nat /\ start_row' = start_row
    BY <1>1, NumberTypes DEF IInv
  <2>4. start_row' .. next_row' - 1
          \subseteq (start_row .. next_row - 1) \cup {next_row}
    BY <1>1, <1>4, <2>3
  <2>5. SUFFICES ASSUME ~trouble
                 PROVE  start_row' .. next_row' - 1 \subseteq
                          Range(stored)' \cup Range(txn)' \cup Range(batch)'
    BY <1>1 DEF RowsKept
  <2>6. start_row .. next_row - 1
          \subseteq Range(stored) \cup Range(txn) \cup Range(batch)
    BY <1>1, <2>5 DEF IInv, RowsKept
  <2> QED BY <2>1, <2>2, <2>4, <2>6
<1>15. OldRowsLeave'
  <2> SUFFICES ASSUME at' = "idle"
               PROVE  \A i \in DOMAIN batch' : batch'[i] >= round_first
    BY <1>1 DEF OldRowsLeave
  <2>1. ~late
    BY <1>1
  <2>2. next_row >= round_first
    BY <1>3 DEF IInv, TypeOK
  <2>3. \A i \in DOMAIN batch : batch[i] >= round_first
    <3>1. CASE at = "append" /\ batch = << >>
      BY <3>1
    <3>2. CASE at = "idle"
      <4>1. next_row # round_first
        BY <1>3, <2>1, <3>2 DEF IInv, FirstIsLate
      <4>2. next_row > round_first
        BY <1>4, <1>11, <2>2, <4>1
      <4> QED BY <3>2, <4>2 DEF IInv, OldRowsLeave
    <3> QED BY <1>2, <3>1, <3>2
  <2> QED BY <1>7, <2>2, <2>3
<1> QED
  BY <1>9, <1>10, <1>12, <1>13, <1>14, <1>15 DEF IInv

-----------------------------------------------------------------------------
(* The flush. *)

LEMMA BeginKeepsInv ==
  ASSUME IInv, Begin \/ BeginFails PROVE IInv'
<1>1. /\ UNCHANGED <<extras, process, resume, batch, late, round_left,
                     next_row, start_row, round_first, txn, stored, durable,
                     damage, backup, backup_damage>>
      /\ process = "running" /\ at = "begin" /\ at' = "rows" /\ row' = 1
  BY DEF Begin, BeginFails, FlushStep, conn, file, saved, rounds
<1>0. \/ in_txn' = TRUE /\ trouble' = (trouble \/ in_txn)
      \/ in_txn' = in_txn /\ trouble' = TRUE
  BY Zenon DEF Begin, BeginFails, conn
<1>2. trouble' \in BOOLEAN /\ (~trouble' => ~trouble)
  BY <1>0, Zenon DEF IInv, TypeOK
<1>3. TypeOK'
  <2>1. ControlOK'
    BY <1>0, <1>1, <1>2, Zenon DEF IInv, TypeOK, ControlOK
  <2>2. BatchOK'
    BY <1>1, DatabaseAssumption DEF IInv, TypeOK, BatchOK
  <2>3. RoundsOK' /\ FileOK'
    BY <1>1, Zenon DEF IInv, TypeOK, RoundsOK, FileOK
  <2> QED BY <2>1, <2>2, <2>3, TypeParts
<1>4. FirstRow' \in Nat /\ FirstRow' >= FirstRow
  BY <1>1 DEF FirstRow
<1>5. Ordered'
  BY <1>1, <1>4, OrderStays, Zenon DEF IInv
<1>6. Places'
  <2>1. Len(batch) \in Nat
    BY DEF IInv, TypeOK
  <2> QED BY <1>1, <2>1 DEF IInv, Places
<1>7. Inserted' /\ FirstIsLate' /\ OldRowsLeave'
  BY <1>1 DEF Inserted, FirstIsLate, OldRowsLeave
<1>8. RowsKept'
  BY <1>1, <1>2, Zenon DEF IInv, RowsKept
<1> QED BY <1>3, <1>5, <1>6, <1>7, <1>8 DEF IInv

(* The row that is inserted is later than all that are in the file or the  *)
(* transaction, and earlier than the rest of the batch.                    *)
LEMMA StoreRowKeepsInv ==
  ASSUME IInv, StoreRow PROVE IInv'
<1> DEFINE x == batch[row]
<1>1. /\ UNCHANGED <<extras, process, at, resume, batch, late, round_left,
                     next_row, start_row, round_first, in_txn, durable,
                     damage, backup, backup_damage, trouble>>
      /\ process = "running" /\ at = "rows" /\ row <= Len(batch)
      /\ row' = row + 1
  BY DEF StoreRow, FlushStep, saved, rounds
<1>2. \/ in_txn /\ txn' = Append(txn, x) /\ stored' = stored
      \/ ~in_txn /\ stored' = Append(stored, x) /\ txn' = txn
  BY Zenon DEF StoreRow
<1>3. /\ batch \in Seq(1 .. MaxRows) /\ stored \in Seq(1 .. MaxRows)
      /\ txn \in Seq(1 .. MaxRows) /\ Len(batch) <= BATCH_SIZE
      /\ row \in 1 .. BATCH_SIZE + 1 /\ BATCH_SIZE \in Nat /\ MaxRows \in Nat
      /\ Len(batch) \in Nat /\ next_row \in Nat
  BY DatabaseAssumption DEF IInv, TypeOK
<1>4. row \in DOMAIN batch /\ x \in 1 .. MaxRows /\ x \in Nat
      /\ \A i \in DOMAIN batch : i \in Nat
  BY <1>1, <1>3
<1>5. FirstRow = row /\ FirstRow' = row + 1
  BY <1>1 DEF FirstRow
<1>6. /\ \A i \in DOMAIN stored : stored[i] < x
      /\ \A i \in DOMAIN txn : txn[i] < x
      /\ x < next_row
      /\ \A j \in DOMAIN batch : j >= row + 1 => x < batch[j]
  <2>1. row >= FirstRow
    BY <1>3, <1>5
  <2>2. \A j \in DOMAIN batch : j >= row + 1 => row < j
    BY <1>3, <1>4
  <2> QED BY <1>4, <2>1, <2>2 DEF IInv, Ordered, Ahead, Taken, Sorted
<1>7. \A j \in DOMAIN batch : j >= row + 1 => j >= row
  BY <1>3, <1>4
<1>8. /\ stored \in Seq(Nat) /\ txn \in Seq(Nat)
  BY NumberTypes DEF IInv
<1> HIDE DEF x
<1>9. \A s \in Seq(1 .. MaxRows) :
        /\ Append(s, x) \in Seq(1 .. MaxRows)
        /\ Len(Append(s, x)) = Len(s) + 1 /\ Len(s) \in Nat
        /\ Range(Append(s, x)) = Range(s) \cup {x}
        /\ \A i \in DOMAIN Append(s, x) :
             (i \in DOMAIN s /\ Append(s, x)[i] = s[i]) \/ Append(s, x)[i] = x
  <2> TAKE s \in Seq(1 .. MaxRows)
  <2>1. 1 .. MaxRows \subseteq Nat
    BY <1>3
  <2>2. s \in Seq(Nat)
    BY <2>1, SeqMonotonic, Zenon
  <2>3. Range(Append(s, x)) = Range(s) \cup {x}
    BY <1>4, <2>2, RangeAppend
  <2> QED BY <1>4, <2>3
<1>10. TypeOK'
  <2>1. ControlOK'
    BY <1>1, <1>2, Zenon DEF IInv, TypeOK, ControlOK
  <2>2. BatchOK'
    BY <1>1, <1>3 DEF BatchOK
  <2>3. RoundsOK'
    BY <1>1, Zenon DEF IInv, TypeOK, RoundsOK
  <2>4. txn' \in Seq(1 .. MaxRows) /\ stored' \in Seq(1 .. MaxRows)
    BY <1>2, <1>3, <1>9
  <2>5. Len(stored') \in Nat /\ Len(stored') >= Len(stored)
    BY <1>2, <1>3, <1>9
  <2>6. FileOK'
    BY <1>1, <1>3, <2>4, <2>5 DEF IInv, TypeOK, FileOK
  <2> QED BY <2>1, <2>2, <2>3, <2>6, TypeParts
<1>11. Ordered'
  <2>1. Sorted(batch)' /\ Taken(batch)'
        /\ (backup # NoLog => Sorted(backup) /\ Taken(backup))'
    BY <1>1 DEF IInv, Ordered, Sorted, Taken
  <2>2. CASE in_txn /\ txn' = Append(txn, x) /\ stored' = stored
    <3>1. Sorted(Append(txn, x))
      BY <1>4, <1>6, <1>8, AppendSorted DEF IInv, Ordered
    <3>2. Sorted(stored)' /\ Sorted(txn)' /\ Taken(stored)'
      BY <1>1, <2>2, <3>1 DEF IInv, Ordered, Sorted, Taken
    <3>3. \A i \in DOMAIN txn' :
            (i \in DOMAIN txn /\ txn'[i] = txn[i]) \/ txn'[i] = x
      BY <1>3, <1>9, <2>2
    <3>4. Taken(txn)' /\ Before(stored, txn)'
      BY <1>1, <1>6, <2>2, <3>3 DEF IInv, Ordered, Taken, Before
    <3>5. Ahead(stored)' /\ Ahead(txn)'
      BY <1>1, <1>5, <1>6, <1>7, <2>2, <3>3 DEF IInv, Ordered, Ahead
    <3> QED BY <2>1, <3>2, <3>4, <3>5 DEF Ordered
  <2>3. CASE ~in_txn /\ stored' = Append(stored, x) /\ txn' = txn
    <3>1. Sorted(Append(stored, x))
      BY <1>4, <1>6, <1>8, AppendSorted DEF IInv, Ordered
    <3>2. txn = << >>
      BY <2>3, Zenon DEF IInv, TypeOK
    <3>3. /\ Sorted(stored)' /\ Sorted(txn)' /\ Taken(txn)'
          /\ Before(stored, txn)' /\ Ahead(txn)'
      BY <1>1, <2>3, <3>1, <3>2 DEF Sorted, Taken, Before, Ahead
    <3>4. \A i \in DOMAIN stored' :
            (i \in DOMAIN stored /\ stored'[i] = stored[i]) \/ stored'[i] = x
      BY <1>3, <1>9, <2>3
    <3>5. Taken(stored)'
      BY <1>1, <1>6, <3>4 DEF IInv, Ordered, Taken
    <3>6. Ahead(stored)'
      BY <1>1, <1>5, <1>6, <1>7, <3>4 DEF IInv, Ordered, Ahead
    <3> QED BY <2>1, <3>3, <3>5, <3>6 DEF Ordered
  <2> QED BY <1>2, <2>2, <2>3
<1>12. Places'
  <2>1. row' <= Len(batch) + 1
    BY <1>1, <1>3
  <2> QED BY <1>1, <2>1 DEF IInv, Places
<1>13. /\ Range(stored) \cup Range(txn) \cup {x}
           = Range(stored') \cup Range(txn')
  BY <1>2, <1>3, <1>9
<1>14. Inserted'
  <2>1. \A i \in 1 .. row' - 1 : i \in 1 .. row - 1 \/ i = row
    BY <1>1, <1>3
  <2>2. ~trouble => \A i \in 1 .. row - 1 :
                      batch[i] \in Range(stored) \cup Range(txn)
    BY <1>1 DEF IInv, Inserted
  <2>3. ~trouble => \A i \in 1 .. row' - 1 :
                      batch[i] \in Range(stored') \cup Range(txn')
    BY <1>13, <2>1, <2>2 DEF x
  <2> QED BY <1>1, <2>3 DEF Inserted, Range
<1>15. FirstIsLate' /\ OldRowsLeave'
  BY <1>1 DEF FirstIsLate, OldRowsLeave
<1>16. RowsKept'
  BY <1>1, <1>13 DEF IInv, RowsKept, Range
<1> QED
  BY <1>10, <1>11, <1>12, <1>14, <1>15, <1>16 DEF IInv

LEMMA StoreRowFailsKeepsInv ==
  ASSUME IInv, StoreRowFails PROVE IInv'
<1>1. /\ UNCHANGED <<extras, process, at, resume, batch, late, round_left,
                     next_row, start_row, round_first, stored, durable,
                     damage, backup, backup_damage>>
      /\ process = "running" /\ at = "rows" /\ row <= Len(batch)
      /\ row' = row + 1
  BY DEF StoreRowFails, FlushStep, file, saved, rounds
<1>2. /\ trouble' = TRUE
      /\ \/ in_txn' = in_txn /\ txn' = txn
         \/ in_txn' = FALSE /\ txn' = << >>
  BY Zenon DEF StoreRowFails, conn
<1>3. /\ Len(batch) <= BATCH_SIZE /\ Len(batch) \in Nat
      /\ row \in 1 .. BATCH_SIZE + 1 /\ BATCH_SIZE \in Nat
  BY DatabaseAssumption DEF IInv, TypeOK
<1>4. TypeOK'
  <2>1. ControlOK'
    BY <1>1, <1>2, Zenon DEF IInv, TypeOK, ControlOK
  <2>2. BatchOK'
    BY <1>1, <1>3 DEF IInv, TypeOK, BatchOK
  <2>3. RoundsOK'
    BY <1>1, Zenon DEF IInv, TypeOK, RoundsOK
  <2>4. << >> \in Seq(1 .. MaxRows)
    OBVIOUS
  <2>5. FileOK'
    BY <1>1, <1>2, <2>4, Zenon DEF IInv, TypeOK, FileOK
  <2> QED BY <2>1, <2>2, <2>3, <2>5, TypeParts
<1>5. FirstRow' \in Nat /\ FirstRow' >= FirstRow
  BY <1>1, <1>3 DEF FirstRow
<1>6. Ordered'
  BY <1>1, <1>2, <1>5, OrderStays, Zenon DEF IInv
<1>7. Places'
  BY <1>1, <1>3 DEF IInv, Places
<1>8. Inserted' /\ RowsKept'
  BY <1>2, Zenon DEF Inserted, RowsKept
<1>9. FirstIsLate' /\ OldRowsLeave'
  BY <1>1 DEF FirstIsLate, OldRowsLeave
<1> QED BY <1>4, <1>6, <1>7, <1>8, <1>9 DEF IInv

(* What the transaction holds may be put behind what is stored.            *)
LEMMA WithTxn ==
  ASSUME TypeOK, Ordered
  PROVE  /\ stored \o txn \in Seq(1 .. MaxRows)
         /\ Len(stored \o txn) \in Nat /\ Len(stored \o txn) >= Len(stored)
         /\ Sorted(stored \o txn) /\ Taken(stored \o txn) /\ Ahead(stored \o txn)
         /\ Range(stored \o txn) = Range(stored) \cup Range(txn)
         /\ IsPrefix(stored, stored \o txn)
<1> DEFINE c == stored \o txn
<1>1. /\ stored \in Seq(1 .. MaxRows) /\ txn \in Seq(1 .. MaxRows)
      /\ stored \in Seq(Nat) /\ txn \in Seq(Nat)
  BY NumberTypes DEF TypeOK
<1>2. /\ c \in Seq(1 .. MaxRows) /\ Len(c) = Len(stored) + Len(txn)
      /\ Len(stored) \in Nat /\ Len(txn) \in Nat
  BY <1>1
<1>3. Sorted(c)
  BY <1>1, ConcatSorted DEF Ordered
<1>4. Range(c) = Range(stored) \cup Range(txn)
  BY <1>1, RangeConcatenation
<1>5. IsPrefix(stored, c)
  BY <1>1, PrefixOfConcat
<1>6. \A i \in DOMAIN c :
        \/ i \in DOMAIN stored /\ c[i] = stored[i]
        \/ \E k \in DOMAIN txn : c[i] = txn[k]
  <2> SUFFICES ASSUME NEW i \in DOMAIN c
               PROVE  \/ i \in DOMAIN stored /\ c[i] = stored[i]
                      \/ \E k \in DOMAIN txn : c[i] = txn[k]
    OBVIOUS
  <2>1. CASE i <= Len(stored)
    BY <1>1, <2>1
  <2>2. CASE i > Len(stored)
    <3>1. i - Len(stored) \in DOMAIN txn /\ c[i] = txn[i - Len(stored)]
      BY <1>1, <2>2
    <3> QED BY <3>1
  <2> QED BY <1>1, <2>1, <2>2
<1> HIDE DEF c
<1>7. Taken(c) /\ Ahead(c)
  BY <1>6 DEF Ordered, Taken, Ahead
<1>8. Len(c) \in Nat /\ Len(c) >= Len(stored)
  BY <1>2
<1> QED BY <1>2, <1>3, <1>4, <1>5, <1>7, <1>8 DEF c

(* What the two ends of a flush have in common. *)
LEMMA FlushEnds ==
  ASSUME IInv, FlushReturns
  PROVE  /\ UNCHANGED <<extras, process, resume, row, round_left, next_row,
                        start_row, round_first>>
         /\ process = "running" /\ at = "rows" /\ row > Len(batch)
         /\ at' = resume /\ batch' = << >> /\ late' = FALSE
         /\ BatchOK' /\ RoundsOK'
         /\ Places' /\ Inserted' /\ FirstIsLate' /\ OldRowsLeave'
<1>1. /\ UNCHANGED <<extras, process, resume, row, round_left, next_row,
                     start_row, round_first>>
      /\ process = "running" /\ at = "rows" /\ row > Len(batch)
      /\ at' = resume /\ batch' = << >> /\ late' = FALSE
  BY DEF FlushReturns, FlushStep, rounds
<1>2. BatchOK' /\ RoundsOK'
  <2>1. << >> \in Seq(1 .. MaxRows) /\ Len(<< >>) = 0
    OBVIOUS
  <2> QED BY <1>1, <2>1, DatabaseAssumption DEF IInv, TypeOK, BatchOK, RoundsOK
<1>3. resume \in {"idle", "append"}
  BY DEF IInv, TypeOK
<1>4. resume = "append" => round_left > 0
  BY <1>1 DEF IInv, Places
<1>5. resume = "idle" => next_row > round_first
  BY <1>1, <1>3 DEF IInv, Places
<1>6. Places'
  BY <1>1, <1>3, <1>4 DEF Places
<1>7. Inserted' /\ OldRowsLeave'
  BY <1>1, <1>3 DEF Inserted, OldRowsLeave
<1>8. FirstIsLate'
  BY <1>1, <1>5, NumberTypes DEF IInv, FirstIsLate
<1> QED BY <1>1, <1>2, <1>6, <1>7, <1>8

(* While nothing failed, a COMMIT finds the whole batch in the transaction *)
(* or stored.                                                              *)
LEMMA CommitKeepsInv ==
  ASSUME IInv, Commit PROVE IInv'
<1>1. /\ FlushReturns
      /\ txn' = << >> /\ stored' = stored \o txn
      /\ UNCHANGED <<durable, damage, backup, backup_damage>>
  BY DEF Commit, saved
<1>2. in_txn' = FALSE /\ trouble' = (trouble \/ ~in_txn)
  BY Zenon DEF Commit
<1>3. trouble' \in BOOLEAN /\ (~trouble' => ~trouble)
  BY <1>2, Zenon DEF IInv, TypeOK
<1>4. /\ UNCHANGED <<extras, process, resume, row, round_left, next_row,
                     start_row, round_first>>
      /\ process = "running" /\ at = "rows" /\ row > Len(batch)
      /\ at' = resume /\ batch' = << >> /\ late' = FALSE
      /\ BatchOK' /\ RoundsOK' /\ Places'
      /\ Inserted' /\ FirstIsLate' /\ OldRowsLeave'
  BY <1>1, FlushEnds
<1>5. /\ stored' \in Seq(1 .. MaxRows)
      /\ Len(stored') \in Nat /\ Len(stored') >= Len(stored)
      /\ Sorted(stored') /\ Taken(stored')
      /\ Range(stored') = Range(stored) \cup Range(txn)
  BY <1>1, WithTxn DEF IInv
<1>6. TypeOK'
  <2>1. ControlOK'
    BY <1>1, <1>2, <1>3, <1>4, Zenon DEF IInv, TypeOK, ControlOK
  <2>2. FileOK'
    <3>1. << >> \in Seq(1 .. MaxRows)
      OBVIOUS
    <3> QED BY <1>1, <1>5, <3>1 DEF IInv, TypeOK, FileOK
  <2> QED BY <1>4, <2>1, <2>2, TypeParts
<1>7. Ordered'
  <2>1. Sorted(stored)' /\ Taken(stored)'
    BY <1>4, <1>5 DEF Sorted, Taken
  <2>2. (backup # NoLog => Sorted(backup) /\ Taken(backup))'
    BY <1>1, <1>4 DEF IInv, Ordered, Sorted, Taken
  <2>3. /\ Sorted(txn)' /\ Sorted(batch)' /\ Before(stored, txn)'
        /\ Ahead(stored)' /\ Ahead(txn)' /\ Taken(txn)' /\ Taken(batch)'
    BY <1>1, <1>4 DEF Sorted, Before, Ahead, Taken
  <2> QED BY <2>1, <2>2, <2>3 DEF Ordered
<1>8. RowsKept'
  <2> SUFFICES ASSUME ~trouble'
               PROVE  start_row .. next_row - 1 \subseteq Range(stored')
    BY <1>4 DEF RowsKept, Range
  <2>1. start_row .. next_row - 1
          \subseteq Range(stored) \cup Range(txn) \cup Range(batch)
    BY <1>3, <1>4 DEF IInv, RowsKept
  <2>2. \A i \in DOMAIN batch : i \in 1 .. row - 1
    <3>1. batch \in Seq(1 .. MaxRows) /\ row \in Nat
      BY NumberTypes DEF IInv, TypeOK
    <3> QED BY <1>4, <3>1
  <2>3. Range(batch) \subseteq Range(stored) \cup Range(txn)
    <3>1. \A i \in 1 .. row - 1 : batch[i] \in Range(stored) \cup Range(txn)
      BY <1>3, <1>4 DEF IInv, Inserted
    <3> QED BY <2>2, <3>1 DEF Range
  <2> QED BY <1>5, <2>1, <2>3
<1> QED BY <1>4, <1>6, <1>7, <1>8 DEF IInv

LEMMA CommitFailsKeepsInv ==
  ASSUME IInv, CommitFails PROVE IInv'
<1>1. FlushReturns /\ UNCHANGED <<stored, durable, damage, backup, backup_damage>>
  BY DEF CommitFails, file, saved
<1>2. /\ trouble' = TRUE
      /\ \/ in_txn' = in_txn /\ txn' = txn
         \/ in_txn' = FALSE /\ txn' = << >>
  BY Zenon DEF CommitFails, conn
<1>3. /\ UNCHANGED <<extras, process, resume, row, round_left, next_row,
                     start_row, round_first>>
      /\ process = "running" /\ at = "rows" /\ row > Len(batch)
      /\ at' = resume /\ batch' = << >> /\ late' = FALSE
      /\ BatchOK' /\ RoundsOK' /\ Places'
      /\ Inserted' /\ FirstIsLate' /\ OldRowsLeave'
  BY <1>1, FlushEnds
<1>4. TypeOK'
  <2>1. ControlOK'
    BY <1>1, <1>2, <1>3, Zenon DEF IInv, TypeOK, ControlOK
  <2>2. << >> \in Seq(1 .. MaxRows)
    OBVIOUS
  <2>3. FileOK'
    BY <1>1, <1>2, <2>2, Zenon DEF IInv, TypeOK, FileOK
  <2> QED BY <1>3, <2>1, <2>3, TypeParts
<1>5. Ordered'
  BY <1>1, <1>2, <1>3, OrderStays, Zenon DEF IInv
<1>6. RowsKept'
  BY <1>2, Zenon DEF RowsKept
<1> QED BY <1>3, <1>4, <1>5, <1>6 DEF IInv

-----------------------------------------------------------------------------
(* Backups, alarms, checkpoints. *)

LEMMA BackUpKeepsInv ==
  ASSUME IInv, BackUp PROVE IInv'
<1>1. /\ UNCHANGED <<extras, process, at, resume, batch, late, row,
                     round_left, next_row, start_row, round_first, in_txn,
                     txn, stored, durable, damage, trouble>>
      /\ backup' \in {stored, stored \o txn} /\ backup_damage' = damage
  BY DEF BackUp, code, conn, file, rounds
<1>2. /\ backup' \in Seq(1 .. MaxRows) /\ Sorted(backup') /\ Taken(backup')
  BY <1>1, WithTxn DEF IInv, Ordered, TypeOK
<1>3. TypeOK'
  <2>1. ControlOK' /\ BatchOK' /\ RoundsOK'
    BY <1>1, Zenon DEF IInv, TypeOK, ControlOK, BatchOK, RoundsOK
  <2>2. FileOK'
    BY <1>1, <1>2, Zenon DEF IInv, TypeOK, FileOK
  <2> QED BY <2>1, <2>2, TypeParts
<1>4. FirstRow' = FirstRow
  BY <1>1 DEF FirstRow
<1>5. Ordered'
  BY <1>1, <1>2, <1>4, Zenon DEF IInv, Ordered, Sorted, Taken, Before, Ahead
<1>6. Places' /\ Inserted' /\ FirstIsLate'
  BY <1>1 DEF IInv, Places, Inserted, FirstIsLate
<1>7. RowsKept' /\ OldRowsLeave'
  BY <1>1, Zenon DEF IInv, RowsKept, OldRowsLeave
<1> QED BY <1>3, <1>5, <1>6, <1>7 DEF IInv

LEMMA BackUpFailsKeepsInv ==
  ASSUME IInv, BackUpFails PROVE IInv'
<1>1. /\ UNCHANGED <<extras, process, at, resume, batch, late, row,
                     round_left, next_row, start_row, round_first, in_txn,
                     txn, stored, durable, damage, trouble>>
      /\ backup' = << >> /\ backup_damage' = "hidden"
  BY DEF BackUpFails, code, conn, file, rounds
<1>2. /\ backup' \in Seq(1 .. MaxRows) /\ Sorted(backup') /\ Taken(backup')
  BY <1>1 DEF Sorted, Taken
<1>3. TypeOK'
  <2>1. ControlOK' /\ BatchOK' /\ RoundsOK'
    BY <1>1, Zenon DEF IInv, TypeOK, ControlOK, BatchOK, RoundsOK, Damages
  <2>2. FileOK'
    BY <1>1, <1>2, Zenon DEF IInv, TypeOK, FileOK
  <2> QED BY <2>1, <2>2, TypeParts
<1>4. FirstRow' = FirstRow
  BY <1>1 DEF FirstRow
<1>5. Ordered'
  BY <1>1, <1>2, <1>4, Zenon DEF IInv, Ordered, Sorted, Taken, Before, Ahead
<1>6. Places' /\ Inserted' /\ FirstIsLate'
  BY <1>1 DEF IInv, Places, Inserted, FirstIsLate
<1>7. RowsKept' /\ OldRowsLeave'
  BY <1>1, Zenon DEF IInv, RowsKept, OldRowsLeave
<1> QED BY <1>3, <1>5, <1>6, <1>7 DEF IInv

(* A transaction that is left open holds what it held before. *)
LEMMA InsertAlarmFailsKeepsInv ==
  ASSUME IInv, InsertAlarmFails PROVE IInv'
<1>1. /\ UNCHANGED <<extras, process, at, resume, batch, late, row,
                     round_left, next_row, start_row, round_first, stored,
                     durable, damage, backup, backup_damage>>
      /\ process = "running" /\ at = "idle"
  BY DEF InsertAlarmFails, Extra, code, file, saved, rounds
<1>2. trouble' = TRUE
  BY Zenon DEF InsertAlarmFails
<1>3. \/ in_txn' = TRUE /\ txn' = txn
      \/ in_txn' = FALSE /\ txn' = << >>
  BY Zenon DEF InsertAlarmFails
<1>4. TypeOK'
  <2>1. ControlOK'
    BY <1>1, <1>2, <1>3, Zenon DEF IInv, TypeOK, ControlOK
  <2>2. BatchOK' /\ RoundsOK'
    BY <1>1, Zenon DEF IInv, TypeOK, BatchOK, RoundsOK
  <2>3. << >> \in Seq(1 .. MaxRows)
    OBVIOUS
  <2>4. FileOK'
    BY <1>1, <1>3, <2>3, Zenon DEF IInv, TypeOK, FileOK
  <2> QED BY <2>1, <2>2, <2>4, TypeParts
<1>5. FirstRow' = FirstRow /\ FirstRow \in Nat
  BY <1>1, NumberTypes DEF FirstRow, IInv
<1>6. Ordered'
  BY <1>1, <1>3, <1>5, OrderStays DEF IInv
<1>7. Places' /\ FirstIsLate' /\ OldRowsLeave'
  BY <1>1 DEF IInv, Places, FirstIsLate, OldRowsLeave
<1>8. Inserted' /\ RowsKept'
  BY <1>2, Zenon DEF Inserted, RowsKept
<1> QED BY <1>4, <1>6, <1>7, <1>8 DEF IInv

LEMMA InsertAlarmKeepsInv ==
  ASSUME IInv, InsertAlarm PROVE IInv'
<1>1. /\ UNCHANGED <<extras, process, at, resume, batch, late, row,
                     round_left, next_row, start_row, round_first, durable,
                     damage, backup, backup_damage>>
      /\ at = "idle" /\ txn' = << >> /\ stored' = stored \o txn
  BY DEF InsertAlarm, Extra, code, saved, rounds
<1>2. in_txn' = FALSE /\ trouble' = (trouble \/ in_txn)
  BY Zenon DEF InsertAlarm
<1>3. trouble' \in BOOLEAN /\ (~trouble' => ~trouble)
  BY <1>2, Zenon DEF IInv, TypeOK
<1>4. /\ stored' \in Seq(1 .. MaxRows)
      /\ Len(stored') \in Nat /\ Len(stored') >= Len(stored)
      /\ Sorted(stored') /\ Taken(stored') /\ Ahead(stored')
      /\ Range(stored') = Range(stored) \cup Range(txn)
  BY <1>1, WithTxn DEF IInv
<1>5. TypeOK'
  <2>1. ControlOK'
    BY <1>1, <1>2, <1>3, Zenon DEF IInv, TypeOK, ControlOK
  <2>2. BatchOK' /\ RoundsOK'
    BY <1>1, Zenon DEF IInv, TypeOK, BatchOK, RoundsOK
  <2>3. << >> \in Seq(1 .. MaxRows)
    OBVIOUS
  <2>4. FileOK'
    BY <1>1, <1>4, <2>3 DEF IInv, TypeOK, FileOK
  <2> QED BY <2>1, <2>2, <2>4, TypeParts
<1>6. FirstRow' = FirstRow
  BY <1>1 DEF FirstRow
<1>7. Ordered'
  <2>1. Sorted(stored)' /\ Taken(stored)'
    BY <1>1, <1>4 DEF Sorted, Taken
  <2>2. Ahead(stored)'
    BY <1>1, <1>4, <1>6 DEF Ahead
  <2>3. /\ Sorted(batch)' /\ Taken(batch)'
        /\ (backup # NoLog => Sorted(backup) /\ Taken(backup))'
    BY <1>1 DEF IInv, Ordered, Sorted, Taken
  <2>4. Sorted(txn)' /\ Before(stored, txn)' /\ Ahead(txn)' /\ Taken(txn)'
    BY <1>1 DEF Sorted, Before, Ahead, Taken
  <2> QED BY <2>1, <2>2, <2>3, <2>4 DEF Ordered
<1>8. Places'
  <2>1. process = "running"
    BY DEF InsertAlarm, Extra
  <2> QED BY <1>1, <2>1 DEF IInv, Places
<1>9. Inserted' /\ FirstIsLate' /\ OldRowsLeave'
  BY <1>1 DEF IInv, Inserted, FirstIsLate, OldRowsLeave
<1>10. RowsKept'
  <2>1. ~trouble /\ process = "running" => start_row .. next_row - 1
          \subseteq Range(stored) \cup Range(txn) \cup Range(batch)
    BY DEF IInv, RowsKept
  <2> QED BY <1>1, <1>3, <1>4, <2>1 DEF RowsKept, Range
<1> QED BY <1>5, <1>7, <1>8, <1>9, <1>10 DEF IInv

LEMMA CheckpointKeepsInv ==
  ASSUME IInv, Checkpoint PROVE IInv'
<1>1. /\ UNCHANGED <<extras, process, at, resume, batch, late, row,
                     round_left, next_row, start_row, round_first, in_txn,
                     txn, stored, damage, backup, backup_damage, trouble>>
      /\ durable' = Len(stored)
  BY DEF Checkpoint, code, conn, saved, rounds
<1>2. TypeOK'
  <2>1. ControlOK' /\ BatchOK' /\ RoundsOK'
    BY <1>1, Zenon DEF IInv, TypeOK, ControlOK, BatchOK, RoundsOK
  <2>2. FileOK'
    BY <1>1 DEF IInv, TypeOK, FileOK
  <2> QED BY <2>1, <2>2, TypeParts
<1>3. FirstRow' = FirstRow /\ FirstRow \in Nat
  BY <1>1, NumberTypes DEF FirstRow, IInv
<1>4. Ordered'
  BY <1>1, <1>3, OrderStays DEF IInv
<1>5. Places' /\ Inserted' /\ FirstIsLate'
  BY <1>1 DEF IInv, Places, Inserted, FirstIsLate
<1>6. RowsKept' /\ OldRowsLeave'
  BY <1>1, Zenon DEF IInv, RowsKept, OldRowsLeave
<1> QED BY <1>2, <1>4, <1>5, <1>6 DEF IInv

-----------------------------------------------------------------------------
(* Ends of the process. *)

(* Of what the process held nothing is left.                               *)
LEMMA GoneFacts ==
  ASSUME IInv, Gone, damage' \in Damages, backup_damage' \in Damages
  PROVE  /\ UNCHANGED <<extras, late, next_row, start_row, round_first>>
         /\ batch' = << >> /\ txn' = << >>
         /\ ControlOK' /\ BatchOK' /\ RoundsOK'
         /\ Places' /\ Inserted' /\ FirstIsLate'
         /\ RowsKept' /\ OldRowsLeave'
<1>1. /\ UNCHANGED <<extras, late, next_row, start_row, round_first, trouble>>
      /\ process' = "down" /\ at' = "idle" /\ resume' = "idle"
      /\ batch' = << >> /\ row' = 1 /\ round_left' = 0
      /\ in_txn' = FALSE /\ txn' = << >>
  BY Zenon DEF Gone
<1>2. ControlOK'
  BY <1>1, Zenon DEF IInv, TypeOK, ControlOK
<1>3. BatchOK' /\ RoundsOK'
  <2>1. << >> \in Seq(1 .. MaxRows) /\ Len(<< >>) = 0
    OBVIOUS
  <2> QED BY <1>1, <2>1, DatabaseAssumption DEF IInv, TypeOK, BatchOK, RoundsOK
<1>4. ~in_txn' /\ process' # "running" /\ process' # "opened"
  BY <1>1, Zenon
<1>5. Places' /\ Inserted' /\ FirstIsLate'
  <2>1. round_left' = 0 /\ at' = "idle" /\ batch' = << >> /\ txn' = << >>
    BY <1>1
  <2> QED BY <1>4, <2>1 DEF Places, Inserted, FirstIsLate
<1>6. RowsKept' /\ OldRowsLeave'
  <2>1. \A i \in DOMAIN batch' : batch'[i] >= round_first'
    <3>1. batch' = << >>
      BY <1>1
    <3> QED BY <3>1
  <2> QED BY <1>4, <2>1, Zenon DEF RowsKept, OldRowsLeave
<1> QED BY <1>1, <1>2, <1>3, <1>5, <1>6

LEMMA CrashKeepsInv ==
  ASSUME IInv, Crash PROVE IInv'
<1>1. Gone /\ UNCHANGED <<stored, durable, damage, backup, backup_damage>>
  BY DEF Crash, file, saved
<1>2. damage' \in Damages /\ backup_damage' \in Damages
  BY <1>1 DEF IInv, TypeOK
<1>3. /\ UNCHANGED <<extras, late, next_row, start_row, round_first>>
      /\ batch' = << >> /\ txn' = << >>
      /\ ControlOK' /\ BatchOK' /\ RoundsOK'
      /\ Places' /\ Inserted' /\ FirstIsLate'
      /\ RowsKept' /\ OldRowsLeave'
  BY <1>1, <1>2, GoneFacts
<1>4. FileOK'
  <2>1. << >> \in Seq(1 .. MaxRows)
    OBVIOUS
  <2> QED BY <1>1, <1>3, <2>1, Zenon DEF IInv, TypeOK, FileOK
<1>5. Ordered'
  BY <1>1, <1>3, OrderStays, Zenon DEF IInv
<1> QED BY <1>3, <1>4, <1>5, TypeParts DEF IInv

LEMMA CrashInBackupKeepsInv ==
  ASSUME IInv, CrashInBackup PROVE IInv'
<1>1. /\ Gone /\ UNCHANGED <<stored, durable, damage>>
      /\ backup' = << >> /\ backup_damage' \in Damages
  BY DEF CrashInBackup, file
<1>2. damage' \in Damages /\ backup_damage' \in Damages
  BY <1>1 DEF IInv, TypeOK, Damages
<1>3. /\ UNCHANGED <<extras, late, next_row, start_row, round_first>>
      /\ batch' = << >> /\ txn' = << >>
      /\ ControlOK' /\ BatchOK' /\ RoundsOK'
      /\ Places' /\ Inserted' /\ FirstIsLate'
      /\ RowsKept' /\ OldRowsLeave'
  BY <1>1, <1>2, GoneFacts
<1>4. FileOK'
  <2>1. << >> \in Seq(1 .. MaxRows)
    OBVIOUS
  <2> QED BY <1>1, <1>3, <2>1, Zenon DEF IInv, TypeOK, FileOK
<1>5. Ordered'
  BY <1>1, <1>3 DEF IInv, Ordered, Sorted, Taken, Before, Ahead
<1> QED BY <1>3, <1>4, <1>5, TypeParts DEF IInv

LEMMA PowerFailsKeepsInv ==
  ASSUME IInv, PowerFails PROVE IInv'
<1>1. /\ Gone /\ UNCHANGED <<durable, backup>>
      /\ damage' \in Worse(damage)
      /\ backup_damage' \in {"none"} \cup Worse(backup_damage)
  BY DEF PowerFails
<1>2. PICK n \in durable .. Len(stored) : stored' = SubSeq(stored, 1, n)
  BY DEF PowerFails
<1>3. damage' \in Damages /\ backup_damage' \in Damages
  BY <1>1 DEF IInv, TypeOK, Damages, Worse
<1>4. /\ UNCHANGED <<extras, late, next_row, start_row, round_first>>
      /\ batch' = << >> /\ txn' = << >>
      /\ ControlOK' /\ BatchOK' /\ RoundsOK'
      /\ Places' /\ Inserted' /\ FirstIsLate'
      /\ RowsKept' /\ OldRowsLeave'
  BY <1>1, <1>3, GoneFacts
<1>5. /\ stored \in Seq(1 .. MaxRows) /\ durable \in 0 .. Len(stored)
      /\ Len(stored) \in Nat /\ n \in 0 .. Len(stored)
  BY DEF IInv, TypeOK
<1>6. /\ stored' \in Seq(1 .. MaxRows) /\ Len(stored') = n
      /\ \A i \in 1 .. n : stored'[i] = stored[i]
  BY <1>2, <1>5, CutFacts
<1>7. \A i \in DOMAIN stored' : i \in DOMAIN stored /\ stored'[i] = stored[i]
  BY <1>5, <1>6
<1>8. FileOK'
  <2>1. << >> \in Seq(1 .. MaxRows)
    OBVIOUS
  <2>2. durable' \in 0 .. Len(stored')
    BY <1>1, <1>5, <1>6
  <2> QED BY <1>1, <1>4, <1>6, <2>1, <2>2, Zenon DEF IInv, TypeOK, FileOK
<1>9. Ordered'
  <2>1. Sorted(stored)' /\ Taken(stored)'
    BY <1>4, <1>7 DEF IInv, Ordered, Sorted, Taken
  <2>2. (backup # NoLog => Sorted(backup) /\ Taken(backup))'
    BY <1>1, <1>4 DEF IInv, Ordered, Sorted, Taken
  <2>3. /\ Sorted(txn)' /\ Sorted(batch)' /\ Before(stored, txn)'
        /\ Ahead(stored)' /\ Ahead(txn)' /\ Taken(txn)' /\ Taken(batch)'
    BY <1>4 DEF Sorted, Before, Ahead, Taken
  <2> QED BY <2>1, <2>2, <2>3 DEF Ordered
<1> QED BY <1>4, <1>8, <1>9, TypeParts DEF IInv

-----------------------------------------------------------------------------
(* Every step of the program keeps the invariant. *)
LEMMA NextKeepsInv == IInv /\ [Next]_vars => IInv'
<1> SUFFICES ASSUME IInv, [Next]_vars PROVE IInv'
  OBVIOUS
<1>1. CASE Main
  BY <1>1, OpenKeepsInv, CheckPassesKeepsInv, RestoreBackupKeepsInv,
     RepairFailsKeepsInv, Zenon DEF Main
<1>2. CASE Collector
  BY <1>2, RoundStartsKeepsInv, TimePassesKeepsInv, BatchFullKeepsInv,
     AppendRowKeepsInv, BeginKeepsInv, StoreRowKeepsInv,
     StoreRowFailsKeepsInv, CommitKeepsInv, CommitFailsKeepsInv, Zenon
  DEF Collector
<1>3. CASE BackUp \/ BackUpFails \/ Checkpoint
  BY <1>3, BackUpKeepsInv, BackUpFailsKeepsInv, CheckpointKeepsInv, Zenon
<1>6. CASE InsertAlarm \/ InsertAlarmFails
  BY <1>6, InsertAlarmKeepsInv, InsertAlarmFailsKeepsInv, Zenon
<1>4. CASE Crash \/ CrashInBackup \/ PowerFails
  BY <1>4, CrashKeepsInv, CrashInBackupKeepsInv, PowerFailsKeepsInv, Zenon
<1>5. CASE UNCHANGED vars
  <2>1. UNCHANGED <<extras, process, at, resume, batch, late, row,
                    round_left, next_row, start_row, round_first, in_txn,
                    txn, stored, durable, damage, backup, backup_damage,
                    trouble>>
    BY <1>5 DEF vars, code, conn, file, saved, rounds
  <2>2. FirstRow' = FirstRow
    BY <2>1 DEF FirstRow
  <2>3. TypeOK'
    BY <2>1, Zenon DEF IInv, TypeOK
  <2>4. Ordered'
    BY <2>1, <2>2, Zenon DEF IInv, Ordered, Sorted, Taken, Before, Ahead
  <2>5. Places' /\ Inserted' /\ FirstIsLate'
    BY <2>1, Zenon DEF IInv, Places, Inserted, FirstIsLate
  <2>6. RowsKept' /\ OldRowsLeave'
    BY <2>1, Zenon DEF IInv, RowsKept, OldRowsLeave
  <2> QED BY <2>3, <2>4, <2>5, <2>6 DEF IInv
<1> QED BY <1>1, <1>2, <1>3, <1>4, <1>5, <1>6, Zenon DEF Next

(* The types of the variables hold at every step; the batch never outgrows *)
(* its array, also when a flush fails.                                     *)
THEOREM DatabaseTypeOK == Spec => []TypeOK
<1>1. IInv => TypeOK
  BY DEF IInv
<1> QED BY <1>1, InitInv, NextKeepsInv, PTL DEF Spec

(* While no call of SQLite has failed and the file is not damaged, a       *)
(* sample that was taken is in the file, the transaction or the batch,     *)
(* whatever the timing of the rounds.                                      *)
THEOREM DatabaseNothingLost == Spec => []NothingLostWithoutTrouble
<1>1. IInv => NothingLostWithoutTrouble
  BY DEF IInv, RowsKept, NothingLostWithoutTrouble
<1> QED BY <1>1, InitInv, NextKeepsInv, PTL DEF Spec

(* No sample outstays the next round that delivers any.                    *)
THEOREM DatabaseOldRowsLeave == Spec => []OldRowsLeave
<1>1. IInv => OldRowsLeave
  BY DEF IInv
<1> QED BY <1>1, InitInv, NextKeepsInv, PTL DEF Spec

(* Whoever opens a file or a backup that is not damaged finds samples in   *)
(* the order in which they were taken and none of them twice, whatever     *)
(* failed before.                                                          *)
THEOREM DatabaseFileInOrder ==
  Spec => [](/\ damage = "none" => Log!InOrder(stored)
             /\ backup # NoLog /\ backup_damage = "none" =>
                  Log!InOrder(backup))
<1>1. IInv => /\ Log!InOrder(stored)
              /\ backup # NoLog => Log!InOrder(backup)
  BY DEF IInv, Ordered, Sorted, Log!InOrder
<1> QED BY <1>1, InitInv, NextKeepsInv, PTL DEF Spec

-----------------------------------------------------------------------------
(* The file is a log of samples. *)

LEMMA SamePrefix ==
  \A s, t : Log!IsPrefix(s, t) <=> IsPrefix(s, t)
BY DEF IsPrefix, Log!IsPrefix

LEMMA RowsAreALog ==
  ASSUME NEW s \in Seq(1 .. MaxRows)
  PROVE  s # NoLog /\ s # Garbled
<1>1. 1 .. MaxRows \subseteq Nat
  BY DatabaseAssumption
<1>2. s \in Seq(Nat)
  BY <1>1, SeqMonotonic, Zenon
<1> QED BY <1>2, DatabaseAssumption

(* What the reader sees of a file and of a backup that keep their damage.  *)
LEMMA FileSeen ==
  /\ damage = "none" => LogStored = stored /\ LogDurable = durable
  /\ damage # "none" => LogStored = Garbled /\ LogDurable = 0
  /\ damage' = "none" => LogStored' = stored' /\ LogDurable' = durable'
  /\ damage' # "none" => LogStored' = Garbled /\ LogDurable' = 0
BY DEF LogStored, LogDurable

LEMMA BackupSeen ==
  /\ backup = NoLog => LogBackup = NoLog
  /\ backup # NoLog /\ backup_damage = "none" => LogBackup = backup
  /\ backup # NoLog /\ backup_damage # "none" => LogBackup = Garbled
  /\ backup' = NoLog => LogBackup' = NoLog
  /\ backup' # NoLog /\ backup_damage' = "none" => LogBackup' = backup'
  /\ backup' # NoLog /\ backup_damage' # "none" => LogBackup' = Garbled
BY DEF LogBackup

(* What is committed grows by rows that come after it.                     *)
LEMMA GrowthIsGrow ==
  ASSUME IInv, IInv', IsPrefix(stored, stored'),
         UNCHANGED <<durable, damage, backup, backup_damage>>
  PROVE  [Log!Next]_(Log!logvars)
<1>1. LogBackup' = LogBackup
  BY DEF LogBackup
<1>2. CASE damage = "none"
  <2>1. stored # Garbled /\ stored' # Garbled
    BY RowsAreALog DEF IInv, TypeOK
  <2>2. \A i, j \in DOMAIN stored' : i < j => stored'[i] < stored'[j]
    BY DEF IInv, Ordered, Sorted
  <2>3. Log!Grow
    BY <1>1, <1>2, <2>1, <2>2, FileSeen, SamePrefix DEF Log!Grow, Log!InOrder
  <2> QED BY <2>3, Zenon DEF Log!Next
<1>3. CASE damage # "none"
  BY <1>1, <1>3, FileSeen DEF Log!logvars
<1> QED BY <1>2, <1>3

(* Every step is one of the log, or none that its reader could see.        *)
LEMMA StepRefines ==
  ASSUME IInv, IInv', Next PROVE [Log!Next]_(Log!logvars)
<1>1. /\ stored \in Seq(1 .. MaxRows) /\ txn \in Seq(1 .. MaxRows)
      /\ batch \in Seq(1 .. MaxRows)
      /\ durable \in 0 .. Len(stored) /\ Len(stored) \in Nat
  BY DEF IInv, TypeOK
<1>2. /\ stored # Garbled /\ stored' # Garbled
      /\ backup # NoLog => backup # Garbled
  BY RowsAreALog DEF IInv, TypeOK
<1>3. CASE UNCHANGED <<stored, durable, damage, backup, backup_damage>>
  BY <1>3 DEF LogStored, LogDurable, LogBackup, Log!logvars
<1>4. CASE RestoreBackup
  <2>1. /\ backup # NoLog /\ stored' = backup /\ durable' = Len(backup)
        /\ damage' \in Worse(backup_damage) /\ backup' = NoLog
    BY <1>4 DEF RestoreBackup
  <2>2. LogBackup' = NoLog /\ LogBackup # NoLog
    BY <1>2, <2>1, BackupSeen, DatabaseAssumption
  <2>3. CASE damage' = "none"
    <3>1. backup_damage = "none"
      BY <2>1, <2>3 DEF Worse
    <3>2. LogBackup = backup
      BY <2>1, <3>1, BackupSeen
    <3>3. Log!Restore
      BY <1>2, <2>1, <2>2, <2>3, <3>2, FileSeen DEF Log!Restore
    <3> QED BY <3>3, Zenon DEF Log!Next
  <2>4. CASE damage' # "none"
    <3>1. Log!RestoreGarbled
      BY <2>2, <2>4, FileSeen DEF Log!RestoreGarbled
    <3> QED BY <3>1, Zenon DEF Log!Next
  <2> QED BY <2>3, <2>4
<1>5. CASE Commit \/ InsertAlarm
  <2>1. /\ stored' = stored \o txn
        /\ UNCHANGED <<durable, damage, backup, backup_damage>>
    BY <1>5 DEF Commit, InsertAlarm, saved
  <2>2. IsPrefix(stored, stored')
    BY <2>1, WithTxn DEF IInv
  <2> QED BY <2>1, <2>2, GrowthIsGrow
<1>6. CASE StoreRow
  <2>1. UNCHANGED <<durable, damage, backup, backup_damage>>
    BY <1>6 DEF StoreRow, saved
  <2>2. CASE stored' = stored
    BY <1>3, <2>1, <2>2
  <2>3. CASE stored' = Append(stored, batch[row])
    <3>1. batch[row] \in 1 .. MaxRows
      <4>1. row <= Len(batch) /\ row \in Nat /\ row >= 1
        BY <1>6, DatabaseAssumption DEF StoreRow, IInv, TypeOK
      <4>2. row \in 1 .. Len(batch)
        BY <1>1, <4>1
      <4> QED BY <1>1, <4>2, ElementOfSeq, Zenon
    <3>2. IsPrefix(stored, stored')
      BY <1>1, <2>3, <3>1, PrefixOfAppend
    <3> QED BY <2>1, <3>2, GrowthIsGrow
  <2>4. stored' = stored \/ stored' = Append(stored, batch[row])
    BY <1>6, Zenon DEF StoreRow
  <2> QED BY <2>2, <2>3, <2>4
<1>7. CASE BackUp
  <2>1. /\ UNCHANGED <<stored, durable, damage>>
        /\ backup' \in {stored, stored \o txn} /\ backup_damage' = damage
    BY <1>7 DEF BackUp, file
  <2>2. IsPrefix(stored, stored)
    <3>1. << >> \in Seq(1 .. MaxRows) /\ stored \o << >> = stored
      BY <1>1
    <3> QED BY <1>1, <3>1, PrefixOfConcat
  <2>3. /\ IsPrefix(stored, backup') /\ backup' \in Seq(1 .. MaxRows)
        /\ Sorted(backup')
    BY <1>1, <2>1, <2>2, WithTxn DEF IInv, Ordered
  <2>4. backup' # NoLog /\ backup' # Garbled
    BY <2>3, RowsAreALog
  <2>5. LogStored' = LogStored /\ LogDurable' = LogDurable
    BY <2>1 DEF LogStored, LogDurable
  <2>6. CASE damage = "none"
    <3>1. LogStored = stored /\ LogBackup' = backup'
      BY <2>1, <2>4, <2>6, FileSeen, BackupSeen
    <3>2. Log!BackUp
      BY <1>2, <2>3, <2>4, <2>5, <3>1, SamePrefix
      DEF Sorted, Log!BackUp, Log!InOrder
    <3> QED BY <3>2, Zenon DEF Log!Next
  <2>7. CASE damage # "none"
    <3>1. LogBackup' = Garbled
      BY <2>1, <2>4, <2>7, BackupSeen
    <3> QED BY <2>5, <3>1 DEF Log!Next, Log!SpoilBackup
  <2> QED BY <2>6, <2>7
<1>8. CASE BackUpFails \/ CrashInBackup
  <2>1. /\ UNCHANGED <<stored, durable, damage>>
        /\ backup' = << >> /\ backup_damage' # "none"
    BY <1>8 DEF BackUpFails, CrashInBackup, file
  <2>2. backup' # NoLog
    <3>1. << >> \in Seq(1 .. MaxRows)
      OBVIOUS
    <3> QED BY <2>1, <3>1, RowsAreALog
  <2>3. LogBackup' = Garbled
    BY <2>1, <2>2, BackupSeen
  <2>4. LogStored' = LogStored /\ LogDurable' = LogDurable
    BY <2>1 DEF LogStored, LogDurable
  <2> QED BY <2>3, <2>4 DEF Log!Next, Log!SpoilBackup
<1>9. CASE Checkpoint
  <2>1. UNCHANGED <<stored, damage, backup, backup_damage>>
    BY <1>9 DEF Checkpoint, saved
  <2>2. CASE damage = "none"
    <3>1. durable' = Len(stored)
      BY <1>9 DEF Checkpoint
    <3>2. LogBackup' = LogBackup
      BY <2>1 DEF LogBackup
    <3> QED BY <1>2, <2>1, <2>2, <3>1, <3>2, FileSeen DEF Log!Next, Log!Sync
  <2>3. CASE damage # "none"
    BY <2>1, <2>3 DEF LogStored, LogDurable, LogBackup, Log!logvars
  <2> QED BY <2>2, <2>3
<1>10. CASE PowerFails
  <2>1. PICK n \in durable .. Len(stored) : stored' = SubSeq(stored, 1, n)
    BY <1>10 DEF PowerFails
  <2>2. n \in 0 .. Len(stored) /\ n >= durable
    BY <1>1
  <2>3. IsPrefix(stored', stored) /\ Len(stored') >= durable
    BY <1>1, <2>1, <2>2, CutFacts
  <2>4. /\ durable' = durable /\ backup' = backup
        /\ damage' \in Worse(damage)
        /\ backup # NoLog => backup_damage' \in Worse(backup_damage)
    BY <1>10 DEF PowerFails
  <2>5. LogBackup' \in Log!Spoiled(LogBackup)
    <3>1. CASE backup = NoLog
      BY <2>4, <3>1, BackupSeen DEF Log!Spoiled
    <3>2. CASE backup # NoLog /\ backup_damage' # "none"
      <4>1. LogBackup' = Garbled /\ LogBackup # NoLog
        BY <2>4, <3>2, BackupSeen, DatabaseAssumption
      <4> QED BY <4>1 DEF Log!Spoiled
    <3>3. CASE backup # NoLog /\ backup_damage' = "none"
      <4>1. backup_damage = "none"
        BY <2>4, <3>3 DEF Worse
      <4>2. LogBackup' = LogBackup
        BY <2>4, <3>3, <4>1, BackupSeen
      <4> QED BY <4>2 DEF Log!Spoiled
    <3> QED BY <3>1, <3>2, <3>3
  <2>6. CASE damage' = "none"
    <3>1. damage = "none"
      BY <2>4, <2>6 DEF Worse
    <3>2. Log!CutShort
      BY <1>2, <2>3, <2>4, <2>5, <2>6, <3>1, FileSeen, SamePrefix
      DEF Log!CutShort
    <3> QED BY <3>2, Zenon DEF Log!Next
  <2>7. CASE damage' # "none"
    <3>1. Log!Spoil
      BY <2>5, <2>7, FileSeen DEF Log!Spoil
    <3> QED BY <3>1, Zenon DEF Log!Next
  <2> QED BY <2>6, <2>7
<1>11. CASE \/ Open \/ CheckPasses \/ RepairFails \/ RoundStarts \/ TimePasses
            \/ BatchFull \/ AppendRow \/ Begin \/ BeginFails
            \/ StoreRowFails \/ CommitFails \/ InsertAlarmFails \/ Crash
  <2>1. UNCHANGED <<stored, durable, damage, backup, backup_damage>>
    BY <1>11 DEF Open, CheckPasses, RepairFails, RoundStarts, TimePasses,
                 BatchFull, AppendRow, Begin, BeginFails, StoreRowFails,
                 CommitFails, InsertAlarmFails, Crash, file, saved
  <2> QED BY <1>3, <2>1
<1> QED
  BY <1>4, <1>5, <1>6, <1>7, <1>8, <1>9, <1>10, <1>11, Zenon
  DEF Next, Main, Collector

(* The database file is a log of samples in the order in which they were   *)
(* taken, through failed inserts and commits, transactions left open,      *)
(* crashes, power failures and restored backups, as long as it is not      *)
(* damaged and again from the restore of an undamaged backup.              *)
THEOREM DatabaseImplementsLog == Spec => ImplementsLog
<1>1. Init => Log!Init
  BY DEF Init, LogStored, LogDurable, LogBackup, Log!Init
<1>2. IInv /\ IInv' /\ [Next]_vars => [Log!Next]_(Log!logvars)
  <2>1. UNCHANGED vars => UNCHANGED Log!logvars
    BY DEF vars, file, saved, LogStored, LogDurable, LogBackup, Log!logvars
  <2> QED BY <2>1, StepRefines, Zenon
<1> QED
  BY <1>1, <1>2, InitInv, NextKeepsInv, PTL DEF Spec, ImplementsLog, Log!Spec

=============================================================================
