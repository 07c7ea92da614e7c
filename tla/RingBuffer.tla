---------------------------- MODULE RingBuffer -----------------------------
(***************************************************************************)
(* The single-producer, single-consumer ring of app/core/ring_buffer.c,    *)
(* driven by the two threads of app/core/ring_buffer_test.c: the producer  *)
(* writes the items 0, 1, 2, ... and the consumer expects them in order.   *)
(*                                                                         *)
(* Each atomic access of an index is a step.  The two indices are 32-bit   *)
(* and wrap at Modulus.  The structure copy into and out of a slot is not  *)
(* atomic: its two halves (the two fields the test compares) are copied in *)
(* any order, and the other thread can run in between, so that a race on a *)
(* slot shows up as a torn item.                                           *)
(***************************************************************************)
EXTENDS Naturals, Sequences

CONSTANTS
  Capacity,   (* slots, a power of two in the code: mask is Capacity - 1   *)
  Modulus,    (* where the indices wrap: 2^32                              *)
  TestCount,  (* items the producer writes: TEST_COUNT                     *)
  MaxLead,    (* bound: the producer is never further ahead than this      *)
  Lost, None  (* of module Fifo                                            *)

VARIABLES
  write_idx, read_idx,
  buffer,       (* the slots                                               *)
  writer,       (* where the producer is in ring_buffer_write              *)
  wcopied,      (* the fields it has copied                                *)
  reader,       (* where the consumer is in ring_buffer_read               *)
  rcopied,
  data,         (* what the consumer has copied out                        *)
  written,      (* ghost: items written, which is also the next item       *)
  taken,        (* ghost: items read, which is also the one expected next  *)
  lapped        (* ghost: the producer has overwritten an unread slot      *)

wvars == <<write_idx, writer, wcopied, written>>
rvars == <<read_idx, reader, rcopied, data, taken>>
vars  == <<wvars, rvars, buffer, lapped>>

Fields == {"timestamp_ns", "value"}

(* malloc leaves the slots uninitialised. *)
NoItem == TestCount

Items == 0 .. TestCount

(* A power of two above one divides 2^32; nobody gets 2^32 items ahead.    *)
ASSUME RingAssumption ==
  /\ Capacity \in Nat /\ Capacity > 1
  /\ Modulus \in Nat /\ \E k \in 1 .. Modulus : Modulus = k * Capacity
  /\ TestCount \in Nat
  /\ MaxLead \in Nat /\ MaxLead >= Capacity /\ MaxLead < Modulus
  /\ Lost \notin Seq([Fields -> Items]) /\ None \notin [Fields -> Items]

mask == Capacity - 1

(* x & mask *)
Masked(x) == x % Capacity

(* Variant: an index that does not wrap. *)
IncWide(x) == x + 1

(* The store of an index plus one, in its width. *)
Inc(x) == (x + 1) % Modulus

Lead == written - taken

-----------------------------------------------------------------------------
Init ==
  /\ write_idx = 0 /\ read_idx = 0
  /\ buffer = [s \in 0 .. mask |-> [f \in Fields |-> NoItem]]
  /\ writer = "start" /\ wcopied = {}
  /\ reader = "start" /\ rcopied = {}
  /\ data = [f \in Fields |-> NoItem]
  /\ written = 0 /\ taken = 0
  /\ lapped = FALSE

-----------------------------------------------------------------------------
(* ring_buffer_write *)

(* Variant: also refuses one free slot too early. *)
FullEarly ==
  \/ Masked(write_idx + 1) = read_idx
  \/ Masked(write_idx + 2) = read_idx

(* Variant: lets the last free slot be used too. *)
FullLate == Masked(write_idx) = read_idx /\ write_idx # read_idx

(* The test for a full buffer compares a masked index with one that is     *)
(* not masked: w + 1 wraps at Modulus before the mask, which changes       *)
(* nothing as Capacity divides Modulus.                                    *)
Full == Masked(write_idx + 1) = read_idx

(* The producer's own index cannot change under it; read_idx is loaded and *)
(* the result decided at once.                                             *)
WriteRefused ==
  /\ writer = "start" /\ written < TestCount
  /\ Full
  /\ writer' = "asleep"
  /\ UNCHANGED <<write_idx, wcopied, written, rvars, buffer, lapped>>

WriterWakes ==
  /\ writer = "asleep"
  /\ writer' = "start"
  /\ UNCHANGED <<write_idx, wcopied, written, rvars, buffer, lapped>>

WriteBegins ==
  /\ writer = "start" /\ written < TestCount
  /\ Lead < MaxLead
  /\ ~Full
  /\ writer' = "copy"
  /\ wcopied' = {}
  /\ UNCHANGED <<write_idx, written, rvars, buffer, lapped>>

WriteCopies(f) ==
  /\ writer = "copy" /\ f \notin wcopied
  /\ wcopied' = wcopied \cup {f}
  /\ buffer' = [buffer EXCEPT ![Masked(write_idx)][f] = written]
  /\ lapped' = (lapped \/ Lead >= Capacity)
  /\ UNCHANGED <<write_idx, writer, written, rvars>>

(* Variant: publishes the slot before the copy is complete. *)
WritePublishesEarly ==
  /\ writer = "copy" /\ wcopied # {}
  /\ write_idx' = Inc(write_idx)
  /\ written' = written + 1
  /\ writer' = "start"
  /\ wcopied' = {}
  /\ UNCHANGED <<rvars, buffer, lapped>>

WritePublishes ==
  /\ writer = "copy" /\ wcopied = Fields
  /\ write_idx' = Inc(write_idx)
  /\ written' = written + 1
  /\ writer' = "start"
  /\ wcopied' = {}
  /\ UNCHANGED <<rvars, buffer, lapped>>

-----------------------------------------------------------------------------
(* ring_buffer_read *)

(* Variant: compares the slots, not the indices. *)
EmptyMasked == Masked(read_idx) = Masked(write_idx)

Empty == read_idx = write_idx

ReadRefused ==
  /\ reader = "start" /\ taken < TestCount
  /\ Empty
  /\ reader' = "asleep"
  /\ UNCHANGED <<read_idx, rcopied, data, taken, wvars, buffer, lapped>>

ReaderWakes ==
  /\ reader = "asleep"
  /\ reader' = "start"
  /\ UNCHANGED <<read_idx, rcopied, data, taken, wvars, buffer, lapped>>

ReadBegins ==
  /\ reader = "start" /\ taken < TestCount
  /\ ~Empty
  /\ reader' = "copy"
  /\ rcopied' = {}
  /\ UNCHANGED <<read_idx, data, taken, wvars, buffer, lapped>>

ReadCopies(f) ==
  /\ reader = "copy" /\ f \notin rcopied
  /\ rcopied' = rcopied \cup {f}
  /\ data' = [data EXCEPT ![f] = buffer[Masked(read_idx)][f]]
  /\ UNCHANGED <<read_idx, reader, taken, wvars, buffer, lapped>>

ReadPublishes ==
  /\ reader = "copy" /\ rcopied = Fields
  /\ read_idx' = Inc(read_idx)
  /\ taken' = taken + 1
  /\ reader' = "start"
  /\ rcopied' = {}
  /\ UNCHANGED <<data, wvars, buffer, lapped>>

-----------------------------------------------------------------------------
Producer ==
  \/ WriteRefused \/ WriterWakes \/ WriteBegins \/ WritePublishes
  \/ \E f \in Fields : WriteCopies(f)

Consumer ==
  \/ ReadRefused \/ ReaderWakes \/ ReadBegins \/ ReadPublishes
  \/ \E f \in Fields : ReadCopies(f)

Next == Producer \/ Consumer

(* Both are plain threads that sleep a microsecond and try again. *)
Spec == Init /\ [][Next]_vars /\ WF_vars(Producer) /\ WF_vars(Consumer)

-----------------------------------------------------------------------------
(* The types of the variables. *)
TypeOK ==
  /\ write_idx \in 0 .. Modulus - 1
  /\ read_idx \in 0 .. Modulus - 1
  /\ buffer \in [0 .. mask -> [Fields -> Items]]
  /\ writer \in {"start", "asleep", "copy"} /\ wcopied \subseteq Fields
  /\ reader \in {"start", "asleep", "copy"} /\ rcopied \subseteq Fields
  /\ data \in [Fields -> Items]
  /\ written \in Items /\ taken \in Items
  /\ lapped \in BOOLEAN

(* What the consumer is about to return is the item it expects, whole. *)
Expected == [f \in Fields |-> taken]
ReadIsRight == reader = "copy" /\ rcopied = Fields => data = Expected

(* As long as the producer has never lapped the consumer, every item       *)
(* arrives, once, in order and not torn, and no uninitialised slot is      *)
(* read, through any number of laps and wraps of the indices.              *)
LosslessUnlessLapped == ~lapped => ReadIsRight

(* Stronger: until it is lapped the ring is a queue with room for Capacity *)
(* items (module Fifo).  Its items are what the slots between the indices  *)
(* hold, and looking and taking are the two halves of ring_buffer_read.    *)
Unread  == (write_idx + Modulus - read_idx) % Modulus
Waiting == [i \in 1 .. Unread |-> buffer[Masked(read_idx + (i - 1))]]
InHand  == reader = "copy" /\ rcopied = Fields

Queue == INSTANCE Fifo WITH
  Room  <- Capacity,
  queue <- IF lapped THEN Lost ELSE Waiting,
  hand  <- IF InHand /\ ~lapped THEN data ELSE None,
  sent  <- written

ImplementsFifo == Queue!Spec

(* During the first lap of the consumer the full test does its work: the   *)
(* buffer never holds more than mask items and no slot is overwritten.     *)
FirstLapIsBounded == taken < Capacity => Lead <= mask /\ ~lapped

(* A refusal is never false: the producer is turned away only when at      *)
(* least mask items are waiting, the consumer only when none is.           *)
RefusalsAreHonest ==
  /\ writer = "start" /\ Full => Lead >= mask
  /\ reader = "start" /\ Empty => Lead = 0

(* Both loops of the test end: neither thread waits for the other for      *)
(* ever, whatever lap and wrap the indices are in.                         *)
TestEnds == <>(written = TestCount /\ taken = TestCount)

(* "100% reliable, zero data loss" (ring_buffer_test.c). *)
ZeroDataLoss == ReadIsRight

=============================================================================
