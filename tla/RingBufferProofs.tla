------------------------- MODULE RingBufferProofs --------------------------
(***************************************************************************)
(* The safety properties of RingBuffer, for every capacity, every index    *)
(* width the capacity divides, and any number of items.                    *)
(***************************************************************************)
EXTENDS RingBuffer, SequenceTheorems, TLAPS

-----------------------------------------------------------------------------
(* Remainders. *)

(* Division with remainder, in the form the lemmas below use. *)
LEMMA DivMod ==
  ASSUME NEW n \in Nat, NEW d \in Nat \ {0}
  PROVE  \E q \in Nat : n = q * d + (n % d) /\ n % d \in 0 .. d - 1
<1>1. n \div d \in Nat /\ n % d \in 0 .. d - 1
  OBVIOUS
<1>2. n = (n \div d) * d + (n % d)
  OBVIOUS
<1> QED BY <1>1, <1>2

(* A remainder is determined by any such decomposition. *)
LEMMA ModUnique ==
  ASSUME NEW d \in Nat \ {0}, NEW q \in Nat, NEW r \in 0 .. d - 1
  PROVE  (q * d + r) % d = r
<1> DEFINE n == q * d + r
<1>1. n \in Nat
  OBVIOUS
<1> HIDE DEF n
<1>2. PICK k \in Nat : n = k * d + (n % d) /\ n % d \in 0 .. d - 1
  BY <1>1, DivMod
<1>3. n = q * d + r
  BY DEF n
<1>4. CASE k = q
  BY <1>2, <1>3, <1>4 DEF n
<1>5. CASE k > q
  <2>1. k * d >= q * d + d
    BY <1>5
  <2> QED BY <1>2, <1>3, <2>1
<1>6. CASE k < q
  <2>1. q * d >= k * d + d
    BY <1>6
  <2> QED BY <1>2, <1>3, <2>1
<1> QED BY <1>4, <1>5, <1>6

-----------------------------------------------------------------------------
(* Arithmetic of positions and slots. *)

(* Positions less than d apart are in different slots. *)
LEMMA ModDistinct ==
  ASSUME NEW d \in Nat \ {0}, NEW a \in Nat, NEW b \in Nat,
         a < b, b < a + d
  PROVE  a % d # b % d
<1>1. PICK p \in Nat : a = p * d + (a % d) /\ a % d \in 0 .. d - 1
  BY DivMod
<1>2. PICK q \in Nat : b = q * d + (b % d) /\ b % d \in 0 .. d - 1
  BY DivMod
<1>3. SUFFICES ASSUME a % d = b % d PROVE FALSE
  OBVIOUS
<1>4. q * d > p * d /\ q * d < p * d + d
  BY <1>1, <1>2, <1>3
<1>5. CASE q <= p
  <2>1. q * d <= p * d
    BY <1>5
  <2> QED BY <1>4, <2>1
<1>6. CASE q > p
  <2>1. q * d >= p * d + d
    BY <1>6
  <2> QED BY <1>4, <2>1
<1> QED BY <1>5, <1>6

(* What the assumption on the constants gives. *)
LEMMA Sizes ==
  /\ Capacity \in Nat \ {0} /\ Capacity > 1
  /\ Modulus \in Nat \ {0}
  /\ Capacity <= MaxLead /\ MaxLead < Modulus
  /\ TestCount \in Nat /\ MaxLead \in Nat
  /\ \E k \in Nat : Modulus = k * Capacity
<1>1. PICK k \in 1 .. Modulus : Modulus = k * Capacity
  BY RingAssumption
<1>2. k \in Nat
  BY <1>1, RingAssumption
<1>3. \E l \in Nat : Modulus = l * Capacity
  BY <1>1, <1>2
<1> QED BY <1>3, RingAssumption

(* The mask does not see the wrap of an index, nor how far beyond it goes. *)
LEMMA MaskOfSum ==
  ASSUME NEW n \in Nat, NEW i \in Nat
  PROVE  ((n % Modulus) + i) % Capacity = (n + i) % Capacity
<1>1. PICK k \in Nat : Modulus = k * Capacity
  BY Sizes
<1>2. PICK q \in Nat : n = q * Modulus + (n % Modulus)
                       /\ n % Modulus \in 0 .. Modulus - 1
  BY DivMod, Sizes
<1> DEFINE m == (n % Modulus) + i
<1>3. m \in Nat
  BY <1>2, Sizes
<1>4. n + i = q * Modulus + m
  BY <1>2, Sizes
<1> HIDE DEF m
<1>5. PICK p \in Nat : m = p * Capacity + (m % Capacity)
                       /\ m % Capacity \in 0 .. Capacity - 1
  BY <1>3, DivMod, Sizes
<1> DEFINE r == m % Capacity
<1>6. r \in 0 .. Capacity - 1 /\ m = p * Capacity + r
  BY <1>5
<1> HIDE DEF r
<1>7. q * Modulus = (q * k) * Capacity
  BY <1>1, Sizes
<1>8. (q * k + p) * Capacity = (q * k) * Capacity + p * Capacity
      /\ q * k + p \in Nat
  BY Sizes
<1>9. n + i = (q * k + p) * Capacity + r
  BY <1>4, <1>6, <1>7, <1>8, Sizes
<1>10. Capacity \in Nat \ {0}
  BY Sizes
<1>11. ((q * k + p) * Capacity + r) % Capacity = r
  BY <1>6, <1>8, <1>10, ModUnique, Zenon
<1>12. (n + i) % Capacity = r
  BY <1>9, <1>11, Zenon
<1> QED BY <1>12, Zenon DEF r, m

(* So the slot of an index is the slot of its position ... *)
LEMMA MaskOfIndex ==
  ASSUME NEW n \in Nat
  PROVE  Masked(n % Modulus) = Masked(n)
<1>1. n % Modulus \in Nat
  BY Sizes
<1>2. ((n % Modulus) + 0) % Capacity = (n + 0) % Capacity
  BY MaskOfSum
<1>3. (n % Modulus) + 0 = n % Modulus /\ n + 0 = n
  BY <1>1
<1> QED BY <1>2, <1>3 DEF Masked

(* ... and the full test may mask w + 1 before or after the wrap. *)
LEMMA MaskOfNext ==
  ASSUME NEW n \in Nat
  PROVE  Masked((n % Modulus) + 1) = Masked(n + 1)
BY MaskOfSum DEF Masked

(* Inc moves an index from one position to the next. *)
LEMMA IncOfIndex ==
  ASSUME NEW n \in Nat
  PROVE  Inc(n % Modulus) = (n + 1) % Modulus
<1>1. PICK q \in Nat : n = q * Modulus + (n % Modulus)
                       /\ n % Modulus \in 0 .. Modulus - 1
  BY DivMod, Sizes
<1> DEFINE m == n % Modulus
<1>2. m \in 0 .. Modulus - 1 /\ n = q * Modulus + m
  BY <1>1
<1>3. Inc(m) = (m + 1) % Modulus
  BY DEF Inc
<1> HIDE DEF m
<1>6. Modulus \in Nat \ {0}
  BY Sizes
<1>7. q \in Nat /\ q + 1 \in Nat /\ 0 \in Nat /\ 1 \in Nat
  OBVIOUS
<1>4. CASE m + 1 < Modulus
  <2>1. n + 1 = q * Modulus + (m + 1) /\ m + 1 \in 0 .. Modulus - 1
    BY <1>2, <1>4, Sizes
  <2>2. (q * Modulus + (m + 1)) % Modulus = m + 1
    BY <1>6, <1>7, <2>1, ModUnique, Zenon
  <2>3. (0 * Modulus + (m + 1)) % Modulus = m + 1
    BY <1>6, <1>7, <2>1, ModUnique, Zenon
  <2>4. 0 * Modulus + (m + 1) = m + 1
    BY <2>1, Sizes
  <2>5. Inc(m) = m + 1
    BY <1>3, <2>3, <2>4, Zenon
  <2> QED BY <2>1, <2>2, <2>5, Zenon DEF m
<1>5. CASE m + 1 = Modulus
  <2>1. n + 1 = (q + 1) * Modulus + 0 /\ 0 \in 0 .. Modulus - 1
    BY <1>2, <1>5, Sizes
  <2>2. ((q + 1) * Modulus + 0) % Modulus = 0
    BY <1>6, <1>7, <2>1, ModUnique, Zenon
  <2>3. (1 * Modulus + 0) % Modulus = 0
    BY <1>6, <1>7, <2>1, ModUnique, Zenon
  <2>4. 1 * Modulus + 0 = m + 1
    BY <1>5, Sizes
  <2>5. Inc(m) = 0
    BY <1>3, <2>3, <2>4, Zenon
  <2> QED BY <2>1, <2>2, <2>5, Zenon DEF m
<1> QED BY <1>2, <1>4, <1>5, Sizes

(* A position's index and slot are in range. *)
LEMMA Ranges ==
  ASSUME NEW n \in Nat
  PROVE  n % Modulus \in 0 .. Modulus - 1 /\ Masked(n) \in 0 .. mask
BY Sizes DEF Masked, mask

(* In the first lap a position is its own index and its own slot. *)
LEMMA FirstLap ==
  ASSUME NEW n \in Nat, n < Capacity
  PROVE  n % Modulus = n /\ Masked(n) = n /\ Masked(n + Capacity) = n
<1>1. n \in 0 .. Modulus - 1 /\ n \in 0 .. Capacity - 1
  BY Sizes
<1>2. /\ Modulus \in Nat \ {0} /\ Capacity \in Nat \ {0}
      /\ 0 \in Nat /\ 1 \in Nat
  BY Sizes
<1>3. /\ (0 * Modulus + n) % Modulus = n
      /\ (0 * Capacity + n) % Capacity = n
      /\ (1 * Capacity + n) % Capacity = n
  BY <1>1, <1>2, ModUnique, Zenon
<1>4. /\ 0 * Modulus + n = n
      /\ 0 * Capacity + n = n
      /\ 1 * Capacity + n = n + Capacity
  BY Sizes
<1> QED BY <1>3, <1>4, Zenon DEF Masked

-----------------------------------------------------------------------------
(* Indices are positions modulo Modulus, and the consumer is never ahead.  *)
Positions ==
  /\ write_idx = written % Modulus
  /\ read_idx = taken % Modulus
  /\ taken <= written /\ Lead <= MaxLead
  /\ reader = "copy" => taken < written
  /\ writer = "copy" => Lead < MaxLead /\ written < TestCount

(* What an unlapped buffer holds: every unread item in its slot, the       *)
(* fields copied so far of the item being written, and those copied out of *)
(* the one being read.                                                     *)
Contents ==
  ~lapped =>
    /\ Lead <= Capacity
    /\ wcopied # {} => Lead < Capacity
    /\ \A i \in Items : taken <= i /\ i < written =>
         \A f \in Fields : buffer[Masked(i)][f] = i
    /\ \A f \in wcopied : buffer[Masked(written)][f] = written
    /\ reader = "copy" => \A f \in rcopied : data[f] = taken

(* The first lap of the consumer. *)
FirstLapInv ==
  taken < Capacity =>
    /\ Lead <= mask /\ ~lapped
    /\ writer = "copy" => Lead < mask

Pcs ==
  /\ writer # "copy" => wcopied = {}
  /\ reader # "copy" => rcopied = {}

IInv == TypeOK /\ Positions /\ Pcs /\ Contents /\ FirstLapInv

(* The invariant holds in the initial state. *)
LEMMA InitInv == Init => IInv
<1> SUFFICES ASSUME Init PROVE IInv
  OBVIOUS
<1>1. 0 % Modulus = 0
  BY FirstLap, Sizes
<1>2. TypeOK
  <2>1. 0 \in 0 .. Modulus - 1 /\ 0 \in Items /\ NoItem \in Items
    BY Sizes DEF Items, NoItem
  <2>2. buffer \in [0 .. mask -> [Fields -> Items]]
        /\ data \in [Fields -> Items]
    BY <2>1 DEF Init
  <2> QED BY <2>1, <2>2 DEF Init, TypeOK
<1>3. Positions
  BY <1>1, Sizes DEF Init, Positions, Lead
<1>4. Pcs /\ Contents /\ FirstLapInv
  BY Sizes DEF Init, Pcs, Contents, FirstLapInv, Lead, mask, Items
<1> QED BY <1>2, <1>3, <1>4 DEF IInv

(* Steps that move nothing but a program counter. *)
LEMMA WaitKeepsInv ==
  ASSUME IInv, WriteRefused \/ WriterWakes \/ ReadRefused \/ ReaderWakes
  PROVE  IInv'
<1> USE DEF wvars, rvars, IInv
<1>1. TypeOK'
  BY DEF WriteRefused, WriterWakes, ReadRefused, ReaderWakes, TypeOK
<1>2. Positions'
  BY DEF WriteRefused, WriterWakes, ReadRefused, ReaderWakes, Positions, Lead
<1>3. Pcs'
  BY DEF WriteRefused, WriterWakes, ReadRefused, ReaderWakes, Pcs
<1>4. Contents'
  BY DEF WriteRefused, WriterWakes, ReadRefused, ReaderWakes, Contents, Lead
<1>5. FirstLapInv'
  BY DEF WriteRefused, WriterWakes, ReadRefused, ReaderWakes, FirstLapInv,
         Lead
<1> QED BY <1>1, <1>2, <1>3, <1>4, <1>5

(* A write is let in: here the full test protects the first lap. *)
LEMMA WriteBeginsKeepsInv == IInv /\ WriteBegins => IInv'
<1> SUFFICES ASSUME IInv, WriteBegins PROVE IInv'
  OBVIOUS
<1> USE DEF rvars, IInv
<1>1. TypeOK'
  BY DEF WriteBegins, TypeOK
<1>2. Positions'
  BY DEF WriteBegins, Positions, Lead
<1>3. Pcs'
  BY DEF WriteBegins, Pcs
<1>4. Contents'
  BY DEF WriteBegins, Contents, Lead
<1>5. FirstLapInv'
  <2> SUFFICES ASSUME taken < Capacity PROVE Lead < mask
    BY DEF WriteBegins, FirstLapInv, Lead
  <2>1. taken \in Nat /\ written \in Nat /\ Lead <= mask
    BY Sizes DEF TypeOK, Items, FirstLapInv
  <2>2. read_idx = taken
    BY <2>1, FirstLap DEF Positions
  <2>3. Masked(write_idx + 1) = Masked(written + 1)
    BY <2>1, MaskOfNext DEF Positions
  <2>4. Masked(written + 1) # taken
    BY <2>2, <2>3 DEF WriteBegins, Full
  <2>5. Masked(taken + Capacity) = taken
    BY <2>1, FirstLap
  <2>6. written + 1 # taken + Capacity
    BY <2>4, <2>5
  <2> QED BY <2>1, <2>6, Sizes DEF Lead, mask
<1> QED BY <1>1, <1>2, <1>3, <1>4, <1>5

(* A field is copied in: unread items of an unlapped buffer are in other   *)
(* slots.                                                                  *)
LEMMA WriteCopiesKeepsInv ==
  ASSUME IInv, NEW f \in Fields, WriteCopies(f)
  PROVE  IInv'
<1> USE DEF rvars, IInv
<1>0. written \in Nat /\ taken \in Nat /\ taken <= written
  BY Sizes DEF TypeOK, Items, Positions
<1>1. Masked(written) \in 0 .. mask /\ Masked(write_idx) = Masked(written)
  BY <1>0, Ranges, MaskOfIndex DEF Positions
<1>2. buffer' = [buffer EXCEPT ![Masked(written)][f] = written]
  BY <1>0, <1>1 DEF WriteCopies
<1>3. TypeOK'
  BY <1>0, <1>1, <1>2 DEF WriteCopies, TypeOK
<1>4. Positions'
  BY DEF WriteCopies, Positions, Lead
<1>5. Pcs'
  BY DEF WriteCopies, Pcs
<1>6. Contents'
  <2> SUFFICES ASSUME ~lapped' PROVE Contents'
    BY DEF Contents
  <2>1. ~lapped /\ Lead < Capacity /\ Lead' = Lead
    <3>1. Lead \in Nat /\ Lead' = Lead
      BY <1>0 DEF WriteCopies, Lead
    <3>2. ~lapped /\ ~(Lead >= Capacity)
      BY DEF WriteCopies
    <3> QED BY <3>1, <3>2, Sizes
  <2>2. ASSUME NEW i \in Items, taken <= i, i < written, NEW g \in Fields
        PROVE  buffer'[Masked(i)][g] = i
    <3>1. i \in Nat /\ written < i + Capacity
      BY <1>0, <1>1, <2>1, <2>2, Sizes DEF Lead, Items
    <3>2. Masked(i) # Masked(written)
      BY <1>0, <1>1, <2>2, <3>1, ModDistinct, Sizes DEF Masked
    <3>3. Masked(i) \in 0 .. mask
      BY <3>1, Ranges
    <3>4. buffer'[Masked(i)] = buffer[Masked(i)]
      BY <1>0, <1>1, <1>2, <3>2, <3>3 DEF TypeOK
    <3> QED BY <2>1, <2>2, <3>4 DEF Contents
  <2>3. ASSUME NEW g \in wcopied'
        PROVE  buffer'[Masked(written)][g] = written
    <3>1. g = f \/ g \in wcopied
      BY <2>3 DEF WriteCopies
    <3>2. g \in Fields
      BY <3>1 DEF TypeOK
    <3>3. buffer[Masked(written)] \in [Fields -> Items]
      BY <1>0, <1>1 DEF TypeOK
    <3>4. buffer'[Masked(written)] = [buffer[Masked(written)] EXCEPT ![f] = written]
      BY <1>0, <1>1, <1>2 DEF TypeOK
    <3> QED BY <2>1, <3>1, <3>2, <3>3, <3>4 DEF Contents
  <2> QED BY <2>1, <2>2, <2>3 DEF Contents, WriteCopies
<1>7. FirstLapInv'
  <2> SUFFICES ASSUME taken < Capacity PROVE FirstLapInv'
    BY DEF FirstLapInv, WriteCopies
  <2>1. Lead' = Lead /\ Lead \in Nat
    BY <1>0 DEF WriteCopies, Lead
  <2>2. Lead <= mask /\ ~lapped /\ Lead < mask
    BY DEF FirstLapInv, WriteCopies
  <2>3. ~(Lead >= Capacity)
    BY <2>1, <2>2, Sizes DEF mask
  <2> QED BY <2>1, <2>2, <2>3 DEF FirstLapInv, WriteCopies
<1> QED BY <1>3, <1>4, <1>5, <1>6, <1>7

(* The item is published: it is now one of the unread items. *)
LEMMA WritePublishesKeepsInv == IInv /\ WritePublishes => IInv'
<1> SUFFICES ASSUME IInv, WritePublishes PROVE IInv'
  OBVIOUS
<1> USE DEF rvars, IInv
<1>1. written \in Nat /\ taken \in Nat /\ taken <= written
      /\ written < TestCount /\ Lead < MaxLead
  BY Sizes DEF TypeOK, Items, Positions, WritePublishes
<1>2. write_idx' = (written + 1) % Modulus /\ write_idx' \in 0 .. Modulus - 1
  BY <1>1, IncOfIndex, Ranges DEF Positions, WritePublishes
<1>3. TypeOK'
  BY <1>1, <1>2, Sizes DEF WritePublishes, TypeOK, Items
<1>4. Positions'
  BY <1>1, <1>2, Sizes DEF WritePublishes, Positions, Lead
<1>5. Pcs'
  BY DEF WritePublishes, Pcs
<1>6. Contents'
  <2> SUFFICES ASSUME ~lapped PROVE Contents'
    BY DEF Contents, WritePublishes
  <2>1. Lead < Capacity /\ Lead' <= Capacity
    BY <1>1, Sizes DEF Contents, WritePublishes, Fields, Lead
  <2>2. ASSUME NEW i \in Items, taken <= i, i < written + 1, NEW f \in Fields
        PROVE  buffer[Masked(i)][f] = i
    <3>1. CASE i = written
      BY <3>1, <2>2 DEF Contents, WritePublishes
    <3>2. CASE i < written
      BY <3>2, <2>2 DEF Contents
    <3> QED BY <1>1, <2>2, <3>1, <3>2, Sizes DEF Items
  <2> QED BY <2>1, <2>2 DEF Contents, WritePublishes
<1>7. FirstLapInv'
  BY <1>1, Sizes DEF WritePublishes, FirstLapInv, Lead, mask
<1> QED BY <1>3, <1>4, <1>5, <1>6, <1>7

(* A read is let in only when an item is there: indices that agree modulo  *)
(* Modulus agree.                                                          *)
LEMMA EmptyMeansNone ==
  ASSUME IInv
  PROVE  Empty <=> written = taken
<1>1. written \in Nat /\ taken \in Nat /\ taken <= written
      /\ written < taken + Modulus
  BY Sizes DEF IInv, TypeOK, Items, Positions, Lead
<1>2. taken < written => taken % Modulus # written % Modulus
  BY <1>1, ModDistinct, Sizes
<1> QED BY <1>1, <1>2 DEF Empty, IInv, Positions

LEMMA ReadBeginsKeepsInv == IInv /\ ReadBegins => IInv'
<1> SUFFICES ASSUME IInv, ReadBegins PROVE IInv'
  OBVIOUS
<1>1. written # taken
  BY EmptyMeansNone DEF ReadBegins
<1> USE DEF wvars, IInv
<1>2. TypeOK' /\ Pcs'
  BY DEF ReadBegins, TypeOK, Pcs
<1>3. Positions'
  BY <1>1, Sizes DEF ReadBegins, Positions, Lead, TypeOK, Items
<1>4. Contents' /\ FirstLapInv'
  BY DEF ReadBegins, Contents, FirstLapInv, Lead
<1> QED BY <1>2, <1>3, <1>4

(* A field is copied out of the slot of the oldest unread item. *)
LEMMA ReadCopiesKeepsInv ==
  ASSUME IInv, NEW f \in Fields, ReadCopies(f)
  PROVE  IInv'
<1> USE DEF wvars, IInv
<1>0. written \in Nat /\ taken \in Items /\ taken \in Nat /\ taken < written
  BY Sizes DEF TypeOK, Items, Positions, ReadCopies
<1>1. Masked(taken) \in 0 .. mask /\ Masked(read_idx) = Masked(taken)
  BY <1>0, Ranges, MaskOfIndex DEF Positions
<1>2. data' = [data EXCEPT ![f] = buffer[Masked(taken)][f]]
  BY <1>0, <1>1 DEF ReadCopies
<1>3. TypeOK'
  <2>1. buffer[Masked(taken)][f] \in Items
    BY <1>0, <1>1 DEF TypeOK
  <2> QED BY <1>2, <2>1 DEF ReadCopies, TypeOK
<1>4. Positions' /\ Pcs' /\ FirstLapInv'
  BY DEF ReadCopies, Positions, Pcs, FirstLapInv, Lead
<1>5. Contents'
  <2> SUFFICES ASSUME ~lapped PROVE Contents'
    BY DEF Contents, ReadCopies
  <2>1. buffer[Masked(taken)][f] = taken
    BY <1>0, <1>1 DEF Contents
  <2>2. ASSUME NEW g \in rcopied' PROVE data'[g] = taken
    BY <1>2, <2>1, <2>2 DEF Contents, ReadCopies, TypeOK
  <2> QED BY <2>2 DEF Contents, ReadCopies, Lead
<1> QED BY <1>3, <1>4, <1>5

(* The item is taken. *)
LEMMA ReadPublishesKeepsInv == IInv /\ ReadPublishes => IInv'
<1> SUFFICES ASSUME IInv, ReadPublishes PROVE IInv'
  OBVIOUS
<1> USE DEF wvars, IInv
<1>1. written \in Nat /\ taken \in Nat /\ taken < written
      /\ written \in Items
  BY Sizes DEF TypeOK, Items, Positions, ReadPublishes
<1>2. read_idx' = (taken + 1) % Modulus /\ read_idx' \in 0 .. Modulus - 1
  BY <1>1, IncOfIndex, Ranges DEF Positions, ReadPublishes
<1>3. TypeOK'
  BY <1>1, <1>2, Sizes DEF ReadPublishes, TypeOK, Items
<1>4. Positions'
  BY <1>1, <1>2, Sizes DEF ReadPublishes, Positions, Lead
<1>5. Pcs'
  BY DEF ReadPublishes, Pcs
<1>6. Contents'
  BY <1>1, Sizes DEF ReadPublishes, Contents, Lead, Items
<1>7. FirstLapInv'
  BY <1>1, Sizes DEF ReadPublishes, FirstLapInv, Lead, mask
<1> QED BY <1>3, <1>4, <1>5, <1>6, <1>7

(* The invariant is inductive. *)
LEMMA NextKeepsInv == IInv /\ [Next]_vars => IInv'
<1> SUFFICES ASSUME IInv, [Next]_vars PROVE IInv'
  OBVIOUS
<1>1. CASE Producer
  BY <1>1, WaitKeepsInv, WriteBeginsKeepsInv, WriteCopiesKeepsInv,
     WritePublishesKeepsInv DEF Producer
<1>2. CASE Consumer
  BY <1>2, WaitKeepsInv, ReadBeginsKeepsInv, ReadCopiesKeepsInv,
     ReadPublishesKeepsInv DEF Consumer
<1>3. CASE UNCHANGED vars
  BY <1>3 DEF vars, wvars, rvars, IInv, TypeOK, Positions, Pcs, Contents,
              FirstLapInv, Lead
<1> QED BY <1>1, <1>2, <1>3 DEF Next

-----------------------------------------------------------------------------
(* The variables stay in their types; the indices in their width. *)
THEOREM RingTypeOK == Spec => []TypeOK
<1>1. IInv => TypeOK
  BY DEF IInv
<1> QED BY <1>1, InitInv, NextKeepsInv, PTL DEF Spec

(* Unless the producer laps the consumer nothing is lost, reordered or     *)
(* torn, for every capacity, index width and number of items.              *)
THEOREM RingLosslessUnlessLapped == Spec => []LosslessUnlessLapped
<1>1. IInv => LosslessUnlessLapped
  <2> SUFFICES ASSUME IInv, ~lapped, reader = "copy", rcopied = Fields
               PROVE  data = Expected
    BY DEF LosslessUnlessLapped, ReadIsRight
  <2>1. \A f \in Fields : data[f] = taken
    BY DEF IInv, Contents
  <2>2. data \in [Fields -> Items]
    BY DEF IInv, TypeOK
  <2> QED BY <2>1, <2>2 DEF Expected
<1> QED BY <1>1, InitInv, NextKeepsInv, PTL DEF Spec

(* The full test protects the consumer's first lap. *)
THEOREM RingFirstLapIsBounded == Spec => []FirstLapIsBounded
<1>1. IInv => FirstLapIsBounded
  BY DEF IInv, FirstLapInv, FirstLapIsBounded
<1> QED BY <1>1, InitInv, NextKeepsInv, PTL DEF Spec

(* The full test never turns a writer away falsely, even after the wrap of *)
(* the indices, where it compares unlike things.                           *)
LEMMA FullMeansFull ==
  ASSUME IInv, Full
  PROVE  Lead >= mask
<1>1. written \in Nat /\ taken \in Nat /\ taken <= written
  BY Sizes DEF IInv, TypeOK, Items, Positions
<1>2. Masked(written + 1) = taken % Modulus
  BY <1>1, MaskOfNext DEF IInv, Positions, Full
<1>3. taken % Modulus = Masked(taken)
  <2>1. Masked(written + 1) \in 0 .. mask
    BY <1>1, Ranges
  <2>2. taken % Modulus \in Nat /\ taken % Modulus < Capacity
    BY <1>2, <2>1, Sizes DEF mask
  <2>3. Masked(taken % Modulus) = taken % Modulus
    BY <2>2, FirstLap
  <2> QED BY <1>1, <2>3, MaskOfIndex
<1>4. SUFFICES ASSUME ~(Lead >= mask) PROVE FALSE
  OBVIOUS
<1>5. written + 1 \in Nat /\ taken < written + 1
      /\ written + 1 < taken + Capacity
  BY <1>1, <1>4, Sizes DEF Lead, mask
<1>6. taken % Capacity # (written + 1) % Capacity
  BY <1>1, <1>5, ModDistinct, Sizes
<1> QED BY <1>2, <1>3, <1>6 DEF Masked

(* Neither side is ever turned away without reason. *)
THEOREM RingRefusalsAreHonest == Spec => []RefusalsAreHonest
<1>1. IInv => RefusalsAreHonest
  <2> SUFFICES ASSUME IInv PROVE RefusalsAreHonest
    OBVIOUS
  <2>1. Empty => Lead = 0
    BY EmptyMeansNone, Sizes DEF IInv, TypeOK, Items, Lead
  <2> QED BY <2>1, FullMeansFull DEF RefusalsAreHonest
<1> QED BY <1>1, InitInv, NextKeepsInv, PTL DEF Spec

-----------------------------------------------------------------------------
(* The refinement: until it is lapped the ring is module Fifo's queue. *)

(* The difference of the indices, in their width, is that of the counts.   *)
LEMMA UnreadIsLead ==
  ASSUME IInv
  PROVE  Unread = Lead
<1>1. /\ written \in Nat /\ taken \in Nat /\ taken <= written
      /\ written < taken + Modulus /\ Lead \in 0 .. Modulus - 1
  BY Sizes DEF IInv, TypeOK, Items, Positions, Lead
<1>2. PICK a \in Nat : written = a * Modulus + (written % Modulus)
                       /\ written % Modulus \in 0 .. Modulus - 1
  BY <1>1, DivMod, Sizes
<1>3. PICK b \in Nat : taken = b * Modulus + (taken % Modulus)
                       /\ taken % Modulus \in 0 .. Modulus - 1
  BY <1>1, DivMod, Sizes
<1>4. write_idx = written % Modulus /\ read_idx = taken % Modulus
  BY DEF IInv, Positions
<1>5. /\ Lead = written - taken
      /\ written = a * Modulus + write_idx /\ write_idx \in 0 .. Modulus - 1
      /\ taken = b * Modulus + read_idx /\ read_idx \in 0 .. Modulus - 1
  BY <1>2, <1>3, <1>4, Zenon DEF Lead
<1>6. /\ Modulus \in Nat \ {0} /\ Lead \in 0 .. Modulus - 1
      /\ 0 \in Nat /\ 1 \in Nat
  BY <1>1, Sizes
<1>7. CASE a = b
  <2>1. write_idx + Modulus - read_idx = 1 * Modulus + Lead
    BY <1>5, <1>6, <1>7
  <2>2. (1 * Modulus + Lead) % Modulus = Lead
    BY <1>6, ModUnique, Zenon
  <2> QED BY <2>1, <2>2, Zenon DEF Unread
<1>8. CASE a = b + 1
  <2>1. a * Modulus = b * Modulus + Modulus
    BY <1>8, <1>6
  <2>2. write_idx + Modulus - read_idx = 0 * Modulus + Lead
    BY <1>5, <1>6, <2>1
  <2>3. (0 * Modulus + Lead) % Modulus = Lead
    BY <1>6, ModUnique, Zenon
  <2> QED BY <2>2, <2>3, Zenon DEF Unread
<1>9. CASE a < b
  <2>1. b * Modulus >= a * Modulus + Modulus
    BY <1>6, <1>9
  <2> QED BY <1>5, <1>6, <2>1
<1>10. CASE a > b + 1
  <2>1. a * Modulus >= b * Modulus + Modulus + Modulus
    BY <1>6, <1>10
  <2> QED BY <1>5, <1>6, <2>1
<1> QED BY <1>7, <1>8, <1>9, <1>10

(* So the slots between the indices hold the unread items, in order.       *)
Held == [i \in 1 .. Lead |-> Queue!Item(taken + (i - 1))]

LEMMA WaitingIsHeld ==
  ASSUME IInv, ~lapped
  PROVE  Waiting = Held
<1>1. /\ written \in Items /\ taken \in Nat /\ taken <= written
      /\ written \in Nat /\ Lead = written - taken
  BY Sizes DEF IInv, TypeOK, Items, Positions, Lead
<1>2. ASSUME NEW i \in 1 .. Lead
      PROVE  buffer[Masked(read_idx + (i - 1))] = Queue!Item(taken + (i - 1))
  <2>1. i - 1 \in Nat /\ taken + (i - 1) \in Nat
        /\ taken + (i - 1) \in Items /\ taken + (i - 1) < written
        /\ taken <= taken + (i - 1)
    BY <1>1, Sizes DEF Items
  <2>2. Masked(read_idx + (i - 1)) = Masked(taken + (i - 1))
    BY <1>1, <2>1, MaskOfSum DEF Masked, IInv, Positions
  <2>3. Masked(taken + (i - 1)) \in 0 .. mask
    BY <2>1, Ranges
  <2>4. buffer[Masked(taken + (i - 1))] \in [Fields -> Items]
    BY <2>3 DEF IInv, TypeOK
  <2>5. \A f \in Fields :
          buffer[Masked(taken + (i - 1))][f] = taken + (i - 1)
    BY <2>1 DEF IInv, Contents
  <2> QED BY <2>2, <2>4, <2>5 DEF Queue!Item
<1> QED BY <1>2, UnreadIsLead DEF Waiting, Held

(* Facts about that queue. *)
LEMMA HeldIsQueue ==
  ASSUME IInv
  PROVE  /\ Lead \in Nat
         /\ Held \in Seq([Fields -> Items]) /\ Len(Held) = Lead
         /\ Held # Lost
<1>1. /\ written \in Items /\ taken \in Nat /\ taken <= written
      /\ written \in Nat /\ Lead = written - taken /\ Lead \in Nat
  BY Sizes DEF IInv, TypeOK, Items, Positions, Lead
<1>2. ASSUME NEW i \in 1 .. Lead
      PROVE  Queue!Item(taken + (i - 1)) \in [Fields -> Items]
  BY <1>1, Sizes DEF Items, Queue!Item
<1>3. Held \in Seq([Fields -> Items]) /\ Len(Held) = Lead
  BY <1>1, <1>2 DEF Held
<1> QED BY <1>1, <1>3, RingAssumption

(* While nothing moves the queue stays. *)
LEMMA HeldStays ==
  ASSUME written' = written, taken' = taken
  PROVE  Held' = Held /\ Lead' = Lead
BY DEF Held, Lead, Queue!Item

(* The abstract variables. *)
aqueue == IF lapped THEN Lost ELSE Waiting
ahand  == IF InHand /\ ~lapped THEN data ELSE None

QueueIsHeld == aqueue = IF lapped THEN Lost ELSE Held

LEMMA AbstractQueue == IInv => QueueIsHeld
BY WaitingIsHeld DEF aqueue, QueueIsHeld

(* What the consumer has copied completely is the head of the queue. *)
HandIsHead ==
  ~lapped /\ InHand => data = Head(Held) /\ Held # << >> /\ data # None

LEMMA AbstractHand == IInv => HandIsHead
<1> SUFFICES ASSUME IInv, ~lapped, InHand
             PROVE  data = Head(Held) /\ Held # << >> /\ data # None
  BY DEF HandIsHead
<1>1. written \in Nat /\ taken \in Nat /\ taken < written /\ taken \in Items
  BY Sizes DEF IInv, TypeOK, Items, Positions, InHand
<1>2. data \in [Fields -> Items] /\ \A f \in Fields : data[f] = taken
  BY DEF IInv, TypeOK, Contents, InHand
<1>3. data = Queue!Item(taken)
  BY <1>2 DEF Queue!Item
<1>4. 1 \in 1 .. Lead /\ taken + (1 - 1) = taken
  BY <1>1 DEF Lead
<1>5. Held[1] = Queue!Item(taken)
  BY <1>4 DEF Held
<1>6. Len(Held) = Lead /\ Held \in Seq([Fields -> Items])
  BY HeldIsQueue
<1> QED BY <1>2, <1>3, <1>4, <1>5, <1>6, RingAssumption

(* What the invariant says of the abstract variables. *)
Mapping == QueueIsHeld /\ HandIsHead

(* Steps after the ring was lapped, and the step that laps it. *)
LEMMA LappedStep ==
  ASSUME IInv, [Next]_vars, lapped'
  PROVE  Queue!Overrun
<1>1. aqueue' = Lost /\ ahand' = None
  BY DEF aqueue, ahand
<1>2. CASE lapped
  <2>1. aqueue = Lost
    BY <1>2 DEF aqueue
  <2> QED BY <1>1, <2>1 DEF Queue!Overrun, aqueue, ahand
<1>3. CASE ~lapped
  <2>1. PICK f \in Fields : WriteCopies(f)
    BY <1>3 DEF Next, Producer, Consumer, WriteRefused, WriterWakes,
       WriteBegins, WritePublishes, ReadRefused, ReaderWakes, ReadBegins,
       ReadCopies, ReadPublishes, vars
  <2>2. Lead >= Capacity /\ Lead <= Capacity
    BY <1>3, <2>1 DEF WriteCopies, IInv, Contents
  <2>3. Len(Held) = Lead /\ Lead \in Nat
    BY HeldIsQueue
  <2>4. Lead = Capacity
    BY <2>2, <2>3, Sizes
  <2>5. aqueue = Held
    BY <1>3, AbstractQueue DEF QueueIsHeld
  <2>6. Len(aqueue) = Capacity
    BY <2>3, <2>4, <2>5
  <2> QED BY <1>1, <2>6 DEF Queue!Overrun, aqueue, ahand
<1> QED BY <1>2, <1>3

(* Publishing a slot puts its item at the end of the queue. *)
LEMMA PublishedIsPut ==
  ASSUME IInv, Mapping, Mapping', WritePublishes, ~lapped
  PROVE  Queue!Put
<1>1. /\ written \in Nat /\ taken \in Nat /\ taken <= written
      /\ written' = written + 1 /\ taken' = taken /\ ~lapped'
      /\ Lead = written - taken /\ Lead' = Lead + 1 /\ Lead \in Nat
  BY Sizes DEF IInv, TypeOK, Items, Positions, Lead, WritePublishes, rvars
<1>2. Lead < Capacity
  BY DEF IInv, Contents, WritePublishes, Fields
<1>3. aqueue = Held /\ aqueue' = Held'
  BY <1>1 DEF Mapping, QueueIsHeld
<1>4. Len(Held) = Lead /\ Held # Lost /\ Held \in Seq([Fields -> Items])
  BY HeldIsQueue
<1>5. Held' = [i \in 1 .. (Lead + 1) |-> Queue!Item(taken + (i - 1))]
  BY <1>1 DEF Held, Queue!Item
<1>6. Append(Held, Queue!Item(written))
        = [i \in 1 .. (Lead + 1) |-> Queue!Item(taken + (i - 1))]
  BY <1>1, <1>4 DEF Held
<1>7. ahand' = ahand
  BY <1>1 DEF ahand, InHand, WritePublishes, rvars
<1> QED BY <1>1, <1>2, <1>3, <1>4, <1>5, <1>6, <1>7
        DEF Queue!Put, aqueue, ahand

(* Steps that move neither count leave the queue as it is. *)
LEMMA QueueStays ==
  ASSUME IInv, Mapping, Mapping', written' = written, taken' = taken,
         ~lapped, ~lapped'
  PROVE  aqueue' = aqueue
<1>1. aqueue = Held /\ aqueue' = Held'
  BY DEF Mapping, QueueIsHeld
<1> QED BY <1>1, HeldStays

(* Copying the last field is looking at the oldest item. *)
LEMMA CopiedIsLook ==
  ASSUME IInv, Mapping, Mapping', NEW f \in Fields, ReadCopies(f), ~lapped, ~lapped'
  PROVE  Queue!Look \/ UNCHANGED <<aqueue, ahand, written>>
<1>1. aqueue' = aqueue /\ written' = written
  BY QueueStays DEF ReadCopies, wvars
<1>2. ~InHand /\ ahand = None
  BY DEF ReadCopies, InHand, ahand
<1>3. CASE InHand'
  <2>1. data' = Head(Held') /\ Held' # << >>
    BY <1>3 DEF Mapping, HandIsHead
  <2>2. Held' = Held /\ aqueue = Held /\ Held # Lost
    BY HeldStays, HeldIsQueue DEF ReadCopies, wvars, Mapping, QueueIsHeld
  <2>3. ahand' = data'
    BY <1>3 DEF ahand
  <2> QED BY <1>1, <1>2, <2>1, <2>2, <2>3 DEF Queue!Look, aqueue, ahand
<1>4. CASE ~InHand'
  <2>1. ahand' = None
    BY <1>4 DEF ahand
  <2> QED BY <1>1, <1>2, <2>1
<1> QED BY <1>3, <1>4

(* Publishing the read index takes the item away. *)
LEMMA PublishedIsTake ==
  ASSUME IInv, Mapping, Mapping', ReadPublishes, ~lapped
  PROVE  Queue!Take
<1>1. /\ written \in Nat /\ taken \in Nat /\ taken < written
      /\ written' = written /\ taken' = taken + 1 /\ ~lapped'
      /\ Lead = written - taken /\ Lead' = Lead - 1
      /\ Lead \in Nat /\ Lead' \in Nat
      /\ written \in Items
  BY Sizes DEF IInv, TypeOK, Items, Positions, Lead, ReadPublishes, wvars
<1>2. InHand /\ ahand = data /\ data # None
  BY DEF Mapping, HandIsHead, ReadPublishes, InHand, ahand
<1>3. aqueue = Held /\ aqueue' = Held'
  BY <1>1 DEF Mapping, QueueIsHeld
<1>4. Len(Held) = Lead /\ Held \in Seq([Fields -> Items])
  BY HeldIsQueue
<1>5. Held' = [i \in 1 .. (Lead - 1) |-> Queue!Item((taken + 1) + (i - 1))]
  BY <1>1 DEF Held, Queue!Item
<1>6. /\ Tail(Held) \in Seq([Fields -> Items])
      /\ Len(Tail(Held)) = Lead - 1
      /\ \A i \in 1 .. Len(Tail(Held)) : Tail(Held)[i] = Held[i + 1]
  <2>1. Held # << >>
    BY <1>1, <1>4
  <2> QED BY <1>4, <2>1, HeadTailProperties
<1>7. /\ Held' \in Seq([Fields -> Items]) /\ Len(Held') = Lead - 1
      /\ \A i \in 1 .. (Lead - 1) : Held'[i] = Held[i + 1]
  <2>1. ASSUME NEW i \in 1 .. (Lead - 1)
        PROVE  Queue!Item((taken + 1) + (i - 1)) \in [Fields -> Items]
    BY <1>1, Sizes DEF Queue!Item, Items
  <2>2. Held' \in Seq([Fields -> Items]) /\ Len(Held') = Lead - 1
    <3> DEFINE m == Lead - 1
    <3>1. m \in Nat
      BY <1>1
    <3>2. Held' = [i \in 1 .. m |-> Queue!Item((taken + 1) + (i - 1))]
      BY <1>5
    <3>3. \A i \in 1 .. m :
            Queue!Item((taken + 1) + (i - 1)) \in [Fields -> Items]
      BY <2>1
    <3> HIDE DEF m
    <3>4. Held' \in Seq([Fields -> Items]) /\ Len(Held') = m
      BY <3>1, <3>2, <3>3
    <3> QED BY <3>4 DEF m
  <2>3. ASSUME NEW i \in 1 .. (Lead - 1)
        PROVE  Held'[i] = Held[i + 1]
    <3>1. Held'[i] = Queue!Item((taken + 1) + (i - 1))
      BY <1>5
    <3>2. i + 1 \in 1 .. Lead /\ Held[i + 1] = Queue!Item(taken + ((i + 1) - 1))
      BY <1>1 DEF Held
    <3>3. (taken + 1) + (i - 1) = taken + ((i + 1) - 1)
      BY <1>1
    <3> QED BY <3>1, <3>2, <3>3
  <2> QED BY <2>2, <2>3
<1>8. Held' = Tail(Held)
  BY <1>6, <1>7, SeqEqual
<1>9. ahand' = None
  BY DEF ahand, InHand, ReadPublishes
<1> QED BY <1>1, <1>2, <1>3, <1>8, <1>9 DEF Queue!Take, aqueue, ahand

(* Every step of the ring is a step of the queue, or leaves it alone. *)
LEMMA StepIsQueueStep ==
  ASSUME IInv, Mapping, Mapping', [Next]_vars
  PROVE  [Queue!Next]_<<aqueue, ahand, written>>
<1>1. CASE lapped'
  BY <1>1, LappedStep DEF Queue!Next
<1> SUFFICES ASSUME ~lapped' PROVE [Queue!Next]_<<aqueue, ahand, written>>
  BY <1>1
<1>2. ~lapped
  BY DEF Next, Producer, Consumer, WriteRefused, WriterWakes, WriteCopies,
     WriteBegins, WritePublishes, ReadRefused, ReaderWakes, ReadBegins,
     ReadCopies, ReadPublishes, vars
<1>3. CASE WritePublishes
  BY <1>2, <1>3, PublishedIsPut DEF Queue!Next
<1>4. CASE ReadPublishes
  BY <1>2, <1>4, PublishedIsTake DEF Queue!Next
<1>5. CASE \E f \in Fields : ReadCopies(f)
  BY <1>2, <1>5, CopiedIsLook DEF Queue!Next
<1>6. CASE \/ WriteRefused \/ WriterWakes \/ WriteBegins
           \/ \E f \in Fields : WriteCopies(f)
           \/ UNCHANGED vars
  <2>1. UNCHANGED <<reader, rcopied, data, written, taken>>
    BY <1>6 DEF WriteRefused, WriterWakes, WriteBegins, WriteCopies, vars,
       wvars, rvars
  <2> QED BY <1>2, <2>1, QueueStays DEF ahand, InHand
<1>7. CASE ReadRefused \/ ReaderWakes \/ ReadBegins
  <2>1. /\ ~InHand /\ ~InHand'
        /\ written' = written /\ taken' = taken
    BY <1>7 DEF ReadRefused, ReaderWakes, ReadBegins, InHand, Fields, wvars
  <2> QED BY <1>2, <2>1, QueueStays DEF ahand
<1> QED BY <1>3, <1>4, <1>5, <1>6, <1>7 DEF Next, Producer, Consumer

(* Until the producer laps the consumer the ring implements the queue,     *)
(* for every capacity, index width and number of items.                    *)
THEOREM RingImplementsFifo == Spec => ImplementsFifo
<1>1. Init => Queue!Init
  BY UnreadIsLead, InitInv, WaitingIsHeld, HeldIsQueue
     DEF Init, Queue!Init, InHand, Held, Lead
<1>2. IInv => Mapping
  BY AbstractQueue, AbstractHand DEF Mapping
<1>3. IInv /\ Mapping /\ Mapping' /\ [Next]_vars
        => [Queue!Next]_<<aqueue, ahand, written>>
  BY StepIsQueueStep
<1> QED BY <1>1, <1>2, <1>3, InitInv, NextKeepsInv, PTL
        DEF Spec, ImplementsFifo, Queue!Spec, aqueue, ahand

=============================================================================
