---------------------------- MODULE MpuHalProofs ----------------------------
(***************************************************************************)
(* The safety properties of MpuHal, for any number of channels, samples a  *)
(* round and events in the queues.                                         *)
(***************************************************************************)
EXTENDS MpuHal, SequenceTheorems, FiniteSetTheorems, TLAPS

-----------------------------------------------------------------------------
(* The inductive invariant. *)

(* What has been reported and not yet been stored in the cache.            *)
Queue == lib \o kernel

(* Only an overflow makes a SYN_DROPPED.                                   *)
Clean == ~overflowed => ~sync_needed /\ Queue \in Seq(Events)

(* While every sample changes every axis, the events come in one order,    *)
(* and the first of the next sample will come after the last of the queue. *)
Succ(e) ==
  IF e.channel = K THEN [channel |-> 1, value |-> e.value + 1]
                   ELSE [channel |-> e.channel + 1, value |-> e.value]

Coming(i) ==
  IF i <= Len(Queue) THEN Queue[i] ELSE [channel |-> 1, value |-> sample + 1]

NextChannel == Coming(1).channel
NextValue   == Coming(1).value

(* What was stored last for each channel, if anything was.                 *)
Stored(c) == IF c < NextChannel THEN NextValue ELSE NextValue - 1

(* The channels of the latest n events that were stored.                   *)
Latest(c, n) ==
  \/ c < NextChannel /\ c + n >= NextChannel
  \/ c + n >= NextChannel + K

Counted(c) == Latest(c, cache_count)

InOrder ==
  /\ NextValue > 0
  /\ \A i \in 1 .. Len(Queue) : Coming(i + 1) = Succ(Coming(i))

CacheInOrder ==
  \A c \in Channels : /\ cache[c] \in {0, Stored(c)}
                      /\ Counted(c) => cache[c] # 0

(* Points that a read found in the cache are all of the last sample.       *)
OutInOrder ==
  /\ at = "idle" /\ cache_count > 0 => NextChannel = 1
  /\ at = "fill" /\ out # << >> =>
       /\ NextChannel = cache_count + 1
       /\ \A i \in DOMAIN out : out[i].value = NextValue - 1

Ordered == noisy /\ ~overflowed => InOrder /\ CacheInOrder /\ OutInOrder

(* A punctual loop leaves room for the samples of a round.                 *)
Patient == punctual => since <= RoundSamples

(* After a silent read the queues were empty; so what was sampled since    *)
(* then has not overflowed and makes the read after the next one heard, if *)
(* not the next.                                                           *)
Waiting == silent_reads > 0 /\ (IF at = "idle" THEN cache_count = 0
                                               ELSE out = << >>)

HeardSoon ==
  punctual /\ Waiting =>
    /\ silent_reads = 1
    /\ ~sync_needed /\ Queue \in Seq(Events)
    /\ Len(kernel) <= since * K
    /\ since > 0 => cache_count > 0 \/ Len(Queue) > 0

IInv ==
  /\ TypeOK /\ Clean /\ NothingSkipped
  /\ Ordered /\ SamplesStayTogether
  /\ Patient /\ HeardSoon /\ ActiveDeviceIsHeard

-----------------------------------------------------------------------------
(* Lemmas about sets, numbers and sequences. *)

LEMMA MinOfTwo ==
  ASSUME NEW a \in Nat, NEW b \in Nat
  PROVE  Min({a, b}) = IF a <= b THEN a ELSE b
<1>1. \E m \in {a, b} : \A y \in {a, b} : m =< y
  <2>1. CASE a >= b
    BY <2>1
  <2>2. CASE b >= a
    BY <2>2
  <2> QED BY <2>1, <2>2
<1>2. /\ Min({a, b}) \in {a, b}
      /\ \A y \in {a, b} : Min({a, b}) =< y
  BY <1>1, Zenon DEF Min
<1> QED BY <1>2

LEMMA Sizes ==
  /\ K \in Nat /\ K > 0 /\ K < KernelRoom /\ KernelRoom <= LibRoom
  /\ KernelRoom \in Nat /\ LibRoom \in Nat
  /\ RoundSamples \in Nat /\ RoundSamples > 0 /\ MaxSamples \in Nat
BY MpuHalAssumption

LEMMA ChannelsFinite ==
  ASSUME NEW changed \in ChangeSets
  PROVE  /\ changed \subseteq Channels /\ changed # {}
         /\ IsFiniteSet(changed)
         /\ Cardinality(changed) \in 1 .. K
<1>1. changed \in SUBSET Channels /\ changed # {}
  BY MpuHalAssumption
<1>2. IsFiniteSet(Channels) /\ Cardinality(Channels) = K
  BY FS_Interval, Sizes DEF Channels
<1>3. IsFiniteSet(changed) /\ Cardinality(changed) <= K
  BY <1>1, <1>2, FS_Subset
<1>4. Cardinality(changed) \in Nat /\ Cardinality(changed) # 0
  BY <1>1, <1>3, FS_CardinalityType, FS_EmptySet
<1> QED BY <1>1, <1>3, <1>4, Sizes

(* How many axes of a set are below one of them.                           *)
Below(axes, c) == {b \in axes : b < c}
Rank(axes, c)  == Cardinality(Below(axes, c))

(* Every rank below the number of axes is that of exactly one of them.     *)
LEMMA Ranks ==
  ASSUME NEW axes \in SUBSET Nat, IsFiniteSet(axes)
  PROVE  /\ \A c \in axes : Rank(axes, c) \in 0 .. Cardinality(axes) - 1
         /\ \A b, c \in axes : Rank(axes, b) = Rank(axes, c) => b = c
         /\ \A k \in 0 .. Cardinality(axes) - 1 :
              \E c \in axes : Rank(axes, c) = k
<1>1. Cardinality(axes) \in Nat
  BY FS_CardinalityType
<1>2. ASSUME NEW c \in axes
      PROVE  /\ IsFiniteSet(Below(axes, c)) /\ Rank(axes, c) \in Nat
             /\ Rank(axes, c) <= Cardinality(axes)
             /\ Rank(axes, c) # Cardinality(axes)
  <2>1. Below(axes, c) \in SUBSET axes /\ c \notin Below(axes, c)
    BY DEF Below
  <2>2. /\ IsFiniteSet(Below(axes, c)) /\ Rank(axes, c) <= Cardinality(axes)
        /\ Cardinality(axes) = Rank(axes, c) => axes = Below(axes, c)
    BY <2>1, FS_Subset, Zenon DEF Rank
  <2>3. Rank(axes, c) \in Nat
    BY <2>2, FS_CardinalityType DEF Rank
  <2> QED BY <2>1, <2>2, <2>3
<1>3. \A c \in axes : Rank(axes, c) \in 0 .. Cardinality(axes) - 1
  BY <1>1, <1>2
<1>4. ASSUME NEW b \in axes, NEW c \in axes, b < c
      PROVE  Rank(axes, b) # Rank(axes, c)
  <2>1. Below(axes, b) \in SUBSET Below(axes, c)
    <3>1. \A y \in axes : y < b => y < c
      BY <1>4
    <3> QED BY <3>1 DEF Below
  <2>2. b \in Below(axes, c) /\ b \notin Below(axes, b)
    BY <1>4 DEF Below
  <2>3. Cardinality(Below(axes, c)) = Cardinality(Below(axes, b))
          => Below(axes, c) = Below(axes, b)
    BY <1>2, <2>1, FS_Subset, Zenon
  <2> QED BY <2>2, <2>3, Zenon DEF Rank
<1>5. \A b, c \in axes : Rank(axes, b) = Rank(axes, c) => b = c
  BY <1>4
<1>6. \A k \in 0 .. Cardinality(axes) - 1 : \E c \in axes : Rank(axes, c) = k
  <2> DEFINE T == 0 .. Cardinality(axes) - 1
             f == [c \in axes |-> Rank(axes, c)]
  <2>1. IsFiniteSet(T) /\ Cardinality(T) = Cardinality(axes)
    <3> DEFINE m == Cardinality(axes) - 1
    <3>1. 0 \in Int /\ m \in Int /\ m >= -1
      BY <1>1
    <3> HIDE DEF m
    <3>2. /\ IsFiniteSet(0 .. m)
          /\ Cardinality(0 .. m) = IF 0 > m THEN 0 ELSE m - 0 + 1
      BY <3>1, FS_Interval
    <3>3. Cardinality(0 .. m) = m + 1
      BY <3>1, <3>2
    <3> QED BY <1>1, <3>2, <3>3 DEF m
  <2>2. f \in [axes -> T]
    BY <1>3
  <2>3. f \in Injection(axes, T)
    BY <1>5, <2>2 DEF Injection, IsInjective
  <2> HIDE DEF f, T
  <2>4. f \in Surjection(axes, T)
    BY <2>1, <2>3, FS_Injection, Zenon
  <2>5. \A k \in T : \E c \in axes : f[c] = k
    BY <2>4 DEF Surjection
  <2> QED BY <2>5 DEF f, T
<1> QED BY <1>3, <1>5, <1>6

(* What one sample reports.                                                *)
LEMMA ReportFacts ==
  ASSUME NEW changed \in ChangeSets, sample \in Nat, sample < MaxSamples
  PROVE  /\ Report(changed) \in Seq(Events)
         /\ Len(Report(changed)) = Cardinality(changed)
         /\ \A i \in 1 .. Cardinality(changed) :
              /\ Report(changed)[i].channel \in changed
              /\ Report(changed)[i].value = sample + 1
         /\ \A c \in changed : \E i \in 1 .. Cardinality(changed) :
              /\ Report(changed)[i].channel = c
              /\ \A j \in 1 .. Cardinality(changed) :
                   Report(changed)[j].channel = c => j = i
         /\ changed = Channels =>
              \A i \in 1 .. K :
                Report(changed)[i] = [channel |-> i, value |-> sample + 1]
<1> DEFINE n == Cardinality(changed)
           chan(i) == CHOOSE c \in changed :
                        Cardinality({b \in changed : b < c}) = i - 1
<1>1. /\ changed \subseteq Channels /\ IsFiniteSet(changed) /\ n \in 1 .. K
      /\ changed \in SUBSET Nat
  BY ChannelsFinite DEF Channels
<1>2. /\ \A c \in changed : Rank(changed, c) \in 0 .. n - 1
      /\ \A b, c \in changed : Rank(changed, b) = Rank(changed, c) => b = c
      /\ \A k \in 0 .. n - 1 : \E c \in changed : Rank(changed, c) = k
  BY <1>1, Ranks, Zenon
<1>3. Report(changed) = [i \in 1 .. n |-> [channel |-> chan(i),
                                           value   |-> sample + 1]]
  BY DEF Report
<1>4. \A i \in 1 .. n : chan(i) \in changed /\ Rank(changed, chan(i)) = i - 1
  <2> SUFFICES ASSUME NEW i \in 1 .. n
               PROVE  chan(i) \in changed /\ Rank(changed, chan(i)) = i - 1
    OBVIOUS
  <2>1. i - 1 \in 0 .. n - 1
    BY <1>1
  <2>2. \E c \in changed : Rank(changed, c) = i - 1
    BY <1>2, <2>1, Zenon
  <2> QED BY <2>2, Zenon DEF Rank, Below
<1> HIDE DEF n, chan
<1>5. \A i \in 1 .. n : [channel |-> chan(i), value |-> sample + 1] \in Events
  <2>1. sample + 1 \in Values
    BY Sizes DEF Values
  <2>2. \A i \in 1 .. n : chan(i) \in Channels
    BY <1>1, <1>4
  <2> QED BY <2>1, <2>2, Zenon DEF Events
<1>6. Report(changed) \in Seq(Events) /\ Len(Report(changed)) = n
  <2>1. Report(changed) \in [1 .. n -> Events] /\ n \in Nat
    BY <1>1, <1>3, <1>5
  <2> QED BY <2>1
<1>7. \A i \in 1 .. n : /\ Report(changed)[i].channel = chan(i)
                        /\ Report(changed)[i].value = sample + 1
  BY <1>3
<1>8. ASSUME NEW c \in changed
      PROVE  \E i \in 1 .. n :
               /\ Report(changed)[i].channel = c
               /\ \A j \in 1 .. n : Report(changed)[j].channel = c => j = i
  <2> DEFINE i == Rank(changed, c) + 1
  <2>1. i \in 1 .. n /\ Rank(changed, c) = i - 1 /\ Rank(changed, c) \in Nat
    BY <1>1, <1>2
  <2>2. chan(i) = c
    BY <1>2, <1>4, <2>1, Zenon
  <2>3. \A j \in 1 .. n : chan(j) = c => j = i
    BY <1>4, <2>1
  <2> HIDE DEF i
  <2> QED BY <1>7, <2>1, <2>2, <2>3, Zenon
<1>9. ASSUME changed = Channels, NEW i \in 1 .. K
      PROVE  Report(changed)[i] = [channel |-> i, value |-> sample + 1]
  <2>1. Below(Channels, i) = 1 .. i - 1
    BY Sizes DEF Below, Channels
  <2>2. Rank(changed, i) = i - 1
    BY <1>9, <2>1, FS_Interval, Sizes DEF Rank
  <2>3. n = K
    BY <1>9, FS_Interval, Sizes DEF n, Channels
  <2>4. i \in changed
    BY <1>9 DEF Channels
  <2>5. chan(i) = i
    BY <1>2, <1>4, <2>2, <2>3, <2>4, Zenon
  <2> QED BY <1>3, <2>3, <2>5
<1> QED BY <1>4, <1>6, <1>7, <1>8, <1>9 DEF n

-----------------------------------------------------------------------------
(* The queues. *)

Arrivals == Events \cup {Dropped}

LEMMA QueueFacts ==
  ASSUME TypeOK
  PROVE  /\ Queue \in Seq(Arrivals) /\ Len(Queue) \in Nat
         /\ lib \in Seq(Arrivals) /\ Len(lib) \in Nat
         /\ kernel \in Seq(Arrivals) /\ Len(kernel) \in Nat
         /\ Len(Queue) = Len(lib) + Len(kernel)
         /\ DOMAIN Queue = 1 .. Len(Queue)
         /\ Queue \in Seq(Events) => \A i \in 1 .. Len(Queue) : Queue[i] # Dropped
<1>1. lib \in Seq(Arrivals) /\ kernel \in Seq(Arrivals)
  BY DEF TypeOK, Arrivals
<1>2. /\ Queue \in Seq(Arrivals) /\ Len(Queue) \in Nat
      /\ Len(Queue) = Len(lib) + Len(kernel)
  BY <1>1 DEF Queue
<1>3. Queue \in Seq(Events) => \A i \in 1 .. Len(Queue) : Queue[i] # Dropped
  <2>1. Dropped \notin Events
    BY MpuHalAssumption
  <2> QED BY <2>1
<1> QED BY <1>1, <1>2, <1>3

LEMMA TailOfConcat ==
  ASSUME NEW S, NEW s \in Seq(S), NEW u \in Seq(S), s # << >>
  PROVE  /\ Head(s \o u) = Head(s) /\ Tail(s \o u) = Tail(s) \o u
         /\ s \o u # << >>
<1>1. /\ s \o u \in Seq(S) /\ Len(s \o u) = Len(s) + Len(u) /\ Len(s) > 0
      /\ Len(s) \in Nat /\ Len(u) \in Nat
  OBVIOUS
<1>2. /\ Tail(s) \in Seq(S) /\ Len(Tail(s)) = Len(s) - 1
      /\ \A i \in 1 .. Len(s) - 1 : Tail(s)[i] = s[i + 1]
  BY <1>1
<1>3. Head(s \o u) = Head(s) /\ s \o u # << >>
  BY <1>1
<1>4. Tail(s \o u) \in Seq(S) /\ Tail(s) \o u \in Seq(S)
  BY <1>1, <1>2
<1>5. /\ Len(Tail(s \o u)) = Len(s) + Len(u) - 1
      /\ Len(Tail(s) \o u) = Len(s) + Len(u) - 1
  BY <1>1, <1>2
<1>6. \A i \in 1 .. Len(s) + Len(u) - 1 : Tail(s \o u)[i] = (Tail(s) \o u)[i]
  BY <1>1, <1>2, <1>3
<1>7. Tail(s \o u) = Tail(s) \o u
  BY <1>4, <1>5, <1>6, SeqEqual
<1> QED BY <1>3, <1>7

LEMMA ConcatOfThree ==
  ASSUME NEW S, NEW s \in Seq(S), NEW t \in Seq(S), NEW u \in Seq(S)
  PROVE  (s \o t) \o u = s \o (t \o u)
BY ConcatAssociative

LEMMA ConcatParts ==
  ASSUME NEW S, NEW s \in Seq(S), NEW u \in Seq(S)
  PROVE  /\ Len(s) \in Nat /\ Len(u) \in Nat
         /\ s \o u \in Seq(S) /\ Len(s \o u) = Len(s) + Len(u)
         /\ \A i \in 1 .. Len(s) : (s \o u)[i] = s[i]
         /\ \A i \in 1 .. Len(u) : (s \o u)[Len(s) + i] = u[i]
<1>1. /\ Len(s) \in Nat /\ Len(u) \in Nat
      /\ s \o u \in Seq(S) /\ Len(s \o u) = Len(s) + Len(u)
  OBVIOUS
<1>2. \A i \in 1 .. Len(s) : (s \o u)[i] = s[i]
  BY <1>1
<1>3. \A i \in 1 .. Len(u) : (s \o u)[Len(s) + i] = u[i]
  BY <1>1
<1> QED BY <1>1, <1>2, <1>3

LEMMA SplitAt ==
  ASSUME NEW S, NEW s \in Seq(S), NEW p \in 0 .. Len(s)
  PROVE  /\ SubSeq(s, 1, p) \in Seq(S) /\ Len(SubSeq(s, 1, p)) = p
         /\ SubSeq(s, p + 1, Len(s)) \in Seq(S)
         /\ Len(SubSeq(s, p + 1, Len(s))) = Len(s) - p
         /\ SubSeq(s, 1, p) \o SubSeq(s, p + 1, Len(s)) = s
<1>1. Len(s) \in Nat /\ \A i \in 1 .. Len(s) : s[i] \in S
  OBVIOUS
<1>2. SubSeq(s, 1, p) \in Seq(S) /\ Len(SubSeq(s, 1, p)) = p
  <2>1. 1 \in Int /\ p \in Int /\ \A i \in 1 .. p : s[i] \in S
    BY <1>1
  <2>2. /\ SubSeq(s, 1, p) \in Seq(S)
        /\ Len(SubSeq(s, 1, p)) = IF 1 <= p THEN p - 1 + 1 ELSE 0
    BY <2>1, SubSeqProperties
  <2>3. (IF 1 <= p THEN p - 1 + 1 ELSE 0) = p
    BY <1>1
  <2> QED BY <2>2, <2>3
<1>3. /\ SubSeq(s, p + 1, Len(s)) \in Seq(S)
      /\ Len(SubSeq(s, p + 1, Len(s))) = Len(s) - p
  <2>1. /\ p + 1 \in Int /\ Len(s) \in Int
        /\ \A i \in p + 1 .. Len(s) : s[i] \in S
    BY <1>1
  <2>2. /\ SubSeq(s, p + 1, Len(s)) \in Seq(S)
        /\ Len(SubSeq(s, p + 1, Len(s))) =
             IF p + 1 <= Len(s) THEN Len(s) - (p + 1) + 1 ELSE 0
    BY <2>1, SubSeqProperties, Zenon
  <2>3. (IF p + 1 <= Len(s) THEN Len(s) - (p + 1) + 1 ELSE 0) = Len(s) - p
    BY <1>1
  <2> QED BY <2>2, <2>3
<1>4. SubSeq(s, 1, p) \o SubSeq(s, p + 1, Len(s)) = s
  <2>1. /\ 1 \in 1 .. Len(s) + 1 /\ p \in 1 - 1 .. Len(s)
        /\ Len(s) \in p .. Len(s)
    BY <1>1
  <2>2. SubSeq(s, 1, p) \o SubSeq(s, p + 1, Len(s)) = SubSeq(s, 1, Len(s))
    BY <2>1, ConcatAdjacentSubSeq, Zenon
  <2> QED BY <2>2, SubSeqFull, Zenon
<1> QED BY <1>2, <1>3, <1>4

(* libevdev hands out the first event of the queue, and moves the rest up. *)
LEMMA NextFacts ==
  ASSUME TypeOK, NEW e, NextEvent(e)
  PROVE  /\ e \in Arrivals
         /\ lib' \in Seq(Arrivals) /\ Len(lib') <= LibRoom
         /\ kernel' \in Seq(Arrivals) /\ Len(kernel') <= Len(kernel)
         /\ Len(kernel') \in Nat
         /\ ~sync_needed =>
              /\ Queue # << >> /\ e = Head(Queue) /\ Queue' = Tail(Queue)
<1> DEFINE p    == Portion
           some == SubSeq(kernel, 1, p)
           rest == SubSeq(kernel, p + 1, Len(kernel))
<1>1. /\ lib \in Seq(Arrivals) /\ kernel \in Seq(Arrivals)
      /\ Len(lib) \in Nat /\ Len(kernel) \in Nat /\ Len(lib) <= LibRoom
  BY QueueFacts DEF TypeOK
<1>2. Kept \in Seq(Arrivals) /\ Len(Kept) \in Nat /\ Len(Kept) <= LibRoom
  <2>1. << >> \in Seq(Arrivals) /\ Len(<< >>) = 0
    OBVIOUS
  <2> QED BY <1>1, <2>1, Sizes DEF Kept
<1>3. p \in Nat /\ p <= Len(kernel) /\ Len(Kept) + p <= LibRoom
  <2>1. LibRoom - Len(Kept) \in Nat
    BY <1>2, Sizes
  <2>2. p = IF Len(kernel) <= LibRoom - Len(Kept)
              THEN Len(kernel) ELSE LibRoom - Len(Kept)
    BY <1>1, <2>1, MinOfTwo DEF Portion
  <2> HIDE DEF p
  <2> QED BY <1>1, <1>2, <2>1, <2>2, Sizes
<1>4. Pending = Kept \o some
  BY DEF Pending
<1>5. /\ Pending # << >> /\ e = Head(Pending) /\ lib' = Tail(Pending)
      /\ kernel' = rest
  BY DEF NextEvent
<1> HIDE DEF p
<1>6. /\ some \in Seq(Arrivals) /\ Len(some) = p
      /\ rest \in Seq(Arrivals) /\ Len(rest) = Len(kernel) - p
      /\ some \o rest = kernel
  <2>1. p \in 0 .. Len(kernel)
    BY <1>1, <1>3
  <2> QED BY <1>1, <2>1, SplitAt, Zenon
<1> HIDE DEF some, rest
<1>7. Pending \in Seq(Arrivals) /\ Len(Pending) <= LibRoom
  <2>1. /\ Kept \o some \in Seq(Arrivals)
        /\ Len(Kept \o some) = Len(Kept) + Len(some)
    BY <1>2, <1>6, ConcatProperties, Zenon
  <2> QED BY <1>3, <1>4, <1>6, <2>1, Zenon
<1>8. /\ e \in Arrivals /\ lib' \in Seq(Arrivals)
      /\ Len(lib') = Len(Pending) - 1
  BY <1>5, <1>7
<1>9. ASSUME ~sync_needed
      PROVE  Queue # << >> /\ e = Head(Queue) /\ Queue' = Tail(Queue)
  <2>1. Kept = lib
    BY <1>9 DEF Kept
  <2>2. Queue = Pending \o rest
    <3>2. (lib \o some) \o rest = lib \o (some \o rest)
      <4>1. /\ lib \in Seq(Arrivals) /\ some \in Seq(Arrivals)
            /\ rest \in Seq(Arrivals)
        BY <1>1, <1>6
      <4> HIDE DEF Arrivals
      <4> QED BY <4>1, ConcatOfThree
    <3> QED BY <1>4, <1>6, <2>1, <3>2, Zenon DEF Queue
  <2>3. Queue' = Tail(Pending) \o rest
    BY <1>5 DEF Queue
  <2>4. /\ Head(Pending \o rest) = Head(Pending)
        /\ Tail(Pending \o rest) = Tail(Pending) \o rest
        /\ Pending \o rest # << >>
    BY <1>5, <1>6, <1>7, TailOfConcat, Zenon
  <2> QED BY <1>5, <2>2, <2>3, <2>4, Zenon
<1>10. Len(lib') <= LibRoom
  <2>1. Len(Pending) \in Nat
    BY <1>7
  <2> QED BY <1>7, <1>8, <2>1, Sizes
<1>11. Len(kernel') <= Len(kernel) /\ Len(kernel') \in Nat
  <2>1. Len(kernel') = Len(kernel) - p
    BY <1>5, <1>6, Zenon
  <2> QED BY <1>1, <1>3, <2>1
<1> QED BY <1>5, <1>6, <1>8, <1>9, <1>10, <1>11, Zenon

LEMMA QueuesKept ==
  ASSUME UNCHANGED <<driver, queues>>
  PROVE  /\ Queue' = Queue /\ sample' = sample /\ device' = device
         /\ sync_needed' = sync_needed
         /\ Coming(1)' = Coming(1)
         /\ InOrder' <=> InOrder
<1>1. /\ sample' = sample /\ device' = device /\ kernel' = kernel
      /\ lib' = lib /\ sync_needed' = sync_needed
  BY DEF driver, queues
<1>2. Queue' = Queue
  BY <1>1 DEF Queue
<1>3. \A i : Coming(i)' = Coming(i)
  BY <1>1, <1>2, Zenon DEF Coming
<1>4. InOrder' <=> InOrder
  BY <1>2, <1>3, Zenon DEF InOrder, NextValue, Succ
<1> QED BY <1>1, <1>2, <1>3, <1>4, Zenon

(* As long as evdev has not run over, the next event is one of an axis.    *)
LEMMA NextIsEvent ==
  ASSUME TypeOK, ~sync_needed, Queue \in Seq(Events), NEW e, NextEvent(e)
  PROVE  /\ Queue # << >> /\ e = Queue[1] /\ e \in Events
         /\ Queue' = Tail(Queue) /\ Queue' \in Seq(Events)
         /\ Len(Queue) \in Nat \ {0} /\ Len(Queue') = Len(Queue) - 1
         /\ \A i \in 1 .. Len(Queue') : Queue'[i] = Queue[i + 1]
         /\ ~sync_needed'
<1>1. Queue # << >> /\ e = Head(Queue) /\ Queue' = Tail(Queue)
  BY NextFacts
<1>2. Len(Queue) \in Nat \ {0}
  BY <1>1, EmptySeq
<1>3. /\ Queue' \in Seq(Events) /\ Len(Queue') = Len(Queue) - 1
      /\ \A i \in 1 .. Len(Queue') : Queue'[i] = Queue[i + 1]
      /\ e \in Events
  BY <1>1, HeadTailProperties, Zenon
<1>4. e = Queue[1]
  BY <1>1, <1>2
<1>5. ~sync_needed'
  <2>1. sync_needed' = (e = Dropped) /\ Dropped \notin Events
    BY MpuHalAssumption, Zenon DEF NextEvent
  <2> QED BY <1>3, <2>1, Zenon
<1> QED BY <1>1, <1>2, <1>3, <1>4, <1>5, Zenon

LEMMA ComingFacts ==
  ASSUME TypeOK, Queue \in Seq(Events)
  PROVE  NextChannel \in 1 .. K /\ NextValue \in Nat
<1>1. CASE Len(Queue) >= 1
  <2>1. Queue[1] \in Events /\ Coming(1) = Queue[1]
    BY <1>1, QueueFacts DEF Coming
  <2> QED BY <2>1, Sizes DEF NextChannel, NextValue, Events, Channels, Values
<1>2. CASE ~(1 <= Len(Queue))
  <2>1. Coming(1) = [channel |-> 1, value |-> sample + 1]
    BY <1>2, Zenon DEF Coming
  <2>2. sample \in Nat
    BY Sizes DEF TypeOK, Values
  <2> QED BY <2>1, <2>2, Sizes DEF NextChannel, NextValue
<1> QED BY <1>1, <1>2, QueueFacts

(* The order of the queue outlives its first event.                        *)
LEMMA NextInOrder ==
  ASSUME TypeOK, ~sync_needed, Queue \in Seq(Events), InOrder,
         NEW e, NextEvent(e), sample' = sample
  PROVE  /\ e.channel = NextChannel /\ e.value = NextValue
         /\ NextChannel' = (IF NextChannel = K THEN 1 ELSE NextChannel + 1)
         /\ NextValue' = (IF NextChannel = K THEN NextValue + 1 ELSE NextValue)
         /\ InOrder'
<1> DEFINE n == Len(Queue)
<1>1. /\ n \in Nat \ {0} /\ e = Queue[1] /\ Len(Queue') = n - 1
      /\ \A i \in 1 .. Len(Queue') : Queue'[i] = Queue[i + 1]
  BY NextIsEvent, Zenon
<1> HIDE DEF n
<1>2. \A i \in 1 .. n : Coming(i)' = Coming(i + 1)
  <2> SUFFICES ASSUME NEW i \in 1 .. n
               PROVE  Coming(i)' = Coming(i + 1)
    OBVIOUS
  <2>1. CASE i <= n - 1
    <3>1. i <= Len(Queue') /\ i + 1 <= n /\ Queue'[i] = Queue[i + 1]
      BY <1>1, <2>1
    <3> QED BY <3>1, Zenon DEF Coming, n
  <2>2. CASE i = n
    <3>1. ~(i <= Len(Queue')) /\ ~(i + 1 <= n)
      BY <1>1, <2>2
    <3> QED BY <3>1, Zenon DEF Coming, n
  <2> QED BY <1>1, <2>1, <2>2
<1>3. \A i \in 1 .. n : Coming(i + 1) = Succ(Coming(i))
  BY Zenon DEF InOrder, n
<1>4. Coming(1)' = Succ(Coming(1)) /\ Coming(1) = e
  <2>1. 1 \in 1 .. n /\ 1 <= n
    BY <1>1
  <2> QED BY <1>1, <1>2, <1>3, <2>1, Zenon DEF Coming, n
<1>5. NextChannel \in 1 .. K /\ NextValue \in Nat
  BY ComingFacts
<1>6. NextValue' > 0
  BY <1>4, <1>5 DEF Succ, InOrder, NextValue
<1>7. ASSUME NEW i \in 1 .. Len(Queue')
      PROVE  Coming(i + 1)' = Succ(Coming(i))'
  <2>1. i \in 1 .. n /\ i + 1 \in 1 .. n
    BY <1>1
  <2>2. Coming(i + 1)' = Coming(i + 1 + 1) /\ Coming(i)' = Coming(i + 1)
    BY <1>2, <2>1, Zenon
  <2> QED BY <1>3, <2>1, <2>2, Zenon DEF Succ
<1>8. InOrder'
  BY <1>6, <1>7, Zenon DEF InOrder
<1>9. e.channel = NextChannel /\ e.value = NextValue
  BY <1>4, Zenon DEF NextChannel, NextValue
<1>10. /\ Succ(Coming(1)).channel
             = (IF NextChannel = K THEN 1 ELSE NextChannel + 1)
       /\ Succ(Coming(1)).value
             = (IF NextChannel = K THEN NextValue + 1 ELSE NextValue)
  BY DEF Succ, NextChannel, NextValue
<1>11. /\ NextChannel' = Succ(Coming(1)).channel
       /\ NextValue' = Succ(Coming(1)).value
  BY <1>4, Zenon DEF NextChannel, NextValue
<1> QED BY <1>8, <1>9, <1>10, <1>11
(* A queue and a cache that lack nothing of what a device shows.           *)
Brought(queue, shown, values) ==
  \A c \in Channels :
    \/ \E i \in 1 .. Len(queue) :
         /\ queue[i].channel = c /\ queue[i].value = shown[c]
         /\ \A j \in 1 .. Len(queue) : queue[j].channel = c => j <= i
    \/ /\ \A i \in 1 .. Len(queue) : queue[i].channel # c
       /\ values[c] \in {0, shown[c]}

LEMMA BroughtIsNothingSkipped ==
  ASSUME NEW queue, NEW shown, NEW values, DOMAIN queue = 1 .. Len(queue)
  PROVE  Brought(queue, shown, values) <=>
           \A c \in Channels :
             LET coming == {i \in DOMAIN queue : queue[i].channel = c}
             IN  IF coming # {}
                   THEN \E i \in coming : /\ queue[i].value = shown[c]
                                          /\ \A j \in coming : j <= i
                   ELSE values[c] \in {0, shown[c]}
<1> DEFINE coming(c) == {i \in 1 .. Len(queue) : queue[i].channel = c}
           last(c)   == \E i \in coming(c) : /\ queue[i].value = shown[c]
                                             /\ \A j \in coming(c) : j <= i
           first(c)  == \E i \in 1 .. Len(queue) :
                          /\ queue[i].channel = c /\ queue[i].value = shown[c]
                          /\ \A j \in 1 .. Len(queue) :
                               queue[j].channel = c => j <= i
           none(c)   == \A i \in 1 .. Len(queue) : queue[i].channel # c
<1>1. \A c : last(c) <=> first(c)
  BY Zenon
<1>2. \A c : coming(c) = {} <=> none(c)
  BY Zenon
<1>3. \A c : first(c) => ~none(c)
  BY Zenon
<1> HIDE DEF coming, last, first, none
<1>4. \A c : (first(c) \/ (none(c) /\ values[c] \in {0, shown[c]}))
              <=> IF coming(c) # {} THEN last(c)
                                    ELSE values[c] \in {0, shown[c]}
  BY <1>1, <1>2, <1>3, Zenon
<1> QED BY <1>4, Zenon DEF Brought, coming, last, first, none

(* Nothing is lost on the way into the cache.                              *)
LEMMA BroughtByStore ==
  ASSUME NEW queue \in Seq(Events), queue # << >>, NEW shown,
         NEW values \in [Channels -> Values], NEW rest \in Seq(Events),
         Len(rest) = Len(queue) - 1,
         \A i \in 1 .. Len(rest) : rest[i] = queue[i + 1],
         Brought(queue, shown, values), NEW new,
         new = [values EXCEPT ![queue[1].channel] = queue[1].value]
  PROVE  Brought(rest, shown, new)
<1>1. Len(queue) \in Nat \ {0} /\ Len(rest) \in Nat
  BY EmptySeq
<1> SUFFICES ASSUME NEW c \in Channels
             PROVE  \/ \E i \in 1 .. Len(rest) :
                         /\ rest[i].channel = c /\ rest[i].value = shown[c]
                         /\ \A j \in 1 .. Len(rest) :
                              rest[j].channel = c => j <= i
                    \/ /\ \A i \in 1 .. Len(rest) : rest[i].channel # c
                       /\ new[c] \in {0, shown[c]}
  BY Zenon DEF Brought
<1>2. CASE \E i \in 1 .. Len(queue) :
             /\ queue[i].channel = c /\ queue[i].value = shown[c]
             /\ \A j \in 1 .. Len(queue) : queue[j].channel = c => j <= i
  <2>1. PICK i \in 1 .. Len(queue) :
             /\ queue[i].channel = c /\ queue[i].value = shown[c]
             /\ \A j \in 1 .. Len(queue) : queue[j].channel = c => j <= i
    BY <1>2
  <2>2. \A j \in 1 .. Len(rest) : j + 1 \in 1 .. Len(queue)
    BY <1>1
  <2>3. \A j \in 1 .. Len(rest) : rest[j].channel = c => j + 1 <= i
    BY <2>1, <2>2, Zenon
  <2>4. CASE i = 1
    <3>1. \A j \in 1 .. Len(rest) : rest[j].channel # c
      BY <1>1, <2>3, <2>4
    <3>2. new[c] = shown[c]
      BY <2>1, <2>4
    <3> QED BY <3>1, <3>2
  <2>5. CASE i # 1
    <3>1. i - 1 \in 1 .. Len(rest) /\ i - 1 + 1 = i
      BY <1>1, <2>5
    <3>2. rest[i - 1] = queue[i]
      BY <3>1
    <3>3. \A j \in 1 .. Len(rest) : rest[j].channel = c => j <= i - 1
      BY <1>1, <2>3
    <3> QED BY <2>1, <3>1, <3>2, <3>3, Zenon
  <2> QED BY <2>4, <2>5
<1>3. CASE /\ \A i \in 1 .. Len(queue) : queue[i].channel # c
           /\ values[c] \in {0, shown[c]}
  <2>1. \A j \in 1 .. Len(rest) : j + 1 \in 1 .. Len(queue)
    BY <1>1
  <2>2. \A j \in 1 .. Len(rest) : rest[j].channel # c
    BY <1>3, <2>1, Zenon
  <2>3. queue[1].channel # c
    BY <1>1, <1>3
  <2>4. new[c] = values[c]
    BY <2>3
  <2> QED BY <1>3, <2>2, <2>4, Zenon
<1> QED BY <1>2, <1>3, Zenon DEF Brought

(* Storing the next event keeps the order of the cache.                    *)
LEMMA CacheStep ==
  ASSUME NEW x \in 1 .. K, NEW v \in Nat, NEW n \in 0 .. K - 1,
         NEW y, NEW w, v > 0,
         y = (IF x = K THEN 1 ELSE x + 1), w = (IF x = K THEN v + 1 ELSE v),
         NEW old \in [Channels -> Nat], NEW new \in [Channels -> Nat],
         new = [old EXCEPT ![x] = v],
         \A c \in Channels :
           /\ old[c] \in {0, IF c < x THEN v ELSE v - 1}
           /\ (c < x /\ c + n >= x) \/ c + n >= x + K => old[c] # 0,
         NEW c \in Channels
  PROVE  /\ new[c] \in {0, IF c < y THEN w ELSE w - 1}
         /\ (c < y /\ c + (n + 1) >= y) \/ c + (n + 1) >= y + K => new[c] # 0
<1>1. K \in Nat /\ x \in Nat /\ n \in Nat /\ c \in 1 .. K
  BY Sizes DEF Channels
<1>2. new[c] = IF c = x THEN v ELSE old[c]
  OBVIOUS
<1>3. CASE c = x
  BY <1>1, <1>2, <1>3
<1>4. CASE c # x
  <2>1. /\ old[c] \in {0, IF c < x THEN v ELSE v - 1} /\ new[c] = old[c]
        /\ (c < x /\ c + n >= x) \/ c + n >= x + K => old[c] # 0
    BY <1>2, <1>4
  <2>2. (IF c < y THEN w ELSE w - 1) = IF c < x THEN v ELSE v - 1
    BY <1>1, <1>4
  <2>3. (c < y /\ c + (n + 1) >= y) \/ c + (n + 1) >= y + K
          => (c < x /\ c + n >= x) \/ c + n >= x + K
    BY <1>1, <1>4
  <2> QED BY <2>1, <2>2, <2>3, Zenon
<1> QED BY <1>3, <1>4

(* What storing an event does, whether or not it fills the cache.          *)
LEMMA StoreFacts ==
  ASSUME TypeOK, Clean, NothingSkipped, Ordered, StoreNext,
         UNCHANGED <<driver, overflowed>>
  PROVE  /\ lib' \in Seq(Arrivals) /\ Len(lib') <= LibRoom
         /\ kernel' \in Seq(Arrivals) /\ Len(kernel') <= Len(kernel)
         /\ Len(kernel') \in Nat
         /\ sync_needed' \in BOOLEAN
         /\ cache' \in [Channels -> Values]
         /\ Clean' /\ NothingSkipped'
         /\ noisy /\ ~overflowed =>
              /\ InOrder'
              /\ NextChannel \in 1 .. K /\ NextValue \in Nat
              /\ NextChannel' = (IF NextChannel = K THEN 1 ELSE NextChannel + 1)
              /\ NextValue' = (IF NextChannel = K THEN NextValue + 1
                                                  ELSE NextValue)
              /\ \A c \in Channels :
                   /\ cache'[c] \in {0, Stored(c)'}
                   /\ \A n : n = cache_count + 1 /\ Latest(c, n)' => cache'[c] # 0
<1>1. PICK e \in Events : /\ NextEvent(e)
                          /\ cache' = [cache EXCEPT ![e.channel] = e.value]
  BY DEF StoreNext
<1>2. /\ sample' = sample /\ device' = device
      /\ overflowed' = overflowed /\ (overflowed' <=> overflowed)
  BY DEF driver
<1>3. /\ lib' \in Seq(Arrivals) /\ Len(lib') <= LibRoom
      /\ kernel' \in Seq(Arrivals) /\ Len(kernel') <= Len(kernel)
      /\ Len(kernel') \in Nat
  BY <1>1, NextFacts, Zenon
<1>4. sync_needed' \in BOOLEAN
  <2>1. sync_needed' = (e = Dropped)
    BY <1>1, Zenon DEF NextEvent
  <2> QED BY <2>1
<1>5. cache' \in [Channels -> Values] /\ cache \in [Channels -> Values]
  <2>1. e.channel \in Channels /\ e.value \in Values
    BY DEF Events
  <2>2. cache \in [Channels -> Values]
    BY DEF TypeOK
  <2> QED BY <1>1, <2>1, <2>2
<1>6. Clean'
  <2>1. ASSUME ~overflowed
        PROVE  ~sync_needed' /\ Queue' \in Seq(Events)
    <3>1. ~sync_needed /\ Queue \in Seq(Events)
      BY <2>1 DEF Clean
    <3> QED BY <1>1, <3>1, NextIsEvent, Zenon
  <2> QED BY <1>2, <2>1, Zenon DEF Clean
<1>7. NothingSkipped'
  <2> SUFFICES ASSUME ~overflowed'
               PROVE  Brought(Queue', device', cache')
    <3>1. ASSUME ~overflowed'
          PROVE  DOMAIN Queue' = 1 .. Len(Queue')
      <4>1. Queue' \in Seq(Events)
        BY <1>6, <3>1 DEF Clean
      <4> QED BY <4>1
    <3> QED BY <3>1, BroughtIsNothingSkipped, Zenon DEF NothingSkipped, Queue
  <2>1. ~overflowed
    BY <1>2, Zenon
  <2>2. ~sync_needed /\ Queue \in Seq(Events)
    BY <2>1 DEF Clean
  <2>3. Brought(Queue, device, cache)
    <3>1. DOMAIN Queue = 1 .. Len(Queue)
      BY <2>2
    <3> QED BY <2>1, <3>1, BroughtIsNothingSkipped, Zenon
        DEF NothingSkipped, Queue
  <2>4. /\ Queue # << >> /\ e = Queue[1] /\ Queue' \in Seq(Events)
        /\ Len(Queue') = Len(Queue) - 1
        /\ \A i \in 1 .. Len(Queue') : Queue'[i] = Queue[i + 1]
    BY <1>1, <2>2, NextIsEvent, Zenon
  <2>5. cache' = [cache EXCEPT ![Queue[1].channel] = Queue[1].value]
    BY <1>1, <2>4, Zenon
  <2> QED BY <1>2, <1>5, <2>2, <2>3, <2>4, <2>5, BroughtByStore, Zenon
<1>8. ASSUME noisy, ~overflowed
      PROVE  /\ InOrder'
             /\ NextChannel \in 1 .. K /\ NextValue \in Nat
             /\ NextChannel' =
                  (IF NextChannel = K THEN 1 ELSE NextChannel + 1)
             /\ NextValue' =
                  (IF NextChannel = K THEN NextValue + 1 ELSE NextValue)
             /\ \A c \in Channels :
                  /\ cache'[c] \in {0, Stored(c)'}
                  /\ \A n : n = cache_count + 1 /\ Latest(c, n)' => cache'[c] # 0
  <2>1. ~sync_needed /\ Queue \in Seq(Events)
    BY <1>8 DEF Clean
  <2>2. InOrder /\ CacheInOrder
    BY <1>8 DEF Ordered
  <2>3. /\ e.channel = NextChannel /\ e.value = NextValue
        /\ NextChannel' = (IF NextChannel = K THEN 1 ELSE NextChannel + 1)
        /\ NextValue' = (IF NextChannel = K THEN NextValue + 1 ELSE NextValue)
        /\ InOrder'
    BY <1>1, <1>2, <2>1, <2>2, NextInOrder, Zenon
  <2>4. NextChannel \in 1 .. K /\ NextValue \in Nat /\ NextValue > 0
    BY <2>1, <2>2, ComingFacts DEF InOrder
  <2>5. cache_count \in 0 .. K - 1
    BY DEF TypeOK
  <2>6. cache \in [Channels -> Nat] /\ cache' \in [Channels -> Nat]
    BY <1>5, Sizes DEF Values
  <2>7. cache' = [cache EXCEPT ![NextChannel] = NextValue]
    BY <1>1, <2>3, Zenon
  <2>8. \A c \in Channels :
          /\ cache[c] \in {0, IF c < NextChannel THEN NextValue
                                                ELSE NextValue - 1}
          /\ \/ c < NextChannel /\ c + cache_count >= NextChannel
             \/ c + cache_count >= NextChannel + K
             => cache[c] # 0
    BY <2>2, Zenon DEF CacheInOrder, Stored, Counted, Latest
  <2>9. \A c \in Channels :
          /\ cache'[c] \in {0, IF c < NextChannel' THEN NextValue'
                                                  ELSE NextValue' - 1}
          /\ \/ c < NextChannel' /\ c + (cache_count + 1) >= NextChannel'
             \/ c + (cache_count + 1) >= NextChannel' + K
             => cache'[c] # 0
    <3> HIDE DEF NextChannel, NextValue
    <3> QED BY <2>3, <2>4, <2>5, <2>6, <2>7, <2>8, CacheStep
  <2> QED BY <2>3, <2>4, <2>9, Zenon DEF Stored, Latest
<1> QED BY <1>3, <1>4, <1>5, <1>6, <1>7, <1>8, Zenon
-----------------------------------------------------------------------------
(* The reads. *)

LEMMA PointFacts ==
  ASSUME NEW values \in [Channels -> Values], NEW c \in Channels
  PROVE  Point(values, c) \in Events /\ Point(values, c).value = values[c]
<1>1. 1 \in Channels /\ values[c] \in Values
  BY Sizes DEF Channels
<1> QED BY <1>1 DEF Point, Events

LEMMA ReadBeginsKeepsInv ==
  ASSUME IInv, ReadBegins
  PROVE  IInv'
<1> DEFINE n == cache_count
<1>1. TypeOK
  BY DEF IInv
<1>2. /\ at = "idle" /\ at' = "fill" /\ cache_count' = 0
      /\ out' = [i \in 1 .. n |-> Point(cache, K - n + i)]
      /\ UNCHANGED <<driver, queues>> /\ cache' = cache
      /\ since' = since /\ punctual' = punctual
      /\ silent_reads' = silent_reads
      /\ overflowed' = overflowed /\ noisy' = noisy
  BY DEF ReadBegins, ghosts, opened
<1>3. /\ Queue' = Queue /\ sample' = sample /\ device' = device
      /\ sync_needed' = sync_needed /\ Coming(1)' = Coming(1)
      /\ (InOrder' <=> InOrder)
      /\ kernel' = kernel /\ lib' = lib
  BY <1>2, QueuesKept, Zenon DEF queues
<1>4. n \in 0 .. K - 1 /\ cache \in [Channels -> Values]
  BY <1>1 DEF TypeOK
<1> HIDE DEF n
<1>5. /\ \A i \in 1 .. n : K - n + i \in Channels
      /\ \A i \in 1 .. n : out'[i] \in Events /\ out'[i].value = cache[K - n + i]
      /\ out' \in Seq(Events) /\ Len(out') = n /\ DOMAIN out' = 1 .. n
  <2>1. \A i \in 1 .. n : K - n + i \in Channels
    BY <1>4, Sizes DEF Channels
  <2>2. \A i \in 1 .. n : out'[i] \in Events /\ out'[i].value = cache[K - n + i]
    BY <1>2, <1>4, <2>1, PointFacts
  <2>3. out' \in [1 .. n -> Events] /\ n \in Nat
    BY <1>2, <1>4, <2>2
  <2> QED BY <2>1, <2>2, <2>3
<1>6. TypeOK'
  <2>1. Len(out') <= K /\ cache_count' \in 0 .. K - 1
    BY <1>2, <1>4, <1>5, Sizes
  <2> QED BY <1>1, <1>2, <1>3, <1>5, <2>1 DEF TypeOK
<1>7. Clean'
  BY <1>2, <1>3 DEF IInv, Clean
<1>8. NothingSkipped'
  <2>1. NothingSkipped
    BY DEF IInv
  <2>2. /\ lib' = lib /\ kernel' = kernel /\ device' = device
        /\ cache' = cache /\ overflowed' = overflowed
    BY <1>2, <1>3, Zenon
  <2> QED BY <2>1, <2>2 DEF NothingSkipped
<1>9. ASSUME noisy', ~overflowed'
      PROVE  /\ InOrder' /\ CacheInOrder' /\ OutInOrder'
             /\ \A i \in 1 .. n : /\ out'[i].value = NextValue - 1
                                  /\ out'[i].value > 0
  <2>1. noisy /\ ~overflowed
    BY <1>2, <1>9, Zenon
  <2>2. InOrder /\ CacheInOrder /\ OutInOrder
    BY <2>1 DEF IInv, Ordered
  <2>3. Queue \in Seq(Events)
    BY <2>1 DEF IInv, Clean
  <2>4. NextChannel \in 1 .. K /\ NextValue \in Nat
    BY <1>1, <2>3, ComingFacts
  <2>5. NextChannel' = NextChannel /\ NextValue' = NextValue
    BY <1>3, Zenon DEF NextChannel, NextValue
  <2>6. ASSUME NEW i \in 1 .. n
        PROVE  /\ NextChannel = 1
               /\ out'[i].value = NextValue - 1 /\ out'[i].value > 0
    <3>1. NextChannel = 1
      BY <1>2, <1>4, <2>2, <2>6 DEF OutInOrder, n
    <3> DEFINE c == K - n + i
    <3>2. c \in Channels /\ out'[i].value = cache[c]
      BY <1>5, Zenon
    <3>3. Counted(c) /\ Stored(c) = NextValue - 1
      BY <1>4, <3>1, <3>2, Sizes DEF Counted, Latest, Stored, n, Channels
    <3>4. cache[c] = NextValue - 1 /\ cache[c] # 0
      BY <2>2, <3>2, <3>3 DEF CacheInOrder
    <3>5. cache[c] \in Nat
      BY <1>4, <3>2, Sizes DEF Values
    <3> HIDE DEF c
    <3> QED BY <2>4, <3>1, <3>2, <3>4, <3>5
  <2>7. CacheInOrder'
    <3>1. \A c \in Channels : ~Counted(c)'
      BY <1>2, <2>4, <2>5, Sizes DEF Counted, Latest, Channels
    <3>2. \A c \in Channels : cache'[c] \in {0, Stored(c)'}
      BY <1>2, <2>2, <2>5 DEF CacheInOrder, Stored
    <3> QED BY <3>1, <3>2, Zenon DEF CacheInOrder
  <2>8. OutInOrder'
    <3>1. out' # << >> => 1 \in 1 .. n
      BY <1>4, <1>5
    <3>2. out' # << >> => NextChannel' = cache_count' + 1
      BY <1>2, <2>5, <2>6, <3>1
    <3>3. \A i \in DOMAIN out' : out'[i].value = NextValue' - 1
      BY <1>5, <2>5, <2>6, Zenon
    <3>4. at' # "idle"
      BY <1>2
    <3> QED BY <3>2, <3>3, <3>4, Zenon DEF OutInOrder
  <2> QED BY <1>3, <2>2, <2>6, <2>7, <2>8, Zenon
<1>10. Ordered'
  BY <1>9, Zenon DEF Ordered
<1>11. SamplesStayTogether'
  <2> SUFFICES ASSUME noisy', ~overflowed', NEW i \in 1 .. n, NEW j \in 1 .. n
               PROVE  out'[i].value > 0 /\ out'[i].value <= out'[j].value + 1
    BY <1>5, Zenon DEF SamplesStayTogether
  <2>1. out'[i].value = out'[j].value /\ out'[i].value > 0
    BY <1>9, Zenon
  <2>2. out'[i].value \in Nat
    BY <1>5, Sizes DEF Events, Values
  <2> QED BY <2>1, <2>2
<1>12. Patient'
  BY <1>2, Zenon DEF IInv, Patient
<1>13. HeardSoon'
  <2>1. Waiting' => Waiting /\ cache_count = 0
    <3>1. out' = << >> => n = 0
      BY <1>5
    <3> QED BY <1>2, <3>1 DEF Waiting, n
  <2>2. HeardSoon
    BY DEF IInv
  <2> QED BY <1>2, <1>3, <2>1, <2>2, Zenon DEF HeardSoon
<1>14. ActiveDeviceIsHeard'
  BY <1>2, Zenon DEF IInv, ActiveDeviceIsHeard
<1> QED BY <1>6, <1>7, <1>8, <1>10, <1>11, <1>12, <1>13, <1>14, Zenon DEF IInv
(* SYN_DROPPED comes only where nothing is promised any more.              *)
LEMMA SkipEventKeepsInv ==
  ASSUME IInv, SkipEvent
  PROVE  IInv'
<1>1. TypeOK /\ Clean /\ HeardSoon
  BY DEF IInv
<1>2. /\ NextEvent(Dropped)
      /\ UNCHANGED <<sample, device, at, cache, cache_count, out, since,
                     punctual, silent_reads, overflowed, noisy>>
  BY DEF SkipEvent, driver, hal, ghosts, opened
<1>3. overflowed /\ overflowed' /\ ~(punctual /\ Waiting)
  <2>1. ASSUME ~sync_needed, Queue \in Seq(Events)
        PROVE  FALSE
    <3>1. Dropped \in Events
      BY <1>1, <1>2, <2>1, NextIsEvent, Zenon
    <3> QED BY <3>1, MpuHalAssumption
  <2>2. overflowed /\ ~(punctual /\ Waiting)
    BY <1>1, <2>1, Zenon DEF Clean, HeardSoon
  <2> QED BY <1>2, <2>2
<1>4. TypeOK'
  <2>1. /\ lib' \in Seq(Arrivals) /\ Len(lib') <= LibRoom
        /\ kernel' \in Seq(Arrivals) /\ Len(kernel') <= Len(kernel)
        /\ Len(kernel') \in Nat
    BY <1>1, <1>2, NextFacts, Zenon
  <2>2. Len(kernel') <= KernelRoom
    BY <1>1, <2>1, QueueFacts, Sizes DEF TypeOK
  <2>3. sync_needed' \in BOOLEAN
    <3>1. sync_needed' = (Dropped = Dropped)
      BY <1>2, Zenon DEF NextEvent
    <3> QED BY <3>1
  <2> QED BY <1>1, <1>2, <2>1, <2>2, <2>3 DEF TypeOK, Arrivals
<1>5. Clean' /\ NothingSkipped' /\ Ordered' /\ SamplesStayTogether'
  BY <1>3, Zenon DEF Clean, NothingSkipped, Ordered, SamplesStayTogether
<1>6. Patient' /\ ActiveDeviceIsHeard'
  BY <1>2, Zenon DEF IInv, Patient, ActiveDeviceIsHeard
<1>7. HeardSoon'
  <2>1. (Waiting' <=> Waiting) /\ (punctual' <=> punctual)
    BY <1>2 DEF Waiting
  <2> QED BY <1>3, <2>1, Zenon DEF HeardSoon
<1> QED BY <1>4, <1>5, <1>6, <1>7, Zenon DEF IInv

LEMMA CacheEventKeepsInv ==
  ASSUME IInv, CacheEvent
  PROVE  IInv'
<1>1. TypeOK /\ Clean /\ NothingSkipped /\ Ordered /\ SamplesStayTogether
  BY DEF IInv
<1>2. /\ at = "fill" /\ cache_count + 1 < K /\ cache_count' = cache_count + 1
      /\ StoreNext
      /\ UNCHANGED <<sample, device, at, out, since, punctual, silent_reads,
                     overflowed, noisy>>
      /\ UNCHANGED <<driver, overflowed>>
  BY DEF CacheEvent, driver, ghosts, opened
<1>3. /\ lib' \in Seq(Arrivals) /\ Len(lib') <= LibRoom
      /\ kernel' \in Seq(Arrivals) /\ Len(kernel') <= Len(kernel)
      /\ Len(kernel') \in Nat
      /\ sync_needed' \in BOOLEAN
      /\ cache' \in [Channels -> Values]
      /\ Clean' /\ NothingSkipped'
  BY <1>1, <1>2, StoreFacts, Zenon
<1>4. cache_count \in Nat /\ cache_count' \in 0 .. K - 1
  BY <1>1, <1>2, Sizes DEF TypeOK
<1>5. noisy' = noisy /\ overflowed' = overflowed /\ out' = out
  BY <1>2
<1>6. TypeOK'
  <2>1. Len(kernel') <= KernelRoom
    BY <1>1, <1>3, QueueFacts, Sizes DEF TypeOK
  <2> QED BY <1>1, <1>2, <1>3, <1>4, <2>1 DEF TypeOK, Arrivals
<1>7. Ordered'
  <2> SUFFICES ASSUME noisy', ~overflowed'
               PROVE  InOrder' /\ CacheInOrder' /\ OutInOrder'
    BY Zenon DEF Ordered
  <2>1. noisy /\ ~overflowed
    BY <1>5, Zenon
  <2>2. /\ InOrder'
        /\ NextChannel \in 1 .. K /\ NextValue \in Nat
        /\ NextChannel' = (IF NextChannel = K THEN 1 ELSE NextChannel + 1)
        /\ NextValue' = (IF NextChannel = K THEN NextValue + 1 ELSE NextValue)
        /\ \A c \in Channels :
             /\ cache'[c] \in {0, Stored(c)'}
             /\ \A n : n = cache_count + 1 /\ Latest(c, n)' => cache'[c] # 0
    BY <1>1, <1>2, <2>1, StoreFacts, Zenon
  <2>3. CacheInOrder'
    BY <1>2, <2>2, Zenon DEF CacheInOrder, Counted
  <2>4. OutInOrder'
    <3>1. OutInOrder
      BY <1>1, <2>1 DEF Ordered
    <3>2. ASSUME out # << >>
          PROVE  /\ NextChannel = cache_count + 1
                 /\ \A i \in DOMAIN out : out[i].value = NextValue - 1
      BY <1>2, <3>1, <3>2, Zenon DEF OutInOrder
    <3>3. ASSUME out # << >>
          PROVE  NextChannel' = cache_count' + 1 /\ NextValue' = NextValue
      <4>1. NextChannel = cache_count + 1 /\ NextChannel # K
        BY <1>2, <1>4, <3>2, <3>3, Sizes
      <4> QED BY <1>2, <2>2, <4>1
    <3>4. at' # "idle" /\ out' = out
      BY <1>2
    <3> QED BY <3>2, <3>3, <3>4, Zenon DEF OutInOrder
  <2> QED BY <2>2, <2>3, <2>4, Zenon
<1>8. SamplesStayTogether'
  BY <1>1, <1>5, Zenon DEF SamplesStayTogether
<1>9. Patient' /\ ActiveDeviceIsHeard'
  BY <1>2, Zenon DEF IInv, Patient, ActiveDeviceIsHeard
<1>10. HeardSoon'
  <2> SUFFICES ASSUME punctual', Waiting'
               PROVE  /\ silent_reads' = 1
                      /\ ~sync_needed' /\ Queue' \in Seq(Events)
                      /\ Len(kernel') <= since' * K
                      /\ cache_count' > 0
    BY Zenon DEF HeardSoon
  <2>1. punctual /\ Waiting
    BY <1>2 DEF Waiting
  <2>2. /\ silent_reads = 1 /\ ~sync_needed /\ Queue \in Seq(Events)
        /\ Len(kernel) <= since * K
    BY <2>1 DEF IInv, HeardSoon
  <2>3. Queue' \in Seq(Events) /\ ~sync_needed'
    BY <1>1, <1>2, <2>2, NextIsEvent, Zenon DEF StoreNext
  <2>4. Len(kernel') <= since * K
    <3>1. since * K \in Nat /\ Len(kernel) \in Nat
      BY <1>1, QueueFacts, Sizes DEF TypeOK
    <3> QED BY <1>3, <2>2, <3>1
  <2>5. cache_count' > 0
    BY <1>2, <1>4
  <2> QED BY <1>2, <2>2, <2>3, <2>4, <2>5, Zenon
<1> QED BY <1>3, <1>6, <1>7, <1>8, <1>9, <1>10, Zenon DEF IInv
LEMMA LatestOfNoneAndAll ==
  ASSUME NEW c \in Channels, NEW x \in 1 .. K
  PROVE  /\ (c < x /\ c + K >= x) \/ c + K >= x + K
         /\ ~(c < x /\ c + 0 >= x) /\ ~(c + 0 >= x + K)
BY Sizes DEF Channels

(* With the last of K events in order, the whole cache is of two samples.  *)
LEMMA CacheIsFullKeepsInv ==
  ASSUME IInv, CacheIsFull
  PROVE  IInv'
<1> DEFINE r      == K - Len(out)
           points == [i \in 1 .. r |-> Point(cache', i)]
<1>1. TypeOK /\ Clean /\ NothingSkipped /\ Ordered /\ SamplesStayTogether
  BY DEF IInv
<1>2. /\ cache_count + 1 >= K /\ cache_count' = 0 /\ StoreNext
      /\ at = "fill" /\ at' = "idle" /\ out' = out \o points
      /\ UNCHANGED <<driver, overflowed>>
  BY DEF CacheIsFull, Return, Room, opened
<1>3. /\ since' = 0
      /\ silent_reads' = IF out' # << >> THEN 0
                         ELSE IF since > 0 THEN silent_reads + 1
                         ELSE silent_reads
      /\ sample' = sample /\ device' = device /\ punctual' = punctual
      /\ overflowed' = overflowed /\ noisy' = noisy
  BY DEF CacheIsFull, Return, driver, opened
<1>4. /\ lib' \in Seq(Arrivals) /\ Len(lib') <= LibRoom
      /\ kernel' \in Seq(Arrivals) /\ Len(kernel') <= Len(kernel)
      /\ Len(kernel') \in Nat
      /\ sync_needed' \in BOOLEAN
      /\ cache' \in [Channels -> Values]
      /\ Clean' /\ NothingSkipped'
  BY <1>1, <1>2, StoreFacts, Zenon
<1>5. /\ cache_count \in Nat /\ cache_count + 1 = K
      /\ out \in Seq(Events) /\ Len(out) \in 0 .. K /\ r \in 0 .. K
  BY <1>1, <1>2, Sizes DEF TypeOK
<1>6. \A i \in 1 .. r : i \in Channels
  BY <1>5, Sizes DEF Channels
<1> HIDE DEF r
<1>7. /\ points \in Seq(Events) /\ Len(points) = r
      /\ \A i \in 1 .. r : points[i].value = cache'[i]
  <2>1. \A i \in 1 .. r : points[i] \in Events /\ points[i].value = cache'[i]
    BY <1>4, <1>6, PointFacts
  <2>2. points \in [1 .. r -> Events] /\ r \in Nat
    BY <1>5, <2>1
  <2> QED BY <2>1, <2>2
<1> HIDE DEF points
<1>8. /\ out' \in Seq(Events) /\ Len(out') = K /\ DOMAIN out' = 1 .. K
      /\ out' # << >>
      /\ \A i \in 1 .. K :
           out'[i] = IF i <= Len(out) THEN out[i] ELSE points[i - Len(out)]
  <2>1. /\ out \o points \in Seq(Events)
        /\ Len(out \o points) = Len(out) + Len(points)
        /\ \A i \in 1 .. Len(out) + Len(points) : (out \o points)[i] =
             IF i <= Len(out) THEN out[i] ELSE points[i - Len(out)]
    BY <1>5, <1>7, ConcatProperties
  <2>2. Len(out) + Len(points) = K
    BY <1>5, <1>7, Sizes DEF r
  <2>3. /\ out' \in Seq(Events) /\ Len(out') = K
        /\ \A i \in 1 .. K :
             out'[i] = IF i <= Len(out) THEN out[i] ELSE points[i - Len(out)]
    BY <1>2, <2>1, <2>2, Zenon
  <2>4. DOMAIN out' = 1 .. K /\ out' # << >>
    BY <2>3, Sizes
  <2> QED BY <2>3, <2>4, Zenon
<1>9. silent_reads' = 0
  BY <1>3, <1>8, Zenon
<1>10. TypeOK'
  <2>1. Len(kernel') <= KernelRoom /\ 0 \in 0 .. K - 1 /\ K <= K
    BY <1>1, <1>4, QueueFacts, Sizes DEF TypeOK
  <2> QED BY <1>1, <1>2, <1>3, <1>4, <1>8, <1>9, <2>1, Sizes
      DEF TypeOK, Arrivals
<1>11. ASSUME noisy', ~overflowed'
       PROVE  /\ InOrder' /\ CacheInOrder' /\ OutInOrder'
              /\ \E w \in Nat : /\ w > 0
                                /\ \A i \in 1 .. K : /\ out'[i].value > 0
                                                    /\ out'[i].value \in {w, w - 1}
  <2>1. noisy /\ ~overflowed
    BY <1>3, <1>11, Zenon
  <2>2. /\ InOrder'
        /\ NextChannel \in 1 .. K /\ NextValue \in Nat
        /\ NextChannel' = (IF NextChannel = K THEN 1 ELSE NextChannel + 1)
        /\ NextValue' = (IF NextChannel = K THEN NextValue + 1 ELSE NextValue)
        /\ \A c \in Channels :
             /\ cache'[c] \in {0, Stored(c)'}
             /\ \A n : n = cache_count + 1 /\ Latest(c, n)' => cache'[c] # 0
    BY <1>1, <1>2, <2>1, StoreFacts, Zenon
  <2>3. NextChannel' \in 1 .. K /\ NextValue' \in Nat /\ NextValue' > 0
    <3>1. NextChannel' \in 1 .. K /\ NextValue' \in Nat
      BY <2>2, Sizes
    <3> QED BY <2>2, <3>1 DEF InOrder
  <2>4. \A c \in Channels : cache'[c] = Stored(c)' /\ cache'[c] > 0
    <3> SUFFICES ASSUME NEW c \in Channels
                 PROVE  cache'[c] = Stored(c)' /\ cache'[c] > 0
      OBVIOUS
    <3>1. \/ c < NextChannel' /\ c + K >= NextChannel'
          \/ c + K >= NextChannel' + K
      BY <2>3, LatestOfNoneAndAll, Zenon
    <3>2. Latest(c, K)'
      BY <3>1, Zenon DEF Latest
    <3>3. cache'[c] # 0
      BY <1>5, <2>2, <3>2, Zenon
    <3>4. cache'[c] \in Nat
      BY <1>4, Sizes DEF Values
    <3> QED BY <2>2, <3>3, <3>4
  <2>5. CacheInOrder'
    <3>1. \A c \in Channels : ~Counted(c)'
      BY <1>2, <2>3, LatestOfNoneAndAll, Zenon DEF Counted, Latest
    <3> QED BY <2>2, <3>1, Zenon DEF CacheInOrder
  <2>6. OutInOrder'
    BY <1>2 DEF OutInOrder
  <2>7. CASE out = << >>
    <3>1. Len(out) = 0 /\ r = K
      BY <1>5, <2>7, Sizes DEF r
    <3>2. \A i \in 1 .. K : out'[i].value = cache'[i] /\ i \in Channels
      BY <1>6, <1>7, <1>8, <3>1
    <3>3. \A i \in 1 .. K : /\ out'[i].value > 0
                            /\ out'[i].value \in {NextValue', NextValue' - 1}
      BY <2>4, <3>2 DEF Stored
    <3> QED BY <2>2, <2>3, <2>5, <2>6, <3>3, Zenon
  <2>8. CASE out # << >>
    <3>1. /\ NextChannel = K
          /\ \A i \in 1 .. Len(out) : out[i].value = NextValue - 1
      <4>1. OutInOrder
        BY <1>1, <2>1 DEF Ordered
      <4>2. /\ NextChannel = cache_count + 1
            /\ \A i \in DOMAIN out : out[i].value = NextValue - 1
        BY <1>2, <2>8, <4>1, Zenon DEF OutInOrder
      <4>3. DOMAIN out = 1 .. Len(out)
        BY <1>5
      <4> QED BY <1>5, <4>2, <4>3
    <3>2. \A i \in 1 .. Len(out) : out[i].value > 0
      <4>1. DOMAIN out = 1 .. Len(out)
        BY <1>5
      <4> QED BY <1>1, <2>1, <4>1 DEF SamplesStayTogether
    <3>3. NextChannel' = 1 /\ NextValue' = NextValue + 1
      BY <2>2, <3>1, Zenon
    <3>4. \A c \in Channels : cache'[c] = NextValue /\ cache'[c] > 0
      <4>1. \A c \in Channels : Stored(c)' = NextValue
        <5>1. \A c \in Channels : ~(c < NextChannel')
          BY <3>3, Sizes DEF Channels
        <5>2. NextValue' - 1 = NextValue
          BY <2>2, <3>3
        <5> QED BY <5>1, <5>2, Zenon DEF Stored
      <4> QED BY <2>4, <4>1
    <3>5. NextValue > 0
      <4>1. 1 \in Channels
        BY Sizes DEF Channels
      <4> QED BY <3>4, <4>1
    <3>6. ASSUME NEW i \in 1 .. K
          PROVE  /\ out'[i].value > 0
                 /\ out'[i].value \in {NextValue, NextValue - 1}
      <4>1. CASE i <= Len(out)
        BY <1>5, <1>8, <3>1, <3>2, <4>1
      <4>2. CASE ~(i <= Len(out))
        <5>1. i - Len(out) \in 1 .. r
          BY <1>5, <4>2, Sizes DEF r
        <5>2. out'[i] = points[i - Len(out)]
          BY <1>8, <4>2, Zenon
        <5>3. /\ points[i - Len(out)].value = cache'[i - Len(out)]
              /\ i - Len(out) \in Channels
          BY <1>6, <1>7, <5>1, Zenon
        <5> QED BY <3>4, <5>2, <5>3, Zenon
      <4> QED BY <4>1, <4>2
    <3> QED BY <2>2, <2>5, <2>6, <3>5, <3>6, Zenon
  <2> QED BY <2>7, <2>8
<1>12. Ordered'
  BY <1>11, Zenon DEF Ordered
<1>13. SamplesStayTogether'
  <2> SUFFICES ASSUME noisy', ~overflowed', NEW i \in 1 .. K, NEW j \in 1 .. K
               PROVE  out'[i].value > 0 /\ out'[i].value <= out'[j].value + 1
    BY <1>8, Zenon DEF SamplesStayTogether
  <2>1. PICK w \in Nat : /\ w > 0
                         /\ \A k \in 1 .. K : /\ out'[k].value > 0
                                             /\ out'[k].value \in {w, w - 1}
    BY <1>11
  <2>2. /\ out'[i].value > 0 /\ out'[i].value \in {w, w - 1}
        /\ out'[j].value \in {w, w - 1}
    BY <2>1
  <2> QED BY <2>1, <2>2
<1>14. Patient'
  BY <1>3, Sizes DEF Patient
<1>15. HeardSoon'
  BY <1>9 DEF HeardSoon, Waiting
<1>16. ActiveDeviceIsHeard'
  BY <1>9 DEF ActiveDeviceIsHeard
<1> QED BY <1>4, <1>10, <1>12, <1>13, <1>14, <1>15, <1>16, Zenon DEF IInv
(* A read ends only where both queues are empty.                           *)
LEMMA NothingPending ==
  ASSUME TypeOK, Pending = << >>
  PROVE  /\ kernel = << >> /\ Len(kernel) = 0
         /\ ~sync_needed => Queue = << >> /\ Len(Queue) = 0
<1> DEFINE p    == Portion
           some == SubSeq(kernel, 1, p)
<1>1. /\ lib \in Seq(Arrivals) /\ kernel \in Seq(Arrivals)
      /\ Len(kernel) \in Nat /\ Len(lib) \in Nat /\ Len(lib) <= LibRoom
  BY QueueFacts DEF TypeOK
<1>2. Kept \in Seq(Arrivals) /\ Len(Kept) \in Nat /\ Len(Kept) <= LibRoom
  <2>1. << >> \in Seq(Arrivals) /\ Len(<< >>) = 0
    OBVIOUS
  <2> QED BY <1>1, <2>1, Sizes DEF Kept
<1>3. p = IF Len(kernel) <= LibRoom - Len(Kept)
            THEN Len(kernel) ELSE LibRoom - Len(Kept)
  <2>1. LibRoom - Len(Kept) \in Nat
    BY <1>2, Sizes
  <2> QED BY <1>1, <2>1, MinOfTwo DEF Portion
<1>4. Pending = Kept \o some
  BY DEF Pending
<1> HIDE DEF p
<1>5. p \in 0 .. Len(kernel)
  BY <1>1, <1>2, <1>3, Sizes
<1>6. some \in Seq(Arrivals) /\ Len(some) = p
  BY <1>1, <1>5, SplitAt, Zenon
<1> HIDE DEF some
<1>7. Len(Kept) = 0 /\ p = 0
  <2>1. Len(Kept \o some) = Len(Kept) + Len(some)
    BY <1>2, <1>6, ConcatProperties, Zenon
  <2>2. Len(Kept \o some) = 0
    BY <1>4
  <2>3. Len(Kept) + p = 0
    BY <1>6, <2>1, <2>2, Zenon
  <2> QED BY <1>1, <1>2, <1>5, <2>3
<1>8. Len(kernel) = 0 /\ kernel = << >>
  <2>1. Len(kernel) = 0
    BY <1>1, <1>3, <1>7, Sizes
  <2> QED BY <1>1, <2>1, EmptySeq
<1>9. ASSUME ~sync_needed
      PROVE  Queue = << >> /\ Len(Queue) = 0
  <2>1. Len(lib) = 0
    BY <1>7, <1>9 DEF Kept
  <2>2. Len(Queue) = 0 /\ Queue \in Seq(Arrivals)
    BY <1>8, <2>1, QueueFacts
  <2> QED BY <2>2, EmptySeq
<1> QED BY <1>8, <1>9

LEMMA NoMoreEventsKeepsInv ==
  ASSUME IInv, NoMoreEvents
  PROVE  IInv'
<1>1. TypeOK /\ Clean /\ NothingSkipped /\ Ordered /\ SamplesStayTogether
  BY DEF IInv
<1>2. /\ at = "fill" /\ Pending = << >>
      /\ lib' = << >> /\ sync_needed' = FALSE
      /\ at' = "idle" /\ out' = out /\ since' = 0
      /\ silent_reads' = IF out # << >> THEN 0
                         ELSE IF since > 0 THEN silent_reads + 1
                         ELSE silent_reads
      /\ sample' = sample /\ device' = device /\ punctual' = punctual
      /\ kernel' = kernel /\ cache' = cache /\ cache_count' = cache_count
  BY DEF NoMoreEvents, Return, driver
<1>3. overflowed' = overflowed /\ noisy' = noisy
  BY DEF NoMoreEvents, Return, opened
<1>4. /\ kernel = << >> /\ Len(kernel) = 0
      /\ ~sync_needed => Queue = << >> /\ Len(Queue) = 0
  BY <1>1, <1>2, NothingPending, Zenon
<1>5. Queue' = << >> /\ Len(Queue') = 0 /\ Queue' \in Seq(Events)
  <2>1. << >> \o << >> = << >> /\ Len(<< >>) = 0 /\ << >> \in Seq(Events)
    OBVIOUS
  <2> QED BY <1>2, <1>4, <2>1, Zenon DEF Queue
<1>6. ~sync_needed'
  BY <1>2, Zenon
<1>7. TypeOK'
  <2>1. silent_reads \in Nat /\ silent_reads' \in Nat
    BY <1>1, <1>2 DEF TypeOK
  <2>2. sync_needed' \in BOOLEAN
    BY <1>2
  <2>3. lib' \in Seq(Events \cup {Dropped}) /\ Len(lib') <= LibRoom
    BY <1>2, Sizes
  <2>4. since' \in 0 .. RoundSamples + 1
    BY <1>2, Sizes
  <2>5. at' \in {"idle", "fill"}
    BY <1>2
  <2> QED BY <1>1, <1>2, <1>3, <2>1, <2>2, <2>3, <2>4, <2>5, Zenon DEF TypeOK
<1>8. Clean'
  BY <1>5, <1>6, Zenon DEF Clean
<1>9. ASSUME ~overflowed'
      PROVE  ~overflowed /\ Queue' = Queue
  BY <1>1, <1>3, <1>4, <1>5, <1>9, Zenon DEF Clean
<1>10. NothingSkipped'
  <2> SUFFICES ASSUME ~overflowed'
               PROVE  Brought(Queue', device', cache')
    <3>1. DOMAIN Queue' = 1 .. Len(Queue')
      BY <1>5
    <3> QED BY <3>1, BroughtIsNothingSkipped, Zenon DEF NothingSkipped, Queue
  <2>1. Brought(Queue, device, cache)
    <3>1. DOMAIN Queue = 1 .. Len(Queue)
      BY <1>1, QueueFacts
    <3> QED BY <1>1, <1>9, <3>1, BroughtIsNothingSkipped, Zenon
        DEF NothingSkipped, Queue
  <2> QED BY <1>2, <1>9, <2>1, Zenon
<1>11. ASSUME noisy', ~overflowed'
       PROVE  InOrder' /\ CacheInOrder' /\ OutInOrder'
  <2>1. noisy /\ ~overflowed /\ Queue' = Queue
    BY <1>3, <1>9, <1>11, Zenon
  <2>2. InOrder /\ CacheInOrder
    BY <1>1, <2>1 DEF Ordered
  <2>3. \A i : Coming(i)' = Coming(i)
    BY <1>2, <2>1, Zenon DEF Coming
  <2>4. NextChannel' = NextChannel /\ NextValue' = NextValue
    BY <2>3, Zenon DEF NextChannel, NextValue
  <2>5. InOrder'
    BY <2>1, <2>2, <2>3, <2>4, Zenon DEF InOrder, Succ
  <2>6. CacheInOrder'
    BY <1>2, <2>2, <2>4, Zenon DEF CacheInOrder, Counted, Latest, Stored
  <2>7. NextChannel' = 1
    <3>1. ~(1 <= Len(Queue'))
      BY <1>5
    <3>2. Coming(1)' = [channel |-> 1, value |-> sample' + 1]
      BY <3>1, Zenon DEF Coming
    <3> QED BY <3>2 DEF NextChannel
  <2>8. at' # "fill"
    BY <1>2
  <2> QED BY <2>5, <2>6, <2>7, <2>8, Zenon DEF OutInOrder
<1>12. Ordered'
  BY <1>11, Zenon DEF Ordered
<1>13. SamplesStayTogether'
  <2>1. out' = out
    BY <1>2
  <2> QED BY <1>1, <1>3, <2>1, Zenon DEF SamplesStayTogether
<1>14. Patient'
  BY <1>2, Sizes DEF Patient
<1>15. ASSUME punctual', silent_reads' > 0
       PROVE  /\ silent_reads' <= 2
              /\ cache_count = 0 => silent_reads' = 1
  <2>1. punctual /\ HeardSoon
    BY <1>2, <1>15 DEF IInv
  <2>2. out = << >>
    BY <1>2, <1>15
  <2>3. silent_reads \in Nat
    BY <1>1 DEF TypeOK
  <2>4. CASE silent_reads = 0
    <3>1. silent_reads' = IF since > 0 THEN silent_reads + 1 ELSE silent_reads
      BY <1>2, <2>2, Zenon
    <3>2. silent_reads' = 1
      BY <1>15, <2>4, <3>1
    <3> QED BY <3>2
  <2>5. CASE silent_reads > 0
    <3>1. Waiting
      BY <1>2, <2>2, <2>5 DEF Waiting
    <3>2. /\ silent_reads = 1 /\ ~sync_needed
          /\ since > 0 => cache_count > 0 \/ Len(Queue) > 0
      BY <2>1, <3>1, Zenon DEF HeardSoon
    <3>3. Len(Queue) = 0
      BY <1>4, <3>2
    <3>4. cache_count = 0 => ~(since > 0)
      BY <3>2, <3>3
    <3>5. silent_reads' <= 2 /\ (~(since > 0) => silent_reads' = 1)
      BY <1>2, <2>2, <3>2
    <3> QED BY <3>4, <3>5, Zenon
  <2> QED BY <2>3, <2>4, <2>5
<1>16. HeardSoon'
  <2> SUFFICES ASSUME punctual', Waiting'
               PROVE  /\ silent_reads' = 1
                      /\ ~sync_needed' /\ Queue' \in Seq(Events)
                      /\ Len(kernel') <= since' * K
                      /\ ~(since' > 0)
    BY Zenon DEF HeardSoon
  <2>1. silent_reads' > 0 /\ cache_count = 0
    BY <1>2 DEF Waiting
  <2>2. Len(kernel') <= since' * K /\ ~(since' > 0)
    BY <1>2, <1>4, Sizes
  <2> QED BY <1>5, <1>6, <1>15, <2>1, <2>2, Zenon
<1>17. ActiveDeviceIsHeard'
  <2>1. silent_reads' \in Nat
    BY <1>7 DEF TypeOK
  <2> QED BY <1>15, <2>1 DEF ActiveDeviceIsHeard
<1> QED BY <1>7, <1>8, <1>10, <1>12, <1>13, <1>14, <1>16, <1>17, Zenon DEF IInv
-----------------------------------------------------------------------------
(* The driver. *)

(* A sample adds one event for each axis that changed, and nothing else.   *)
LEMMA BroughtBySample ==
  ASSUME Queue \in Seq(Events), NEW news \in Seq(Events),
         NEW changed \in SUBSET Channels, NEW number,
         \A i \in 1 .. Len(news) : /\ news[i].channel \in changed
                                   /\ news[i].value = number,
         \A c \in changed : \E i \in 1 .. Len(news) :
           /\ news[i].channel = c
           /\ \A j \in 1 .. Len(news) : news[j].channel = c => j = i,
         Brought(Queue, device, cache),
         \A c \in changed : device'[c] = number,
         \A c \in Channels \ changed : device'[c] = device[c],
         Queue' = Queue \o news
  PROVE  Brought(Queue', device', cache)
<1> DEFINE n == Len(Queue)
           m == Len(news)
<1>1. /\ n \in Nat /\ m \in Nat /\ Queue' \in Seq(Events) /\ Len(Queue') = n + m
      /\ \A i \in 1 .. n : Queue'[i] = Queue[i]
      /\ \A i \in 1 .. m : Queue'[n + i] = news[i]
  BY ConcatParts
<1>2. \A j \in 1 .. Len(Queue') : j \in 1 .. n \/ \E i \in 1 .. m : j = n + i
  <2> SUFFICES ASSUME NEW j \in 1 .. Len(Queue'), j \notin 1 .. n
               PROVE  \E i \in 1 .. m : j = n + i
    OBVIOUS
  <2> HIDE DEF n, m
  <2>1. j - n \in 1 .. m /\ j = n + (j - n)
    BY <1>1
  <2> QED BY <2>1
<1> HIDE DEF n, m
<1> SUFFICES ASSUME NEW c \in Channels
             PROVE  \/ \E i \in 1 .. Len(Queue') :
                         /\ Queue'[i].channel = c /\ Queue'[i].value = device'[c]
                         /\ \A j \in 1 .. Len(Queue') :
                              Queue'[j].channel = c => j <= i
                    \/ /\ \A i \in 1 .. Len(Queue') : Queue'[i].channel # c
                       /\ cache[c] \in {0, device'[c]}
  BY Zenon DEF Brought
<1>3. CASE c \in changed
  <2>1. PICK i \in 1 .. m : /\ news[i].channel = c
                            /\ \A j \in 1 .. m : news[j].channel = c => j = i
    BY <1>3 DEF m
  <2>2. device'[c] = number /\ news[i].value = number
    BY <1>3 DEF m
  <2>3. n + i \in 1 .. Len(Queue') /\ Queue'[n + i] = news[i]
    BY <1>1
  <2>4. ASSUME NEW j \in 1 .. Len(Queue'), Queue'[j].channel = c
        PROVE  j <= n + i
    <3>1. CASE j \in 1 .. n
      BY <1>1, <3>1
    <3>2. CASE \E k \in 1 .. m : j = n + k
      <4>1. PICK k \in 1 .. m : j = n + k
        BY <3>2
      <4>2. news[k].channel = c
        BY <1>1, <2>4, <4>1
      <4>3. k = i
        BY <2>1, <4>2
      <4> QED BY <1>1, <4>1, <4>3
    <3> QED BY <1>2, <3>1, <3>2
  <2> QED BY <2>1, <2>2, <2>3, <2>4, Zenon
<1>4. CASE c \notin changed
  <2>1. device'[c] = device[c]
    BY <1>4
  <2>2. ASSUME NEW j \in 1 .. Len(Queue'), Queue'[j].channel = c
        PROVE  j \in 1 .. n /\ Queue[j].channel = c
    <3>1. CASE j \in 1 .. n
      BY <1>1, <2>2, <3>1
    <3>2. CASE \E k \in 1 .. m : j = n + k
      <4>1. PICK k \in 1 .. m : j = n + k
        BY <3>2
      <4>2. news[k].channel = c
        BY <1>1, <2>2, <4>1
      <4> QED BY <1>4, <4>2 DEF m
    <3> QED BY <1>2, <3>1, <3>2
  <2>3. CASE \E i \in 1 .. n :
               /\ Queue[i].channel = c /\ Queue[i].value = device[c]
               /\ \A j \in 1 .. n : Queue[j].channel = c => j <= i
    <3>1. PICK i \in 1 .. n :
                 /\ Queue[i].channel = c /\ Queue[i].value = device[c]
                 /\ \A j \in 1 .. n : Queue[j].channel = c => j <= i
      BY <2>3
    <3>2. i \in 1 .. Len(Queue') /\ Queue'[i] = Queue[i]
      BY <1>1
    <3> QED BY <2>1, <2>2, <3>1, <3>2, Zenon
  <2>4. CASE /\ \A i \in 1 .. n : Queue[i].channel # c
             /\ cache[c] \in {0, device[c]}
    BY <2>1, <2>2, <2>4, Zenon
  <2> QED BY <2>3, <2>4, Zenon DEF Brought, n
<1> QED BY <1>3, <1>4
(* What is left of a report that is cut at its front.                      *)
LEMMA RestOfReport ==
  ASSUME NEW S, NEW s \in Seq(S), NEW n \in 1 .. Len(s) + 1
  PROVE  /\ SubSeq(s, n, Len(s)) \in Seq(S)
         /\ Len(SubSeq(s, n, Len(s))) = Len(s) - n + 1
         /\ \A i \in 1 .. Len(s) - n + 1 :
              SubSeq(s, n, Len(s))[i] = s[n + i - 1]
<1>1. /\ n \in Int /\ Len(s) \in Int /\ n >= 1 /\ n <= Len(s) + 1
      /\ \A i \in n .. Len(s) : s[i] \in S
  OBVIOUS
<1>2. /\ SubSeq(s, n, Len(s)) \in Seq(S)
      /\ Len(SubSeq(s, n, Len(s))) =
           IF n <= Len(s) THEN Len(s) - n + 1 ELSE 0
      /\ \A i \in 1 .. Len(s) - n + 1 :
           SubSeq(s, n, Len(s))[i] = s[n + i - 1]
  BY <1>1, SubSeqProperties
<1>3. (IF n <= Len(s) THEN Len(s) - n + 1 ELSE 0) = Len(s) - n + 1
  BY <1>1
<1> QED BY <1>2, <1>3

LEMMA TakeFacts ==
  ASSUME TypeOK, NEW changed \in ChangeSets, Take(changed)
  PROVE  /\ sample \in Nat /\ sample < MaxSamples /\ sample' = sample + 1
         /\ sample' \in Values /\ device' \in [Channels -> Values]
<1>1. /\ sample \in Nat /\ sample < MaxSamples /\ sample' = sample + 1
      /\ device \in [Channels -> Values]
      /\ device' = [c \in Channels |->
                      IF c \in changed THEN sample + 1 ELSE device[c]]
  BY DEF TypeOK, Take, Values
<1>2. sample + 1 \in Values
  BY <1>1, Sizes DEF Values
<1>3. device' \in [Channels -> Values]
  BY <1>1, <1>2
<1> QED BY <1>1, <1>2, <1>3

LEMMA SampleKeepsTypes ==
  ASSUME TypeOK, NEW changed \in ChangeSets, Sample(changed)
  PROVE  TypeOK'
<1> DEFINE new == Report(changed)
<1>1. /\ Take(changed)
      /\ UNCHANGED <<lib, sync_needed, at, cache, cache_count, out,
                     silent_reads>>
      /\ since' = Min({since, RoundSamples}) + 1
  BY DEF Sample, hal
<1>2. /\ sample \in Nat /\ sample < MaxSamples
      /\ sample' \in Values /\ device' \in [Channels -> Values]
  BY <1>1, TakeFacts
<1>3. new \in Seq(Events) /\ Len(new) \in 1 .. K
  <2>1. new \in Seq(Events) /\ Len(new) = Cardinality(changed)
    BY <1>2, ReportFacts
  <2>2. Cardinality(changed) \in 1 .. K
    BY ChannelsFinite
  <2> QED BY <2>1, <2>2
<1>4. kernel' \in Seq(Arrivals) /\ Len(kernel') <= KernelRoom
  <2>1. /\ new \in Seq(Arrivals) /\ kernel \in Seq(Arrivals)
        /\ << Dropped >> \in Seq(Arrivals) /\ Len(<< Dropped >>) = 1
    BY <1>3, QueueFacts DEF Arrivals
  <2>2. CASE Len(kernel) + Len(new) <= KernelRoom /\ kernel' = kernel \o new
    <3>1. /\ kernel \o new \in Seq(Arrivals)
          /\ Len(kernel \o new) = Len(kernel) + Len(new)
      BY <2>1, ConcatProperties, Zenon
    <3> QED BY <2>2, <3>1, Zenon
  <2>3. CASE \E n \in 1 .. Len(new) + 1 :
               kernel' = <<Dropped>> \o SubSeq(new, n, Len(new))
    <3>1. PICK n \in 1 .. Len(new) + 1 :
                 kernel' = <<Dropped>> \o SubSeq(new, n, Len(new))
      BY <2>3
    <3> DEFINE rest == SubSeq(new, n, Len(new))
    <3>2. rest \in Seq(Arrivals) /\ Len(rest) = Len(new) - n + 1
      <4> HIDE DEF new
      <4> QED BY <2>1, RestOfReport
    <3>3. kernel' = <<Dropped>> \o rest
      BY <3>1
    <3> HIDE DEF rest, new
    <3>4. kernel' \in Seq(Arrivals) /\ Len(kernel') = 1 + Len(rest)
      BY <2>1, <3>2, <3>3, ConcatProperties
    <3>5. Len(rest) <= K /\ Len(rest) \in Nat
      BY <1>3, <3>2, Sizes
    <3> QED BY <3>4, <3>5, Sizes
  <2> QED BY <2>2, <2>3, Zenon DEF Sample
<1>5. since' \in 0 .. RoundSamples + 1
  <2>1. since \in Nat
    BY Sizes DEF TypeOK
  <2>2. Min({since, RoundSamples})
          = IF since <= RoundSamples THEN since ELSE RoundSamples
    BY <2>1, MinOfTwo, Sizes
  <2> QED BY <1>1, <2>1, <2>2, Sizes
<1>6. punctual' \in BOOLEAN /\ overflowed' \in BOOLEAN /\ noisy' \in BOOLEAN
  BY DEF Sample
<1>7. /\ lib' = lib /\ sync_needed' = sync_needed /\ at' = at /\ out' = out
      /\ cache' = cache /\ cache_count' = cache_count
      /\ silent_reads' = silent_reads
  BY <1>1
<1> QED BY <1>2, <1>4, <1>5, <1>6, <1>7, Zenon DEF TypeOK, Arrivals
(* A full sample continues the order of the queue.                         *)
LEMMA SampleInOrder ==
  ASSUME TypeOK, Queue \in Seq(Events), InOrder,
         sample \in Nat, sample' = sample + 1,
         NEW news \in Seq(Events), Len(news) = K,
         \A i \in 1 .. K : news[i] = [channel |-> i, value |-> sample + 1],
         Queue' = Queue \o news
  PROVE  InOrder' /\ NextChannel' = NextChannel /\ NextValue' = NextValue
<1>1. PICK n : n = Len(Queue)
  OBVIOUS
<1>2. /\ n \in Nat /\ Len(Queue') = n + K
      /\ \A i \in 1 .. n : Queue'[i] = Queue[i]
      /\ \A i \in 1 .. K : Queue'[n + i] = news[i]
  <2> DEFINE both == Queue \o news
  <2>1. /\ Len(Queue) \in Nat /\ Len(both) = Len(Queue) + Len(news)
        /\ \A i \in 1 .. Len(Queue) : both[i] = Queue[i]
        /\ \A i \in 1 .. Len(news) : both[Len(Queue) + i] = news[i]
    BY ConcatParts
  <2>2. Queue' = both
    OBVIOUS
  <2> HIDE DEF both
  <2> QED BY <1>1, <2>1, <2>2, Zenon
<1>3. \A i \in 1 .. n : Coming(i) = Queue[i] /\ Coming(i)' = Queue[i]
  <2> SUFFICES ASSUME NEW i \in 1 .. n
               PROVE  Coming(i) = Queue[i] /\ Coming(i)' = Queue[i]
    OBVIOUS
  <2>1. i <= n /\ i <= Len(Queue')
    BY <1>2, Sizes
  <2> QED BY <1>2, <2>1, <1>1, Zenon DEF Coming
<1>4. Coming(n + 1) = [channel |-> 1, value |-> sample + 1]
  <2>1. ~(n + 1 <= n)
    BY <1>2
  <2> QED BY <2>1, <1>1, Zenon DEF Coming
<1>5. \A i \in 1 .. K : Coming(n + i)' = [channel |-> i, value |-> sample + 1]
  <2> SUFFICES ASSUME NEW i \in 1 .. K
               PROVE  Coming(n + i)' = [channel |-> i, value |-> sample + 1]
    OBVIOUS
  <2>1. n + i <= Len(Queue') /\ Queue'[n + i] = news[i]
    BY <1>2, Sizes
  <2>2. Coming(n + i)' = Queue'[n + i]
    BY <2>1, Zenon DEF Coming
  <2> QED BY <2>1, <2>2
<1>6. Coming(n + K + 1)' = [channel |-> 1, value |-> sample + 1 + 1]
  <2>1. ~(n + K + 1 <= Len(Queue'))
    BY <1>2, Sizes
  <2> QED BY <2>1, Zenon DEF Coming
<1>7. \A i \in 1 .. n : Coming(i + 1) = Succ(Coming(i))
  BY <1>1, Zenon DEF InOrder
<1>8. Coming(n + 1)' = Coming(n + 1)
  BY <1>4, <1>5, Sizes
<1>9. Coming(1)' = Coming(1)
  <2>1. CASE n = 0
    BY <1>8, <2>1
  <2>2. CASE n # 0
    <3>1. 1 \in 1 .. n
      BY <1>2, <2>2
    <3> QED BY <1>3, <3>1, Zenon
  <2> QED BY <2>1, <2>2
<1>10. NextChannel' = NextChannel /\ NextValue' = NextValue
  BY <1>9, Zenon DEF NextChannel, NextValue
<1>11. ASSUME NEW i \in 1 .. n
       PROVE  Coming(i + 1)' = Succ(Coming(i)')
  <2>1. Coming(i)' = Coming(i) /\ Coming(i + 1) = Succ(Coming(i))
    BY <1>3, <1>7, Zenon
  <2>2. Coming(i + 1)' = Coming(i + 1)
    <3>1. CASE i = n
      BY <1>8, <3>1
    <3>2. CASE i # n
      <4>1. i + 1 \in 1 .. n
        BY <1>2, <3>2
      <4> QED BY <1>3, <4>1, Zenon
    <3> QED BY <3>1, <3>2
  <2> QED BY <2>1, <2>2, Zenon
<1>12. ASSUME NEW k \in 1 .. K
       PROVE  Coming(n + k + 1)' = Succ(Coming(n + k)')
  <2>1. Coming(n + k)' = [channel |-> k, value |-> sample + 1]
    BY <1>5
  <2>2. CASE k = K
    <3>1. Succ(Coming(n + k)') = [channel |-> 1, value |-> sample + 1 + 1]
      BY <2>1, <2>2 DEF Succ
    <3> QED BY <1>6, <2>2, <3>1, Zenon
  <2>3. CASE k # K
    <3>1. Succ(Coming(n + k)') = [channel |-> k + 1, value |-> sample + 1]
      BY <2>1, <2>3 DEF Succ
    <3>2. k + 1 \in 1 .. K /\ n + (k + 1) = n + k + 1
      BY <1>2, <2>3, Sizes
    <3> QED BY <1>5, <3>1, <3>2
  <2> QED BY <2>2, <2>3
<1>13. ASSUME NEW i \in 1 .. Len(Queue')
       PROVE  Coming(i + 1)' = Succ(Coming(i)')
  <2>1. CASE i <= n
    <3>1. i \in 1 .. n
      BY <2>1
    <3> QED BY <1>11, <3>1, Zenon
  <2>2. CASE ~(i <= n)
    <3>1. i - n \in 1 .. K /\ n + (i - n) = i
      BY <1>2, <2>2, Sizes
    <3> QED BY <1>12, <3>1
  <2> QED BY <2>1, <2>2
<1>14. InOrder'
  <2>1. NextValue' > 0
    BY <1>10 DEF InOrder
  <2> QED BY <1>13, <2>1, Zenon DEF InOrder, Succ
<1> QED BY <1>10, <1>14, Zenon
(* The samples of a punctual round fit into evdev's buffer.                *)
LEMMA RoundFits ==
  ASSUME NEW s \in Nat, s < RoundSamples, NEW old \in Nat, old <= s * K,
         NEW more \in Nat, more <= K
  PROVE  old + more <= (s + 1) * K /\ old + more <= KernelRoom
<1>1. (s + 1) * K = s * K + K /\ s * K \in Nat
  BY Sizes
<1>2. PICK d \in Nat : RoundSamples = s + 1 + d
  <2>1. RoundSamples - (s + 1) \in Nat
    BY Sizes
  <2> QED BY <2>1, Sizes
<1>3. RoundSamples * K = (s + 1) * K + d * K /\ d * K \in Nat
  BY <1>2, Sizes
<1>4. RoundSamples * K <= KernelRoom
  BY MpuHalAssumption
<1>5. old + more <= (s + 1) * K
  BY <1>1, Sizes
<1>6. \A a, b, c, e, f \in Nat : /\ a <= b /\ c = b + e /\ c <= f => a <= f
  OBVIOUS
<1>7. (s + 1) * K \in Nat /\ RoundSamples * K \in Nat /\ old + more \in Nat
  BY Sizes
<1> QED BY <1>3, <1>4, <1>5, <1>6, <1>7, Sizes, Zenon

LEMMA SampleKeepsInv ==
  ASSUME IInv, NEW changed \in ChangeSets, Sample(changed)
  PROVE  IInv'
<1> DEFINE new  == Report(changed)
           fits == Len(kernel) + Len(new) <= KernelRoom
<1>1. TypeOK /\ Clean /\ NothingSkipped /\ Ordered /\ SamplesStayTogether
  BY DEF IInv
<1>2. /\ Take(changed)
      /\ fits => kernel' = kernel \o new
      /\ overflowed' = (overflowed \/ ~fits)
      /\ noisy' = (noisy /\ changed = Channels)
      /\ since' = Min({since, RoundSamples}) + 1
      /\ punctual' = (punctual /\ since < RoundSamples)
      /\ lib' = lib /\ sync_needed' = sync_needed
      /\ at' = at /\ cache' = cache /\ cache_count' = cache_count
      /\ out' = out /\ silent_reads' = silent_reads
  BY DEF Sample, hal
<1>3. /\ sample \in Nat /\ sample < MaxSamples /\ sample' = sample + 1
      /\ device' = [c \in Channels |->
                      IF c \in changed THEN sample + 1 ELSE device[c]]
  BY <1>1, <1>2, TakeFacts DEF Take
<1>4. /\ new \in Seq(Events) /\ Len(new) = Cardinality(changed)
      /\ \A i \in 1 .. Cardinality(changed) :
           new[i].channel \in changed /\ new[i].value = sample + 1
      /\ \A c \in changed : \E i \in 1 .. Cardinality(changed) :
           /\ new[i].channel = c
           /\ \A j \in 1 .. Cardinality(changed) :
                new[j].channel = c => j = i
      /\ changed = Channels =>
           \A i \in 1 .. K : new[i] = [channel |-> i, value |-> sample + 1]
  BY <1>3, ReportFacts
<1>5. Len(new) \in 1 .. K /\ changed \in SUBSET Channels
  BY <1>4, ChannelsFinite
<1> HIDE DEF new
<1>6. since \in Nat /\ Len(kernel) \in Nat
  BY <1>1, QueueFacts, Sizes DEF TypeOK
<1>7. ASSUME fits, Queue \in Seq(Events)
      PROVE  /\ kernel' = kernel \o new /\ Len(kernel') = Len(kernel) + Len(new)
             /\ Queue' = Queue \o new /\ Queue' \in Seq(Events)
             /\ Len(Queue') > 0
  <2>1. /\ lib \in Seq(Arrivals) /\ kernel \in Seq(Arrivals)
        /\ new \in Seq(Arrivals)
    BY <1>1, <1>4, QueueFacts DEF Arrivals
  <2>2. kernel' = kernel \o new
    BY <1>2, <1>7
  <2>3. Len(kernel') = Len(kernel) + Len(new)
    BY <2>1, <2>2, ConcatProperties
  <2>4. Queue' = Queue \o new
    <3> HIDE DEF Arrivals
    <3>1. (lib \o kernel) \o new = lib \o (kernel \o new)
      BY <2>1, ConcatOfThree
    <3>2. Queue' = lib \o (kernel \o new)
      BY <1>2, <2>2 DEF Queue
    <3> QED BY <3>1, <3>2 DEF Queue
  <2>5. Queue \o new \in Seq(Events) /\ Len(Queue \o new) = Len(Queue) + Len(new)
    <3>1. new \in Seq(Events) /\ Queue \in Seq(Events)
      BY <1>4, <1>7
    <3> QED BY <3>1, ConcatProperties, Zenon
  <2>6. Len(Queue) \in Nat
    BY <1>1, QueueFacts
  <2>7. Len(Queue') > 0
    <3>1. Len(Queue') = Len(Queue) + Len(new)
      BY <2>4, <2>5, Zenon
    <3> QED BY <1>5, <2>6, <3>1
  <2> QED BY <2>2, <2>3, <2>4, <2>5, <2>7, Zenon
<1>8. ASSUME ~overflowed'
      PROVE  ~overflowed /\ fits /\ ~sync_needed /\ Queue \in Seq(Events)
  <2>1. ~overflowed /\ fits
    BY <1>2, <1>8, Zenon
  <2> QED BY <1>1, <2>1, Zenon DEF Clean
<1>9. TypeOK'
  BY <1>1, SampleKeepsTypes, Zenon
<1>10. Clean'
  BY <1>2, <1>7, <1>8, Zenon DEF Clean
<1>11. NothingSkipped'
  <2> SUFFICES ASSUME ~overflowed'
               PROVE  Brought(Queue', device', cache')
    <3>1. ASSUME ~overflowed'
          PROVE  DOMAIN Queue' = 1 .. Len(Queue')
      <4>1. Queue' \in Seq(Events)
        BY <1>10, <3>1 DEF Clean
      <4> QED BY <4>1
    <3> QED BY <3>1, BroughtIsNothingSkipped, Zenon DEF NothingSkipped, Queue
  <2>1. Brought(Queue, device, cache)
    <3>1. DOMAIN Queue = 1 .. Len(Queue)
      BY <1>1, QueueFacts
    <3> QED BY <1>1, <1>8, <3>1, BroughtIsNothingSkipped, Zenon
        DEF NothingSkipped, Queue
  <2>2. Queue \in Seq(Events) /\ Queue' = Queue \o new
    BY <1>7, <1>8, Zenon
  <2>3. Brought(Queue', device', cache)
    <3>1. /\ \A i \in 1 .. Len(new) :
               new[i].channel \in changed /\ new[i].value = sample + 1
          /\ \A c \in changed : \E i \in 1 .. Len(new) :
               /\ new[i].channel = c
               /\ \A j \in 1 .. Len(new) : new[j].channel = c => j = i
          /\ new \in Seq(Events)
      BY <1>4, Zenon
    <3>2. /\ \A c \in changed : device'[c] = sample + 1
          /\ \A c \in Channels \ changed : device'[c] = device[c]
          /\ changed \in SUBSET Channels
      BY <1>3, <1>5
    <3> QED BY <2>1, <2>2, <3>1, <3>2, BroughtBySample, Zenon
  <2> QED BY <1>2, <2>3, Zenon
<1>12. ASSUME noisy', ~overflowed'
       PROVE  InOrder' /\ CacheInOrder' /\ OutInOrder'
  <2>1. noisy /\ changed = Channels /\ ~overflowed
    BY <1>2, <1>8, <1>12, Zenon
  <2>2. InOrder /\ CacheInOrder /\ OutInOrder
    BY <1>1, <2>1 DEF Ordered
  <2>3. Queue \in Seq(Events) /\ Queue' = Queue \o new
    BY <1>7, <1>8, <1>12, Zenon
  <2>4. Len(new) = K
    <3>1. Cardinality(Channels) = K
      BY FS_Interval, Sizes DEF Channels
    <3> QED BY <1>4, <2>1, <3>1, Zenon
  <2>5. InOrder' /\ NextChannel' = NextChannel /\ NextValue' = NextValue
    BY <1>1, <1>3, <1>4, <2>1, <2>2, <2>3, <2>4, SampleInOrder, Zenon
  <2>6. CacheInOrder'
    BY <1>2, <2>2, <2>5, Zenon DEF CacheInOrder, Counted, Latest, Stored
  <2>7. OutInOrder'
    BY <1>2, <2>2, <2>5, Zenon DEF OutInOrder
  <2> QED BY <2>5, <2>6, <2>7, Zenon
<1>13. Ordered'
  BY <1>12, Zenon DEF Ordered
<1>14. SamplesStayTogether'
  <2>1. noisy' /\ ~overflowed' => noisy /\ ~overflowed
    BY <1>2, <1>8, Zenon
  <2> QED BY <1>1, <1>2, <2>1, Zenon DEF SamplesStayTogether
<1>15. ASSUME punctual'
       PROVE  punctual /\ since < RoundSamples /\ since' = since + 1
  <2>1. punctual /\ since < RoundSamples
    BY <1>2, <1>15, Zenon
  <2>2. Min({since, RoundSamples}) = since
    BY <1>6, <2>1, MinOfTwo, Sizes
  <2> QED BY <1>2, <2>1, <2>2, Zenon
<1>16. Patient'
  <2> SUFFICES ASSUME punctual'
               PROVE  since' <= RoundSamples
    BY Zenon DEF Patient
  <2>1. since < RoundSamples /\ since' = since + 1
    BY <1>15, Zenon
  <2> QED BY <1>6, <2>1, Sizes
<1>17. HeardSoon'
  <2> SUFFICES ASSUME punctual', Waiting'
               PROVE  /\ silent_reads' = 1
                      /\ ~sync_needed' /\ Queue' \in Seq(Events)
                      /\ Len(kernel') <= since' * K
                      /\ Len(Queue') > 0
    BY Zenon DEF HeardSoon
  <2>1. punctual /\ Waiting /\ since < RoundSamples /\ since' = since + 1
    BY <1>2, <1>15, Zenon DEF Waiting
  <2>2. /\ silent_reads = 1 /\ ~sync_needed /\ Queue \in Seq(Events)
        /\ Len(kernel) <= since * K
    BY <2>1, Zenon DEF IInv, HeardSoon
  <2>3. /\ Len(kernel) + Len(new) <= (since + 1) * K
        /\ Len(kernel) + Len(new) <= KernelRoom
    <3>1. Len(new) \in Nat /\ Len(new) <= K
      BY <1>5, Sizes
    <3> QED BY <1>6, <2>1, <2>2, <3>1, RoundFits, Zenon
  <2>4. /\ Len(kernel') = Len(kernel) + Len(new)
        /\ Queue' \in Seq(Events) /\ Len(Queue') > 0
    BY <1>7, <2>2, <2>3, Zenon
  <2> QED BY <1>2, <2>1, <2>2, <2>3, <2>4, Zenon
<1>18. ActiveDeviceIsHeard'
  BY <1>2, <1>15, Zenon DEF IInv, ActiveDeviceIsHeard
<1> QED BY <1>9, <1>10, <1>11, <1>13, <1>14, <1>16, <1>17, <1>18, Zenon
    DEF IInv
-----------------------------------------------------------------------------
(* A new handle. *)

LEMMA ReopenFacts ==
  ASSUME TypeOK, Reopen
  PROVE  /\ at' = "idle" /\ cache' = Blank /\ cache_count' = 0 /\ out' = << >>
         /\ lib' = << >> /\ ~sync_needed' /\ since' = 0 /\ silent_reads' = 0
         /\ ~overflowed' /\ Queue' = kernel'
         /\ kernel' \in Seq(Events) /\ Len(kernel') <= K
         /\ Brought(Queue', device', cache')
         /\ noisy' => InOrder' /\ NextChannel' \in 1 .. K /\ NextValue' \in Nat
         /\ sample' \in Values /\ device' \in [Channels -> Values]
         /\ noisy' \in BOOLEAN /\ punctual' = punctual
         /\ sync_needed' \in BOOLEAN /\ overflowed' \in BOOLEAN
<1>1. /\ at' = "idle" /\ cache' = Blank /\ cache_count' = 0 /\ out' = << >>
      /\ lib' = << >> /\ since' = 0 /\ silent_reads' = 0
      /\ punctual' = punctual
  BY DEF Reopen
<1>2. /\ ~sync_needed' /\ ~overflowed'
      /\ sync_needed' \in BOOLEAN /\ overflowed' \in BOOLEAN
  BY DEF Reopen
<1>3. \A s \in Seq(Events) : << >> \o s = s
  BY ConcatEmptySeq
<1>4. \A c \in Channels : cache'[c] = 0
  BY <1>1 DEF Blank
<1>5. SUFFICES /\ kernel' \in Seq(Events) /\ Len(kernel') <= K
               /\ Brought(kernel', device', cache')
               /\ Queue' = kernel' /\ noisy' => InOrder'
               /\ sample' \in Values /\ device' \in [Channels -> Values]
               /\ noisy' \in BOOLEAN
  <2>1. ASSUME kernel' \in Seq(Events)
        PROVE  Queue' = kernel'
    BY <1>1, <1>3, <2>1 DEF Queue
  <2>2. ASSUME Queue' \in Seq(Events), sample' \in Values
        PROVE  NextChannel' \in 1 .. K /\ NextValue' \in Nat
    <3>1. CASE 1 <= Len(Queue')
      <4>1. Queue'[1] \in Events /\ Coming(1)' = Queue'[1]
        BY <2>2, <3>1 DEF Coming
      <4> QED BY <4>1, Sizes DEF NextChannel, NextValue, Events, Channels, Values
    <3>2. CASE ~(1 <= Len(Queue'))
      <4>1. Coming(1)' = [channel |-> 1, value |-> sample' + 1]
        BY <3>2, Zenon DEF Coming
      <4> QED BY <2>2, <4>1, Sizes DEF NextChannel, NextValue, Values
    <3> QED BY <3>1, <3>2, Zenon
  <2> QED BY <1>1, <1>2, <2>1, <2>2, Zenon
<1>6. CASE kernel' = << >> /\ noisy' = TRUE /\ UNCHANGED driver
  <2>1. /\ kernel' \in Seq(Events) /\ Len(kernel') <= K /\ Len(kernel') = 0
        /\ noisy' \in BOOLEAN
    BY <1>6, Sizes
  <2>2. sample' \in Values /\ device' \in [Channels -> Values]
    BY <1>6 DEF driver, TypeOK
  <2>3. Brought(kernel', device', cache')
    BY <1>4, <2>1 DEF Brought
  <2>4. ASSUME Queue' = kernel'
        PROVE  InOrder'
    <3>1. Len(Queue') = 0
      BY <2>1, <2>4
    <3>2. ~(1 <= Len(Queue'))
      BY <3>1
    <3>3. Coming(1)' = [channel |-> 1, value |-> sample' + 1]
      BY <3>2, Zenon DEF Coming
    <3>4. NextValue' > 0
      BY <2>2, <3>3, Sizes DEF NextValue, Values
    <3>5. \A i : i \notin 1 .. Len(Queue')
      BY <3>1
    <3> QED BY <3>4, <3>5, Zenon DEF InOrder
  <2> QED BY <2>1, <2>2, <2>3, <2>4, Zenon
<1>7. CASE \E changed \in ChangeSets :
             /\ Take(changed)
             /\ \E n \in 1 .. Cardinality(changed) :
                  kernel' = SubSeq(Report(changed), n, Cardinality(changed))
             /\ noisy' = (changed = Channels)
  <2>1. PICK changed \in ChangeSets :
               /\ Take(changed)
               /\ \E n \in 1 .. Cardinality(changed) :
                    kernel' = SubSeq(Report(changed), n, Cardinality(changed))
               /\ noisy' = (changed = Channels)
    BY <1>7
  <2>2. PICK n \in 1 .. Cardinality(changed) :
               kernel' = SubSeq(Report(changed), n, Cardinality(changed))
    BY <2>1
  <2> DEFINE new == Report(changed)
  <2>3. /\ sample \in Nat /\ sample < MaxSamples /\ sample' = sample + 1
        /\ sample' \in Values /\ device' \in [Channels -> Values]
        /\ \A c \in changed : c \in Channels => device'[c] = sample + 1
    BY <2>1, TakeFacts DEF Take
  <2>4. /\ new \in Seq(Events) /\ Len(new) = Cardinality(changed)
        /\ \A i \in 1 .. Cardinality(changed) :
             new[i].channel \in changed /\ new[i].value = sample + 1
        /\ \A c \in changed : \E i \in 1 .. Cardinality(changed) :
             /\ new[i].channel = c
             /\ \A j \in 1 .. Cardinality(changed) :
                  new[j].channel = c => j = i
        /\ changed = Channels =>
             \A i \in 1 .. K : new[i] = [channel |-> i, value |-> sample + 1]
    BY <2>3, ReportFacts
  <2>5. PICK m : m = Len(new) - n + 1
    OBVIOUS
  <2>6. Len(new) \in 1 .. K /\ n \in 1 .. Len(new) /\ m \in 1 .. K
    <3>1. Cardinality(changed) \in 1 .. K
      BY ChannelsFinite
    <3> QED BY <2>4, <2>5, <3>1, Sizes
  <2> HIDE DEF new
  <2>7. /\ kernel' \in Seq(Events) /\ Len(kernel') = m
        /\ \A i \in 1 .. m : kernel'[i] = new[n + i - 1]
    <3>1. n \in 1 .. Len(new) + 1
      BY <2>6
    <3>2. kernel' = SubSeq(new, n, Len(new))
      BY <2>2, <2>4, Zenon DEF new
    <3> QED BY <2>4, <2>5, <3>1, <3>2, RestOfReport
  <2>8. \A i \in 1 .. m : /\ n + i - 1 \in 1 .. Len(new)
                          /\ n + i - 1 \in 1 .. Cardinality(changed)
    BY <2>4, <2>6, <2>5
  <2>9. Brought(kernel', device', cache')
    <3> SUFFICES ASSUME NEW c \in Channels,
                        NEW i \in 1 .. m, kernel'[i].channel = c
                 PROVE  /\ kernel'[i].value = device'[c]
                        /\ \A j \in 1 .. m : kernel'[j].channel = c => j = i
      <4>1. cache' = cache' /\ \A j \in 1 .. m : j <= j
        BY <2>6
      <4> QED BY <1>4, <2>7, <4>1 DEF Brought
    <3>1. c \in changed /\ kernel'[i].value = sample + 1
      BY <2>4, <2>7, <2>8
    <3>2. kernel'[i].value = device'[c]
      BY <2>3, <3>1, Zenon
    <3>3. ASSUME NEW j \in 1 .. m, kernel'[j].channel = c
          PROVE  j = i
      <4>1. new[n + i - 1].channel = c /\ new[n + j - 1].channel = c
        BY <2>7, <3>3, Zenon
      <4>2. n + i - 1 = n + j - 1
        <5>1. PICK k \in 1 .. Cardinality(changed) :
                     \A l \in 1 .. Cardinality(changed) :
                       new[l].channel = c => l = k
          BY <2>4, <3>1, Zenon
        <5>2. n + i - 1 = k
          BY <2>8, <4>1, <5>1, Zenon
        <5>3. n + j - 1 = k
          BY <2>8, <4>1, <5>1, Zenon
        <5> QED BY <5>2, <5>3, Zenon
      <4> QED BY <2>6, <4>2
    <3> QED BY <3>2, <3>3, Zenon
  <2>10. ASSUME noisy', Queue' = kernel'
        PROVE  InOrder'
    <3>1. changed = Channels
      BY <2>1, <2>10, Zenon
    <3>2. Len(new) = K
      <4>1. Cardinality(Channels) = K
        BY FS_Interval, Sizes DEF Channels
      <4> QED BY <2>4, <3>1, <4>1, Zenon
    <3>3. m = K - n + 1 /\ n \in 1 .. K
      BY <2>6, <2>5, <3>2
    <3>4. \A i \in 1 .. m :
            Coming(i)' = [channel |-> n + i - 1, value |-> sample + 1]
      <4> SUFFICES ASSUME NEW i \in 1 .. m
                   PROVE  Coming(i)' = [channel |-> n + i - 1,
                                        value |-> sample + 1]
        OBVIOUS
      <4>1. n + i - 1 \in 1 .. K
        BY <2>8, <3>2
      <4>2. kernel'[i] = [channel |-> n + i - 1, value |-> sample + 1]
        BY <2>4, <2>7, <3>1, <4>1
      <4>3. i <= Len(Queue')
        BY <2>6, <2>7, <2>10
      <4> QED BY <2>10, <4>2, <4>3, Zenon DEF Coming
    <3>5. Coming(m + 1)' = [channel |-> 1, value |-> sample + 1 + 1]
      <4>1. PICK k : k = m + 1
        OBVIOUS
      <4>2. ~(k <= Len(Queue'))
        BY <2>6, <2>7, <2>10, <4>1
      <4>3. Coming(k)' = [channel |-> 1, value |-> sample' + 1]
        BY <4>2, Zenon DEF Coming
      <4> QED BY <2>3, <4>1, <4>3
    <3>6. NextValue' > 0
      <4>1. 1 \in 1 .. m
        BY <2>6
      <4>2. Coming(1)'.value = sample + 1
        BY <3>4, <4>1
      <4> QED BY <2>3, <4>2 DEF NextValue
    <3>7. ASSUME NEW i \in 1 .. m
          PROVE  Coming(i + 1)' = Succ(Coming(i)')
      <4>1. Coming(i)' = [channel |-> n + i - 1, value |-> sample + 1]
        BY <3>4
      <4>2. CASE i = m
        <5>1. n + i - 1 = K
          BY <2>6, <3>3, <4>2, Sizes
        <5>2. Succ(Coming(i)') = [channel |-> 1, value |-> sample + 1 + 1]
          BY <4>1, <5>1 DEF Succ
        <5> QED BY <3>5, <4>2, <5>2
      <4>3. CASE i # m
        <5>1. i + 1 \in 1 .. m /\ n + i - 1 # K
              /\ n + (i + 1) - 1 = n + i - 1 + 1
          BY <2>6, <3>3, <4>3, Sizes
        <5>2. Succ(Coming(i)') = [channel |-> n + i - 1 + 1,
                                  value |-> sample + 1]
          BY <4>1, <5>1 DEF Succ
        <5> QED BY <3>4, <5>1, <5>2
      <4> QED BY <4>2, <4>3
    <3>8. Len(Queue') = m
      BY <2>7, <2>10, Zenon
    <3> QED BY <3>6, <3>7, <3>8, Zenon DEF InOrder, Succ
  <2>11. noisy' \in BOOLEAN
    BY <2>1
  <2>12. Len(kernel') <= K
    BY <2>6, <2>7
  <2> QED BY <2>3, <2>7, <2>9, <2>10, <2>11, <2>12, Zenon
<1> QED BY <1>6, <1>7, Zenon DEF Reopen
LEMMA ReopenKeepsInv ==
  ASSUME IInv, Reopen
  PROVE  IInv'
<1>1. TypeOK
  BY DEF IInv
<1>2. /\ at' = "idle" /\ cache' = Blank /\ cache_count' = 0 /\ out' = << >>
      /\ lib' = << >> /\ ~sync_needed' /\ since' = 0 /\ silent_reads' = 0
      /\ ~overflowed' /\ Queue' = kernel'
      /\ kernel' \in Seq(Events) /\ Len(kernel') <= K
      /\ Brought(Queue', device', cache')
      /\ noisy' => InOrder' /\ NextChannel' \in 1 .. K /\ NextValue' \in Nat
      /\ sample' \in Values /\ device' \in [Channels -> Values]
      /\ noisy' \in BOOLEAN /\ punctual' = punctual
      /\ sync_needed' \in BOOLEAN /\ overflowed' \in BOOLEAN
  BY <1>1, ReopenFacts, Zenon
<1>3. TypeOK'
  <2>1. cache' \in [Channels -> Values]
    BY <1>2, Sizes DEF Blank, Values
  <2>2. cache_count' \in 0 .. K - 1 /\ since' \in 0 .. RoundSamples + 1
        /\ silent_reads' \in Nat
    BY <1>2, Sizes
  <2>3. kernel' \in Seq(Events \cup {Dropped}) /\ Len(kernel') <= KernelRoom
    BY <1>2, Sizes
  <2>4. lib' \in Seq(Events \cup {Dropped}) /\ Len(lib') <= LibRoom
    BY <1>2, Sizes
  <2>5. out' \in Seq(Events) /\ Len(out') <= K
    BY <1>2, Sizes
  <2>6. at' \in {"idle", "fill"}
    BY <1>2
  <2> QED BY <1>1, <1>2, <2>1, <2>2, <2>3, <2>4, <2>5, <2>6, Zenon DEF TypeOK
<1>4. Clean'
  BY <1>2, Zenon DEF Clean
<1>5. NothingSkipped'
  <2> SUFFICES Brought(Queue', device', cache')
    <3>1. DOMAIN Queue' = 1 .. Len(Queue')
      BY <1>2
    <3> QED BY <3>1, BroughtIsNothingSkipped, Zenon DEF NothingSkipped, Queue
  <2> QED BY <1>2, Zenon
<1>6. Ordered'
  <2> SUFFICES ASSUME noisy'
               PROVE  InOrder' /\ CacheInOrder' /\ OutInOrder'
    BY Zenon DEF Ordered
  <2>1. InOrder' /\ NextChannel' \in 1 .. K
    BY <1>2, Zenon
  <2>2. CacheInOrder'
    <3>1. \A c \in Channels : ~Counted(c)'
      BY <1>2, <2>1, LatestOfNoneAndAll, Zenon DEF Counted, Latest
    <3>2. \A c \in Channels : cache'[c] = 0
      BY <1>2 DEF Blank
    <3>3. \A c \in Channels : cache'[c] \in {0, Stored(c)'}
      BY <3>2
    <3> QED BY <3>1, <3>3, Zenon DEF CacheInOrder
  <2>3. OutInOrder'
    BY <1>2 DEF OutInOrder
  <2> QED BY <2>1, <2>2, <2>3, Zenon
<1>7. SamplesStayTogether'
  <2>1. \A i : i \notin DOMAIN out'
    BY <1>2
  <2> QED BY <2>1, Zenon DEF SamplesStayTogether
<1>8. Patient'
  BY <1>2, Sizes DEF Patient
<1>9. HeardSoon' /\ ActiveDeviceIsHeard'
  <2>1. ~(silent_reads' > 0) /\ silent_reads' <= 2
    BY <1>2
  <2> QED BY <2>1, Zenon DEF HeardSoon, Waiting, ActiveDeviceIsHeard
<1> QED BY <1>3, <1>4, <1>5, <1>6, <1>7, <1>8, <1>9, Zenon DEF IInv

-----------------------------------------------------------------------------
(* The invariant. *)

LEMMA InitInv == Init => IInv
<1> SUFFICES ASSUME Init
             PROVE  IInv
  OBVIOUS
<1>1. /\ sample = 0 /\ device = Blank
      /\ kernel = << >> /\ lib = << >>
      /\ at = "idle" /\ cache = Blank /\ cache_count = 0 /\ out = << >>
      /\ since = 0 /\ silent_reads = 0
  BY DEF Init
<1>2. ~sync_needed /\ ~overflowed /\ punctual /\ noisy
      /\ sync_needed \in BOOLEAN /\ punctual \in BOOLEAN
      /\ overflowed \in BOOLEAN /\ noisy \in BOOLEAN
  BY DEF Init
<1>3. Queue = << >> /\ Queue \in Seq(Events) /\ Len(Queue) = 0
  <2>1. << >> \o << >> = << >>
    OBVIOUS
  <2> QED BY <1>1, <2>1 DEF Queue
<1>4. \A c \in Channels : cache[c] = 0
  BY <1>1 DEF Blank
<1>5. TypeOK
  <2>1. sample \in Values /\ 0 \in Values
    BY <1>1, Sizes DEF Values
  <2>2. device \in [Channels -> Values] /\ cache \in [Channels -> Values]
    BY <1>1, <2>1 DEF Blank
  <2>3. /\ kernel \in Seq(Events \cup {Dropped}) /\ Len(kernel) <= KernelRoom
        /\ lib \in Seq(Events \cup {Dropped}) /\ Len(lib) <= LibRoom
        /\ out \in Seq(Events) /\ Len(out) <= K
    BY <1>1, Sizes
  <2>4. /\ cache_count \in 0 .. K - 1 /\ since \in 0 .. RoundSamples + 1
        /\ silent_reads \in Nat /\ at \in {"idle", "fill"}
    BY <1>1, Sizes
  <2> QED BY <1>2, <2>1, <2>2, <2>3, <2>4, Zenon DEF TypeOK
<1>6. Clean
  BY <1>2, <1>3, Zenon DEF Clean
<1>7. NothingSkipped
  <2>1. DOMAIN Queue = 1 .. Len(Queue)
    BY <1>3
  <2>2. Brought(Queue, device, cache)
    BY <1>3, <1>4 DEF Brought
  <2> QED BY <2>1, <2>2, BroughtIsNothingSkipped, Zenon
      DEF NothingSkipped, Queue
<1>8. Ordered
  <2>1. NextChannel = 1 /\ NextValue = 1
    BY <1>1, <1>3 DEF NextChannel, NextValue, Coming
  <2>2. InOrder
    <3>1. \A i : i \notin 1 .. Len(Queue)
      BY <1>3
    <3>2. NextValue > 0
      BY <2>1
    <3> QED BY <3>1, <3>2, Zenon DEF InOrder
  <2>3. CacheInOrder
    <3>1. 1 \in 1 .. K
      BY Sizes
    <3>2. \A c \in Channels : ~Counted(c)
      BY <1>1, <2>1, <3>1, LatestOfNoneAndAll, Zenon DEF Counted, Latest
    <3>3. \A c \in Channels : cache[c] \in {0, Stored(c)}
      BY <1>4
    <3> QED BY <3>2, <3>3, Zenon DEF CacheInOrder
  <2>4. OutInOrder
    BY <1>1, <2>1 DEF OutInOrder
  <2> QED BY <2>2, <2>3, <2>4 DEF Ordered
<1>9. SamplesStayTogether
  <2>1. \A i : i \notin DOMAIN out
    BY <1>1
  <2> QED BY <2>1, Zenon DEF SamplesStayTogether
<1>10. Patient
  BY <1>1, Sizes DEF Patient
<1>11. HeardSoon /\ ActiveDeviceIsHeard
  BY <1>1 DEF HeardSoon, Waiting, ActiveDeviceIsHeard
<1> QED BY <1>5, <1>6, <1>7, <1>8, <1>9, <1>10, <1>11, Zenon DEF IInv

LEMMA StutterKeepsInv ==
  ASSUME IInv, UNCHANGED vars
  PROVE  IInv'
<1>1. /\ UNCHANGED <<driver, queues>>
      /\ UNCHANGED <<sample, device, kernel, lib, sync_needed, at, cache,
                     cache_count, out, since, punctual, silent_reads,
                     overflowed, noisy>>
  BY DEF vars, driver, queues, hal, ghosts, opened
<1>2. /\ Queue' = Queue /\ Coming(1)' = Coming(1)
      /\ (InOrder' <=> InOrder)
  BY <1>1, QueuesKept, Zenon
<1>3. NextChannel' = NextChannel /\ NextValue' = NextValue
  BY <1>2, Zenon DEF NextChannel, NextValue
<1>4. TypeOK'
  BY <1>1, Zenon DEF IInv, TypeOK
<1>5. Clean' /\ SamplesStayTogether' /\ Patient' /\ ActiveDeviceIsHeard'
  BY <1>1, <1>2, Zenon DEF IInv, Clean, SamplesStayTogether, Patient,
     ActiveDeviceIsHeard
<1>6. NothingSkipped'
  <2>1. NothingSkipped
    BY DEF IInv
  <2> QED BY <1>1, <2>1 DEF NothingSkipped
<1>7. Ordered'
  BY <1>1, <1>2, <1>3, Zenon DEF IInv, Ordered, CacheInOrder, OutInOrder,
     Counted, Latest, Stored
<1>8. HeardSoon'
  BY <1>1, <1>2, Zenon DEF IInv, HeardSoon, Waiting
<1> QED BY <1>4, <1>5, <1>6, <1>7, <1>8, Zenon DEF IInv

LEMMA NextKeepsInv == IInv /\ [Next]_vars => IInv'
<1> SUFFICES ASSUME IInv, [Next]_vars
             PROVE  IInv'
  OBVIOUS
<1>1. ASSUME NEW changed \in ChangeSets, Sample(changed)
      PROVE  IInv'
  BY <1>1, SampleKeepsInv, Zenon
<1>2. CASE ReadBegins
  BY <1>2, ReadBeginsKeepsInv, Zenon
<1>3. CASE SkipEvent
  BY <1>3, SkipEventKeepsInv, Zenon
<1>4. CASE CacheEvent
  BY <1>4, CacheEventKeepsInv, Zenon
<1>5. CASE CacheIsFull
  BY <1>5, CacheIsFullKeepsInv, Zenon
<1>6. CASE NoMoreEvents
  BY <1>6, NoMoreEventsKeepsInv, Zenon
<1>7. CASE Reopen
  BY <1>7, ReopenKeepsInv, Zenon
<1>8. CASE UNCHANGED vars
  BY <1>8, StutterKeepsInv, Zenon
<1> QED BY <1>1, <1>2, <1>3, <1>4, <1>5, <1>6, <1>7, <1>8, Zenon
    DEF Next, Driver, Read

LEMMA InvHolds == Spec => []IInv
BY InitInv, NextKeepsInv, PTL DEF Spec

(* The index into the cache stays inside of it, a read never writes beyond *)
(* its caller's buffer, and neither queue holds more than it has room for. *)
THEOREM MpuHalTypeOK == Spec => []TypeOK
<1>1. IInv => TypeOK
  BY DEF IInv
<1> QED BY <1>1, InvHolds, PTL

(* Until evdev runs over, what mpu6050_hal_read has cached, or will still  *)
(* be brought, is what each axis that moved shows.                         *)
THEOREM MpuHalNothingSkipped == Spec => []NothingSkipped
<1>1. IInv => NothingSkipped
  BY DEF IInv
<1> QED BY <1>1, InvHolds, PTL

(* The points of one read are of two successive samples at most and none   *)
(* of them is blank, though the copy from the end of the cache looks at no *)
(* channel: as long as every sample changes every axis.                    *)
THEOREM MpuHalSamplesStayTogether == Spec => []SamplesStayTogether
<1>1. IInv => SamplesStayTogether
  BY DEF IInv
<1> QED BY <1>1, InvHolds, PTL

(* In a punctual loop two reads in a row at most are silent about a device *)
(* of which something changes, overflows of evdev included.                *)
THEOREM MpuHalActiveDeviceIsHeard == Spec => []ActiveDeviceIsHeard
<1>1. IInv => ActiveDeviceIsHeard
  BY DEF IInv
<1> QED BY <1>1, InvHolds, PTL
=============================================================================
