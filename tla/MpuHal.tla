------------------------------- MODULE MpuHal -------------------------------
(***************************************************************************)
(* The way of a motion sample: mpu6050.c reports the axes that changed to  *)
(* the input core, evdev queues them for the reader, libevdev takes them   *)
(* over in portions, mpu6050_hal_read sorts them into a cache of one entry *)
(* per channel and hands out points to the collector.                      *)
(*                                                                         *)
(* The value of an axis is the number of the sample in which it last       *)
(* changed, 0 before that.  SYN_REPORT, which the HAL skips, is left out.  *)
(***************************************************************************)
EXTENDS Naturals, FiniteSets, Sequences, FiniteSetsExt

CONSTANTS
  K,            (* channels, and points in a buffer: 6                     *)
  KernelRoom,   (* events in evdev's buffer: 128                           *)
  LibRoom,      (* events in libevdev's queue: 256                         *)
  RoundSamples, (* samples of 10 ms in a punctual round of the loop: 10    *)
  ChangeSets,   (* which axes may change in a sample: any                  *)
  MaxSamples,   (* bound: samples                                          *)
  Dropped       (* the event SYN_DROPPED                                   *)

Channels == 1 .. K
Values   == 0 .. MaxSamples
Events   == [channel : Channels, value : Values]

ASSUME MpuHalAssumption ==
  /\ K \in Nat \ {0}
  /\ KernelRoom \in Nat /\ LibRoom \in Nat /\ RoundSamples \in Nat \ {0}
  /\ K < KernelRoom
  /\ RoundSamples * K <= KernelRoom /\ KernelRoom <= LibRoom
  /\ ChangeSets \subseteq (SUBSET Channels) \ {{}}
  /\ MaxSamples \in Nat
  /\ Dropped \notin Events

VARIABLES
  sample,       (* samples taken so far                                    *)
  device,       (* the input core's value of each axis                     *)
  kernel,       (* evdev's buffer for this reader                          *)
  lib,          (* libevdev's queue                                        *)
  sync_needed,  (* libevdev has returned SYN_DROPPED                       *)
  at,           (* "idle", or "fill" inside of mpu6050_hal_read            *)
  cache,        (* cache, 0 where calloc left it blank                     *)
  cache_count,
  out,          (* the points in the caller's buffer                       *)
  since,        (* ghost: samples since the latest read returned           *)
  punctual,     (* ghost: never more than RoundSamples between two reads   *)
  silent_reads, (* ghost: reads in a row that were empty after a change    *)
  overflowed,   (* ghost: evdev ran over since the handle was opened       *)
  noisy         (* ghost: every sample since then changed every axis       *)

driver == <<sample, device>>
queues == <<kernel, lib, sync_needed>>
hal    == <<at, cache, cache_count, out>>
opened == <<overflowed, noisy>>
ghosts == <<since, punctual, silent_reads, opened>>
vars   == <<driver, queues, hal, ghosts>>

Blank == [c \in Channels |-> 0]

Init ==
  /\ sample = 0 /\ device = Blank
  /\ kernel = << >> /\ lib = << >> /\ sync_needed = FALSE
  /\ at = "idle" /\ cache = Blank /\ cache_count = 0 /\ out = << >>
  /\ since = 0 /\ punctual = TRUE /\ silent_reads = 0
  /\ overflowed = FALSE /\ noisy = TRUE

-----------------------------------------------------------------------------
(* mpu6050_work_handler, every 10 ms.  The input core passes on the axes   *)
(* whose value is new, in their order: the i-th has i - 1 others below it. *)
Report(changed) ==
  [i \in 1 .. Cardinality(changed) |->
     [channel |-> CHOOSE c \in changed :
                    Cardinality({b \in changed : b < c}) = i - 1,
      value   |-> sample + 1]]

Take(changed) ==
  /\ sample < MaxSamples
  /\ sample' = sample + 1
  /\ device' = [c \in Channels |->
                  IF c \in changed THEN sample + 1 ELSE device[c]]

(* When evdev's buffer is full, all it keeps of what came before is one    *)
(* SYN_DROPPED.                                                            *)
Sample(changed) ==
  /\ Take(changed)
  /\ LET new  == Report(changed)
         fits == Len(kernel) + Len(new) <= KernelRoom
     IN  /\ \/ fits /\ kernel' = kernel \o new
            \/ /\ ~fits
               /\ \E n \in 1 .. Len(new) + 1 :
                    kernel' = <<Dropped>> \o SubSeq(new, n, Len(new))
         /\ overflowed' = (overflowed \/ ~fits)
  /\ noisy' = (noisy /\ changed = Channels)
  /\ since' = Min({since, RoundSamples}) + 1
  /\ punctual' = (punctual /\ since < RoundSamples)
  /\ UNCHANGED <<lib, sync_needed, hal, silent_reads>>

-----------------------------------------------------------------------------
(* mpu6050_hal_read *)

(* A blank entry calls itself a point of the first channel.                *)
Point(values, c) ==
  [channel |-> IF values[c] = 0 THEN 1 ELSE c, value |-> values[c]]

(* Variant: takes them from the start of the cache. *)
ReadBeginsAtFirst ==
  /\ at = "idle"
  /\ at' = "fill"
  /\ out' = [i \in 1 .. cache_count |-> Point(cache, i)]
  /\ cache_count' = 0
  /\ UNCHANGED <<driver, queues, cache, ghosts>>

(* Variant: forgets them. *)
ReadBeginsAfresh ==
  /\ at = "idle"
  /\ at' = "fill"
  /\ out' = << >> /\ cache_count' = 0
  /\ UNCHANGED <<driver, queues, cache, ghosts>>

(* As many points as the last read left events in the cache come first,    *)
(* from the end of the cache, whatever channels those events were of.      *)
ReadBegins ==
  /\ at = "idle"
  /\ at' = "fill"
  /\ out' = [i \in 1 .. cache_count |-> Point(cache, K - cache_count + i)]
  /\ cache_count' = 0
  /\ UNCHANGED <<driver, queues, cache, ghosts>>

(* libevdev_next_event.  If its last event was SYN_DROPPED it throws away  *)
(* what it has; then it takes over what it has room for.                   *)
Kept    == IF sync_needed THEN << >> ELSE lib
Portion == Min({Len(kernel), LibRoom - Len(Kept)})
Pending == Kept \o SubSeq(kernel, 1, Portion)

NextEvent(e) ==
  /\ Pending # << >> /\ e = Head(Pending)
  /\ lib' = Tail(Pending)
  /\ kernel' = SubSeq(kernel, Portion + 1, Len(kernel))
  /\ sync_needed' = (e = Dropped)

(* For the HAL, SYN_DROPPED is one more event that is not EV_ABS. *)
SkipEvent ==
  /\ at = "fill"
  /\ NextEvent(Dropped)
  /\ UNCHANGED <<driver, hal, ghosts>>

Return(points) ==
  /\ at' = "idle"
  /\ out' = points
  /\ since' = 0
  /\ silent_reads' = IF points # << >> THEN 0
                     ELSE IF since > 0 THEN silent_reads + 1
                     ELSE silent_reads
  /\ UNCHANGED <<driver, punctual, opened>>

StoreNext ==
  \E e \in Events :
    /\ NextEvent(e)
    /\ cache' = [cache EXCEPT ![e.channel] = e.value]

CacheEvent ==
  /\ at = "fill" /\ cache_count + 1 < K
  /\ StoreNext
  /\ cache_count' = cache_count + 1
  /\ UNCHANGED <<driver, at, out, ghosts>>

Room == K - Len(out)

(* Variant: does not start the count again. *)
CacheIsFullCounting ==
  /\ at = "fill" /\ cache_count + 1 >= K
  /\ StoreNext
  /\ cache_count' = cache_count + 1
  /\ Return(out \o [i \in 1 .. Room |-> Point(cache', i)])

(* Variant: hands the cache out before the event is in it, and loses it. *)
CacheIsFullEarly ==
  /\ at = "fill" /\ cache_count + 1 >= K
  /\ \E e \in Events : NextEvent(e)
  /\ UNCHANGED cache
  /\ cache_count' = 0
  /\ Return(out \o [i \in 1 .. Room |-> Point(cache, i)])

(* The K-th event: the whole cache is handed out, as far as the buffer     *)
(* reaches, and now the buffer is full.                                    *)
CacheIsFull ==
  /\ at = "fill" /\ cache_count + 1 >= K
  /\ StoreNext
  /\ cache_count' = 0
  /\ Return(out \o [i \in 1 .. Room |-> Point(cache', i)])

NoMoreEvents ==
  /\ at = "fill" /\ Pending = << >>
  /\ lib' = << >> /\ sync_needed' = FALSE
  /\ Return(out)
  /\ UNCHANGED <<kernel, cache, cache_count>>

-----------------------------------------------------------------------------
(* mpu6050_hal_close and mpu6050_hal_open: between two reads after too     *)
(* many empty ones, or within one that failed.  The cache is blank and     *)
(* evdev's buffer for the new handle empty; or the handle was opened while *)
(* a sample was being reported, and gets the rest of it.                   *)
Reopen ==
  /\ at' = "idle" /\ cache' = Blank /\ cache_count' = 0 /\ out' = << >>
  /\ lib' = << >> /\ sync_needed' = FALSE
  /\ since' = 0 /\ silent_reads' = 0
  /\ overflowed' = FALSE
  /\ \/ kernel' = << >> /\ noisy' = TRUE /\ UNCHANGED driver
     \/ \E changed \in ChangeSets :
          /\ Take(changed)
          /\ \E n \in 1 .. Cardinality(changed) :
               kernel' = SubSeq(Report(changed), n, Cardinality(changed))
          /\ noisy' = (changed = Channels)
  /\ UNCHANGED punctual

-----------------------------------------------------------------------------
Driver == \E changed \in ChangeSets : Sample(changed)

Read == ReadBegins \/ SkipEvent \/ CacheEvent \/ CacheIsFull \/ NoMoreEvents

Next == Driver \/ Read \/ Reopen

Spec == Init /\ [][Next]_vars

-----------------------------------------------------------------------------
(* The types.  Between two reads fewer events than a whole cache are       *)
(* counted, so that its index stays inside, and a read never writes beyond *)
(* the caller's buffer.                                                    *)
TypeOK ==
  /\ sample \in Values /\ device \in [Channels -> Values]
  /\ kernel \in Seq(Events \cup {Dropped}) /\ Len(kernel) <= KernelRoom
  /\ lib \in Seq(Events \cup {Dropped}) /\ Len(lib) <= LibRoom
  /\ sync_needed \in BOOLEAN
  /\ at \in {"idle", "fill"}
  /\ cache \in [Channels -> Values] /\ cache_count \in 0 .. K - 1
  /\ out \in Seq(Events) /\ Len(out) <= K
  /\ since \in 0 .. RoundSamples + 1
  /\ punctual \in BOOLEAN /\ silent_reads \in Nat /\ overflowed \in BOOLEAN
  /\ noisy \in BOOLEAN

(* Until evdev runs over nothing is skipped: for every axis that moved,    *)
(* what the cache holds or the queues will bring is what the sensor shows. *)
NothingSkipped ==
  ~overflowed =>
    \A c \in Channels :
      LET queue  == lib \o kernel
          coming == {i \in DOMAIN queue : queue[i].channel = c}
      IN  IF coming # {}
            THEN \E i \in coming : /\ queue[i].value = device[c]
                                   /\ \A j \in coming : j <= i
            ELSE cache[c] \in {0, device[c]}

(* When every sample changes every axis, as noise makes it do, the points  *)
(* of one read are the sensor's, none of them blank, and of two successive *)
(* samples at most; until evdev runs over.                                 *)
SamplesStayTogether ==
  noisy /\ ~overflowed =>
    \A i, j \in DOMAIN out :
      out[i].value > 0 /\ out[i].value <= out[j].value + 1

(* While the loop is punctual, a sensor of which anything changes is heard *)
(* at every third read or sooner, through overflows too: the ten empty     *)
(* reads that count as a failure never come together.                      *)
ActiveDeviceIsHeard == punctual => silent_reads <= 2

=============================================================================
