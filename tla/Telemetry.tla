----------------------------- MODULE Telemetry ------------------------------
(***************************************************************************)
(* The way of a temperature and its humidity from the driver, sht30.c,     *)
(* through sht30_hal_read and the collector to those who ask for them over *)
(* HTTP (/metrics) or Modbus; and the window of latencies, metrics.c, that *)
(* the collector fills on the way and /metrics evaluates.  Nothing of this *)
(* is locked: every field is an atomic, or a plain int of the driver, of   *)
(* its own.                                                                *)
(*                                                                         *)
(* A value is the number of the measurement it comes from, an acceleration *)
(* that of its round, a latency that of its record; 0 is the initial zero. *)
(* How a value is written down (milli-units, hundredths) is left out.      *)
(***************************************************************************)
EXTENDS Naturals, Sequences, SequencesExt, FiniteSetsExt

CONSTANTS
  WindowSize,   (* LATENCY_WINDOW_SIZE: 1024                               *)
  Accels,       (* further registers: accel_x and accel_y                  *)
  MaxRounds,    (* bound: rounds of the collector                          *)
  MaxMeasures   (* bound: measurements of the driver                       *)

ASSUME TelemetryAssumption ==
  /\ WindowSize \in Nat \ {0}
  /\ Accels \subseteq {"accel_x", "accel_y"}
  /\ MaxRounds \in Nat \ {0} /\ MaxMeasures \in Nat

VARIABLES
  temp, humidity, valid,  (* struct sht30_data                             *)
  storing,      (* fields that sht30_work_handler is about to store        *)
  measured,     (* measurements begun                                      *)
  may_measure,  (* the driver was at rest since the round began            *)
  at,           (* where the collector is in its round                     *)
  round,
  t, h, read_ok,          (* sht_buf, and whether sht30_hal_read succeeded *)
  temp_raw, hum_raw,      (* g_fsm.temp_raw, g_fsm.hum_raw                 *)
  regs,         (* g_reg_data                                              *)
  unwritten,    (* registers the collector is about to store               *)
  write_idx, window, count,  (* g_latency_write_idx, _window, _count       *)
  server,       (* "down", "clearing" the registers, or "up"               *)
  uncleared,    (* registers the memset has not reached                    *)
  client,       (* "none", "web" or "modbus": whose request is answered    *)
  n, local,     (* calc_latency_percentile's count and copy of the window  *)
  answer,       (* the values loaded for the reply                         *)
  stored_before (* ghost: records in the window when n was loaded          *)

sht30     == <<temp, humidity, valid, storing, measured>>
pair      == <<t, h, read_ok>>
raw       == <<temp_raw, hum_raw>>
registers == <<regs, unwritten>>
latency   == <<write_idx, window, count>>
starting  == <<server, uncleared>>
reader    == <<client, n, local, answer, stored_before>>
collector == <<may_measure, at, round, pair, raw, registers, latency>>
vars      == <<sht30, collector, starting, reader>>

Fields    == {"temp", "humidity", "valid"}
Registers == <<"temperature", "humidity">> \o SetToSeq(Accels)
RegNames  == Range(Registers)
Clients   == {"web", "modbus"}
Places    == {"temp", "humidity", "claim", "slot", "count", "clamp",
              "temp_raw", "hum_raw", "registers", "sleep"}

Init ==
  /\ temp = 0 /\ humidity = 0 /\ valid = FALSE
  /\ storing = {} /\ measured = 0 /\ may_measure = TRUE
  /\ at = "temp" /\ round = 1
  /\ t = 0 /\ h = 0 /\ read_ok = FALSE
  /\ temp_raw = 0 /\ hum_raw = 0
  /\ regs = [r \in RegNames |-> 0] /\ unwritten = {}
  /\ write_idx = 0 /\ window = [i \in 0 .. WindowSize - 1 |-> 0] /\ count = 0
  /\ server = "down" /\ uncleared = {}
  /\ client = "none" /\ n = 0 /\ local = << >> /\ answer = << >>
  /\ stored_before = 0

-----------------------------------------------------------------------------
(* sht30_work_handler: a second after the last one, if the sensor answers  *)
(* with a good checksum; otherwise nothing changes.  A round of the        *)
(* collector is shorter than that second and sees part of one measurement  *)
(* at most.                                                                *)
Measure ==
  /\ storing = {} /\ measured < MaxMeasures
  /\ may_measure /\ may_measure' = FALSE
  /\ measured' = measured + 1
  /\ storing' = Fields
  /\ UNCHANGED <<temp, humidity, valid, at, round, pair, raw, registers,
                 latency, starting, reader>>

(* Three plain stores, which another processor may see in any order.       *)
StoreField ==
  /\ \E f \in storing :
       /\ storing' = storing \ {f}
       /\ temp' = IF f = "temp" THEN measured ELSE temp
       /\ humidity' = IF f = "humidity" THEN measured ELSE humidity
       /\ valid' = (valid \/ f = "valid")
  /\ UNCHANGED <<measured, collector, starting, reader>>

-----------------------------------------------------------------------------
Goto(from, to) == at = from /\ at' = to

(* sht30_hal_read: first one file, then the other.  A read of a file fails *)
(* as long as the driver has measured nothing.                             *)
ReadTemp ==
  /\ Goto("temp", IF valid THEN "humidity" ELSE "claim")
  /\ t' = IF valid THEN temp ELSE t
  /\ read_ok' = FALSE
  /\ UNCHANGED <<sht30, may_measure, round, h, raw, registers, latency,
                 starting, reader>>

ReadHumidity ==
  /\ Goto("humidity", "claim")
  /\ h' = IF valid THEN humidity ELSE h
  /\ read_ok' = valid
  /\ UNCHANGED <<sht30, may_measure, round, t, raw, registers, latency,
                 starting, reader>>

(* record_latency: claims a slot, fills it, counts it, corrects the count. *)
RecordOnly == UNCHANGED <<sht30, may_measure, round, pair, raw, registers,
                          starting, reader>>

ClaimSlot ==
  /\ Goto("claim", "slot")
  /\ write_idx' = write_idx + 1
  /\ UNCHANGED <<window, count>>
  /\ RecordOnly

FillSlot ==
  /\ Goto("slot", "count")
  /\ window' = [window EXCEPT ![(write_idx - 1) % WindowSize] = write_idx]
  /\ UNCHANGED <<write_idx, count>>
  /\ RecordOnly

Recorded == IF read_ok THEN "temp_raw" ELSE "sleep"

(* Variant: without a correction. *)
CountSlotOnly ==
  /\ Goto("count", Recorded)
  /\ count' = count + 1
  /\ UNCHANGED <<write_idx, window>>
  /\ RecordOnly

CountSlot ==
  /\ Goto("count", IF count >= WindowSize THEN "clamp" ELSE Recorded)
  /\ count' = count + 1
  /\ UNCHANGED <<write_idx, window>>
  /\ RecordOnly

ClampCount ==
  /\ Goto("clamp", Recorded)
  /\ count' = WindowSize
  /\ UNCHANGED <<write_idx, window>>
  /\ RecordOnly

(* collector_thread publishes for /metrics, and then for Modbus.           *)
StoreTempRaw ==
  /\ Goto("temp_raw", "hum_raw")
  /\ temp_raw' = t
  /\ UNCHANGED <<sht30, may_measure, round, pair, hum_raw, registers, latency,
                 starting, reader>>

(* Variant: stores the temperature only. *)
StoreNoHumRaw ==
  /\ Goto("hum_raw", "registers")
  /\ unwritten' = RegNames
  /\ UNCHANGED <<sht30, may_measure, round, pair, raw, regs, latency,
                 starting, reader>>

StoreHumRaw ==
  /\ Goto("hum_raw", "registers")
  /\ hum_raw' = h
  /\ unwritten' = RegNames
  /\ UNCHANGED <<sht30, may_measure, round, pair, temp_raw, regs, latency,
                 starting, reader>>

Published(r) == CASE r = "temperature" -> t
                  [] r = "humidity" -> h
                  [] OTHER -> round

(* modbus_server_update_data: relaxed stores, which may appear in any order *)
StoreRegister ==
  /\ at = "registers"
  /\ \E r \in unwritten :
       /\ unwritten' = unwritten \ {r}
       /\ regs' = [regs EXCEPT ![r] = Published(r)]
       /\ at' = IF unwritten = {r} THEN "sleep" ELSE at
  /\ UNCHANGED <<sht30, may_measure, round, pair, raw, latency, starting,
                 reader>>

NextRound ==
  /\ Goto("sleep", "temp")
  /\ round < MaxRounds
  /\ round' = round + 1
  /\ may_measure' = (storing = {})
  /\ UNCHANGED <<sht30, pair, raw, registers, latency, starting, reader>>

-----------------------------------------------------------------------------
(* modbus_server_start, called by main() when the collector is already     *)
(* running: clears the registers, then lets clients in.                    *)
StartServer ==
  /\ server = "down"
  /\ server' = "clearing" /\ uncleared' = RegNames
  /\ UNCHANGED <<sht30, collector, reader>>

ClearRegister ==
  /\ \E r \in uncleared :
       /\ uncleared' = uncleared \ {r}
       /\ regs' = [regs EXCEPT ![r] = 0]
  /\ UNCHANGED <<sht30, may_measure, at, round, pair, raw, unwritten, latency,
                 server, reader>>

(* Variant: does not wait for the memset. *)
ServerIsUpSoon ==
  /\ server = "clearing" /\ uncleared # {}
  /\ server' = "up"
  /\ UNCHANGED <<sht30, collector, uncleared, reader>>

ServerIsUp ==
  /\ server = "clearing" /\ uncleared = {}
  /\ server' = "up"
  /\ UNCHANGED <<sht30, collector, uncleared, reader>>

-----------------------------------------------------------------------------
(* /metrics of web_thread: first the percentiles, then the pair.           *)

Stored == IF at = "slot" THEN write_idx - 1 ELSE write_idx

(* Variant: takes the claimed slots for filled ones. *)
LoadIndex ==
  /\ client = "none"
  /\ client' = "web"
  /\ n' = Min({write_idx, WindowSize})
  /\ stored_before' = Stored
  /\ UNCHANGED <<sht30, collector, starting, local, answer>>

LoadCount ==
  /\ client = "none"
  /\ client' = "web"
  /\ n' = Min({count, WindowSize})
  /\ stored_before' = Stored
  /\ UNCHANGED <<sht30, collector, starting, local, answer>>

CopySlot ==
  /\ client = "web" /\ Len(local) < n
  /\ local' = Append(local, window[Len(local)])
  /\ UNCHANGED <<sht30, collector, starting, client, n, answer, stored_before>>

LoadRaw ==
  /\ client = "web" /\ Len(local) = n /\ Len(answer) < 2
  /\ answer' = Append(answer, raw[Len(answer) + 1])
  /\ UNCHANGED <<sht30, collector, starting, client, n, local, stored_before>>

(* handle_client of the Modbus server: four loads, one after the other.    *)
AcceptRead ==
  /\ client = "none" /\ server = "up"
  /\ client' = "modbus"
  /\ UNCHANGED <<sht30, collector, starting, n, local, answer, stored_before>>

LoadRegister ==
  /\ client = "modbus" /\ Len(answer) < Len(Registers)
  /\ answer' = Append(answer, regs[Registers[Len(answer) + 1]])
  /\ UNCHANGED <<sht30, collector, starting, client, n, local, stored_before>>

Reply ==
  /\ client # "none" /\ Len(answer) = (IF client = "web" THEN 2 ELSE Len(Registers))
  /\ client' = "none" /\ n' = 0 /\ local' = << >> /\ answer' = << >>
  /\ stored_before' = 0
  /\ UNCHANGED <<sht30, collector, starting>>

-----------------------------------------------------------------------------
Driver == Measure \/ StoreField

Collector ==
  \/ ReadTemp \/ ReadHumidity
  \/ ClaimSlot \/ FillSlot \/ CountSlot \/ ClampCount
  \/ StoreTempRaw \/ StoreHumRaw \/ StoreRegister \/ NextRound

Main == StartServer \/ ClearRegister \/ ServerIsUp

Readers ==
  \/ LoadCount \/ CopySlot \/ LoadRaw
  \/ AcceptRead \/ LoadRegister \/ Reply

Next == Driver \/ Collector \/ Main \/ Readers

Spec == Init /\ [][Next]_vars

-----------------------------------------------------------------------------
(* The types; the count exceeds the window's size by one, and only until   *)
(* it is corrected.                                                        *)
TypeOK ==
  /\ {temp, humidity, t, h, temp_raw, hum_raw} \subseteq 0 .. MaxMeasures
  /\ {valid, may_measure, read_ok} \subseteq BOOLEAN
  /\ storing \subseteq Fields /\ measured \in 0 .. MaxMeasures
  /\ at \in Places /\ round \in 1 .. MaxRounds
  /\ regs \in [RegNames -> 0 .. Max({MaxRounds, MaxMeasures})]
  /\ unwritten \subseteq RegNames /\ uncleared \subseteq RegNames
  /\ write_idx \in 0 .. MaxRounds
  /\ window \in [0 .. WindowSize - 1 -> 0 .. MaxRounds]
  /\ count \in 0 .. WindowSize + 1 /\ (at # "clamp" => count <= WindowSize)
  /\ server \in {"down", "clearing", "up"}
  /\ client \in Clients \cup {"none"}
  /\ n \in 0 .. WindowSize /\ Len(local) <= n
  /\ Len(answer) <= Len(Registers)
  /\ stored_before \in 0 .. MaxRounds

(* A pair that is handed on was measured together or one right after the   *)
(* other; a reader, who may be interrupted between its two loads, gets a   *)
(* humidity of any later time but none more than two measurements older,   *)
(* or the zero of a register that was just cleared.                        *)
PairStaysClose ==
  /\ at \in {"temp_raw", "hum_raw", "registers"} => t <= h + 1 /\ h <= t + 1
  /\ Len(answer) >= 2 =>
       \/ answer[1] <= answer[2] + 2
       \/ client = "modbus" /\ answer[2] = 0

(* Whoever asks again is never shown an older value than before, in any    *)
(* field, although the registers are cleared after the first of them were  *)
(* stored.                                                                 *)
RepliesMoveOn ==
  [][/\ temp_raw' >= temp_raw /\ hum_raw' >= hum_raw
     /\ server = "up" => \A r \in RegNames : regs'[r] >= regs[r]]_vars

(* The percentiles are of latencies that were recorded, none older than    *)
(* the window, and miss no more than the newest; although the window is    *)
(* filled while it is copied and the count goes up and down.               *)
PercentilesAreRecent ==
  client = "web" =>
    /\ \A i \in DOMAIN local :
         local[i] > 0 /\ local[i] + WindowSize > stored_before
    /\ n + 1 >= Min({stored_before, WindowSize})
    /\ stored_before >= WindowSize + 1 => n = WindowSize

=============================================================================
