-------------------------- MODULE TelemetryProofs --------------------------
(***************************************************************************)
(* The safety properties of Telemetry, for every size of the window, any   *)
(* registers and any number of rounds and measurements.                    *)
(***************************************************************************)
EXTENDS Telemetry, SequenceTheorems, FiniteSetTheorems, TLAPS

-----------------------------------------------------------------------------
(* The inductive invariant. *)

(* What readers hold are sequences of numbers.                             *)
Loaded ==
  /\ answer \in Seq(Nat) /\ local \in Seq(Nat)
  /\ client = "none" => answer = << >> /\ local = << >>

(* The driver's fields are of the latest measurement, or the one before it *)
(* while the new ones are being stored.                                    *)
Fresh ==
  /\ measured = temp + IF "temp" \in storing THEN 1 ELSE 0
  /\ measured = humidity + IF "humidity" \in storing THEN 1 ELSE 0
  /\ ~valid => measured = 0 \/ (measured = 1 /\ "valid" \in storing)
  /\ may_measure => storing = {}

(* No value overtakes the one it is a copy of.                             *)
Grows ==
  /\ t <= temp /\ h <= humidity
  /\ temp_raw <= t /\ hum_raw <= h
  /\ \A r \in RegNames : regs[r] <= Published(r)
  /\ server = "up" => uncleared = {}

(* How many measurements the latest read of this round may have missed.    *)
Age == IF may_measure THEN 0 ELSE 1

Recording  == at \in {"claim", "slot", "count", "clamp"}
Publishing == at \in {"temp_raw", "hum_raw", "registers"}

(* What was read in a round is at most Age behind the driver.              *)
ReadIsClose ==
  /\ at = "humidity" => valid /\ measured <= t + Age
  /\ (Recording /\ read_ok) \/ Publishing =>
       t <= h + 1 /\ h <= t + 1 /\ measured <= h + Age
  /\ Publishing => read_ok
  /\ (Recording \/ at = "sleep") /\ ~read_ok => measured <= Age

(* What is published is at most one round further behind.                  *)
RawIsClose ==
  measured <= hum_raw + Age + IF at \in {"registers", "sleep"} THEN 0 ELSE 1

RegisterIsClose ==
  /\ at # "registers" => unwritten = {}
  /\ \/ regs["humidity"] = 0
     \/ measured <= regs["humidity"] + Age
          + IF at \in {"registers", "sleep"} /\ "humidity" \notin unwritten
            THEN 0 ELSE 1

(* What a reader has loaded first is not later than the driver's last.     *)
AnswerIsClose ==
  /\ Len(answer) >= 1 => answer[1] <= measured
  /\ Len(answer) >= 2 => \/ answer[1] <= answer[2] + 2
                         \/ client = "modbus" /\ answer[2] = 0

(* One record per round; the count follows the index.                      *)
InWindow(k) == IF k <= WindowSize THEN k ELSE WindowSize

CountFollows ==
  /\ write_idx <= round
  /\ at \in {"temp", "humidity", "claim"} => write_idx < round
  /\ at \in {"slot", "count"} => write_idx >= 1 /\ count = InWindow(write_idx - 1)
  /\ at = "clamp" => write_idx > WindowSize /\ count = WindowSize + 1
  /\ at \notin {"slot", "count", "clamp"} => count = InWindow(write_idx)

(* A slot that has been filled holds the latest record that belongs there. *)
Filled(i) ==
  /\ window[i] >= 1 /\ window[i] <= Stored /\ window[i] + WindowSize > Stored
  /\ (window[i] - 1) % WindowSize = i

WindowIsFilled == \A i \in 0 .. WindowSize - 1 : i < Stored => Filled(i)

(* What is evaluated was stored when the count was loaded.                 *)
CopiesAreStored ==
  client = "web" =>
    /\ n <= stored_before /\ stored_before <= Stored
    /\ n + 1 >= InWindow(stored_before)
    /\ stored_before >= WindowSize + 1 => n = WindowSize
    /\ \A i \in DOMAIN local :
         local[i] > 0 /\ local[i] + WindowSize > stored_before

IInv ==
  /\ TypeOK /\ Loaded
  /\ Fresh /\ Grows
  /\ ReadIsClose /\ RawIsClose /\ RegisterIsClose /\ AnswerIsClose
  /\ CountFollows /\ WindowIsFilled /\ CopiesAreStored

(* The types, apart.                                                       *)
ControlTypes ==
  /\ valid \in BOOLEAN /\ may_measure \in BOOLEAN /\ read_ok \in BOOLEAN
  /\ storing \subseteq Fields /\ at \in Places
  /\ server \in {"down", "clearing", "up"}
  /\ client \in Clients \cup {"none"}
  /\ unwritten \subseteq RegNames /\ uncleared \subseteq RegNames

ValueTypes ==
  /\ temp \in 0 .. MaxMeasures /\ humidity \in 0 .. MaxMeasures
  /\ t \in 0 .. MaxMeasures /\ h \in 0 .. MaxMeasures
  /\ temp_raw \in 0 .. MaxMeasures /\ hum_raw \in 0 .. MaxMeasures
  /\ measured \in 0 .. MaxMeasures /\ round \in 1 .. MaxRounds

RegTypes == regs \in [RegNames -> 0 .. Max({MaxRounds, MaxMeasures})]

WindowTypes ==
  /\ write_idx \in 0 .. MaxRounds
  /\ window \in [0 .. WindowSize - 1 -> 0 .. MaxRounds]
  /\ count \in 0 .. WindowSize + 1 /\ (at # "clamp" => count <= WindowSize)

ReaderTypes ==
  /\ n \in 0 .. WindowSize /\ Len(local) <= n
  /\ Len(answer) <= Len(Registers)
  /\ stored_before \in 0 .. MaxRounds

LEMMA TypeParts ==
  /\ TypeOK <=> /\ ControlTypes /\ ValueTypes /\ RegTypes
                /\ WindowTypes /\ ReaderTypes
  /\ TypeOK' <=> /\ ControlTypes' /\ ValueTypes' /\ RegTypes'
                 /\ WindowTypes' /\ ReaderTypes'
<1>1. \A a, b, c, T : {a, b, c} \subseteq T <=> a \in T /\ b \in T /\ c \in T
  OBVIOUS
<1>2. \A a, b, c, d, e, f, T : {a, b, c, d, e, f} \subseteq T <=>
        a \in T /\ b \in T /\ c \in T /\ d \in T /\ e \in T /\ f \in T
  OBVIOUS
<1> QED
  BY <1>1, <1>2, Zenon DEF TypeOK, ControlTypes, ValueTypes, RegTypes,
                           WindowTypes, ReaderTypes

-----------------------------------------------------------------------------
(* Lemmas. *)

(* The greater and the lesser of two numbers.                              *)
LEMMA MaxOfTwo ==
  ASSUME NEW a \in Nat, NEW b \in Nat
  PROVE  /\ Max({a, b}) \in Nat
         /\ Max({a, b}) >= a /\ Max({a, b}) >= b
<1>1. \E x \in {a, b} : \A y \in {a, b} : x >= y
  <2>1. CASE a >= b
    BY <2>1
  <2>2. CASE b >= a
    BY <2>2
  <2> QED BY <2>1, <2>2
<1>2. /\ Max({a, b}) \in {a, b}
      /\ \A y \in {a, b} : Max({a, b}) >= y
  BY <1>1, Zenon DEF Max
<1> QED BY <1>2

LEMMA MinOfTwo ==
  ASSUME NEW a \in Nat, NEW b \in Nat
  PROVE  Min({a, b}) = IF a <= b THEN a ELSE b
<1>1. \E x \in {a, b} : \A y \in {a, b} : x =< y
  <2>1. CASE a >= b
    BY <2>1
  <2>2. CASE b >= a
    BY <2>2
  <2> QED BY <2>1, <2>2
<1>2. /\ Min({a, b}) \in {a, b}
      /\ \A y \in {a, b} : Min({a, b}) =< y
  BY <1>1, Zenon DEF Min
<1> QED BY <1>2

(* The registers: the temperature first, the humidity second.              *)
LEMMA RegistersFacts ==
  /\ Len(Registers) \in Nat /\ Len(Registers) >= 2
  /\ Registers[1] = "temperature" /\ Registers[2] = "humidity"
  /\ \A i \in 1 .. Len(Registers) : Registers[i] \in RegNames
  /\ "temperature" \in RegNames /\ "humidity" \in RegNames
<1> DEFINE accels == SetToSeq(Accels)
           Names  == {"temperature", "humidity"} \cup Accels
<1>1. IsFiniteSet(Accels)
  <2>1. IsFiniteSet({"accel_x", "accel_y"})
    <3>1. IsFiniteSet({"accel_x"})
      BY FS_Singleton
    <3>2. IsFiniteSet({"accel_x"} \cup {"accel_y"})
      BY <3>1, FS_AddElement
    <3>3. {"accel_x"} \cup {"accel_y"} = {"accel_x", "accel_y"}
      OBVIOUS
    <3> QED BY <3>2, <3>3
  <2> QED BY <2>1, TelemetryAssumption, FS_Subset
<1>2. /\ Cardinality(Accels) \in Nat
      /\ \E f \in [1 .. Cardinality(Accels) -> Accels] : IsInjective(f)
  BY <1>1, FS_CardinalityType
  DEF ExistsBijection, Bijection, Injection
<1>3. accels \in [1 .. Cardinality(Accels) -> Accels]
  BY <1>2, Zenon DEF SetToSeq
<1> HIDE DEF accels
<1>4. accels \in Seq(Names)
  <2>1. \A x \in Accels : x \in Names
    OBVIOUS
  <2> QED BY <1>2, <1>3, <2>1
<1>5. <<"temperature", "humidity">> \in Seq(Names)
  OBVIOUS
<1> HIDE DEF Names
<1>6. Registers = <<"temperature", "humidity">> \o accels
  BY DEF Registers, accels
<1>7. /\ Len(Registers) \in Nat /\ Len(Registers) >= 2
      /\ Registers[1] = "temperature" /\ Registers[2] = "humidity"
      /\ DOMAIN Registers = 1 .. Len(Registers)
  BY <1>4, <1>5, <1>6
<1>8. \A i \in 1 .. Len(Registers) : Registers[i] \in RegNames
  BY <1>7 DEF RegNames, Range
<1>9. 1 \in 1 .. Len(Registers) /\ 2 \in 1 .. Len(Registers)
  BY <1>7
<1> QED BY <1>7, <1>8, <1>9

(* All of them are numbers.                                                *)
LEMMA Numbers ==
  ASSUME TypeOK
  PROVE  /\ temp \in Nat /\ humidity \in Nat /\ t \in Nat /\ h \in Nat
         /\ temp_raw \in Nat /\ hum_raw \in Nat /\ measured \in Nat
         /\ round \in Nat /\ write_idx \in Nat /\ count \in Nat
         /\ n \in Nat /\ stored_before \in Nat
         /\ \A r \in RegNames : regs[r] \in Nat
         /\ MaxMeasures \in Nat /\ MaxRounds \in Nat
         /\ WindowSize \in Nat /\ WindowSize > 0
<1>1. /\ MaxMeasures \in Nat /\ MaxRounds \in Nat
      /\ WindowSize \in Nat /\ WindowSize > 0
  BY TelemetryAssumption
<1>2. Max({MaxRounds, MaxMeasures}) \in Nat
  BY <1>1, MaxOfTwo
<1>3. \A r \in RegNames : regs[r] \in Nat
  BY <1>2, TypeParts DEF RegTypes
<1>4. ValueTypes /\ WindowTypes /\ ReaderTypes
  BY TypeParts, Zenon
<1>5. /\ temp \in Nat /\ humidity \in Nat /\ t \in Nat /\ h \in Nat
      /\ temp_raw \in Nat /\ hum_raw \in Nat /\ measured \in Nat
      /\ round \in Nat
  BY <1>1, <1>4 DEF ValueTypes
<1>6. write_idx \in Nat /\ count \in Nat
  BY <1>1, <1>4 DEF WindowTypes
<1>7. n \in Nat /\ stored_before \in Nat
  BY <1>1, <1>4 DEF ReaderTypes
<1> QED BY <1>1, <1>3, <1>5, <1>6, <1>7, Zenon

(* What one of the registers is given.                                     *)
LEMMA PublishedFacts ==
  /\ Published("temperature") = t /\ Published("humidity") = h
  /\ \A r \in RegNames : Published(r) \in {t, h, round}
BY DEF Published

LEMMA StoredFacts ==
  ASSUME TypeOK, CountFollows
  PROVE  Stored \in Nat /\ Stored <= write_idx
<1>1. write_idx \in Nat
  BY Numbers
<1> QED BY <1>1 DEF Stored, CountFollows

-----------------------------------------------------------------------------
(* The invariant holds at the start. *)
LEMMA InitInv == Init => IInv
<1> SUFFICES ASSUME Init PROVE IInv
  OBVIOUS
<1>1. /\ 1 \in 1 .. MaxRounds /\ 0 \in 0 .. MaxMeasures
      /\ 0 \in 0 .. MaxRounds /\ 0 \in 0 .. WindowSize
      /\ 0 \in 0 .. WindowSize + 1 /\ 0 <= WindowSize
      /\ 0 \in 0 .. Max({MaxRounds, MaxMeasures})
  BY TelemetryAssumption, MaxOfTwo
<1>2. << >> \in Seq(Nat) /\ Len(<< >>) = 0
  OBVIOUS
<1>3. TypeOK
  <2>1. ControlTypes
    BY Zenon DEF Init, ControlTypes, Places, Clients
  <2>2. ValueTypes /\ RegTypes /\ WindowTypes
    BY <1>1 DEF Init, ValueTypes, RegTypes, WindowTypes
  <2>3. ReaderTypes
    BY <1>1, <1>2, RegistersFacts DEF Init, ReaderTypes
  <2> QED BY <2>1, <2>2, <2>3, TypeParts
<1>4. Loaded /\ AnswerIsClose
  BY <1>2 DEF Init, Loaded, AnswerIsClose
<1>5. Fresh
  BY DEF Init, Fresh
<1>6. Grows
  <2>1. \A r \in RegNames : Published(r) \in Nat
    BY PublishedFacts DEF Init
  <2>2. \A r \in RegNames : regs[r] = 0
    BY DEF Init
  <2> QED BY <2>1, <2>2 DEF Init, Grows
<1>7. ReadIsClose /\ RawIsClose
  BY DEF Init, ReadIsClose, Recording, Publishing, RawIsClose, Age
<1>8. RegisterIsClose
  BY RegistersFacts DEF Init, RegisterIsClose
<1>9. CountFollows /\ WindowIsFilled /\ CopiesAreStored
  BY TelemetryAssumption DEF Init, CountFollows, InWindow, WindowIsFilled,
                             Stored, CopiesAreStored
<1> QED
  BY <1>3, <1>4, <1>5, <1>6, <1>7, <1>8, <1>9 DEF IInv

-----------------------------------------------------------------------------
(* What a step leaves alone. *)

(* The reader, when only driver and collector move on.                     *)
LEMMA ReaderStays ==
  ASSUME IInv, UNCHANGED <<client, n, local, answer, stored_before>>,
         measured' \in Nat, measured' >= measured,
         Stored' \in Nat, Stored' >= Stored
  PROVE  ReaderTypes' /\ Loaded' /\ AnswerIsClose' /\ CopiesAreStored'
<1>1. ReaderTypes' /\ Loaded'
  BY DEF IInv, TypeOK, ReaderTypes, Loaded
<1>2. AnswerIsClose'
  <2>1. Len(answer) >= 1 => answer[1] \in Nat
    BY DEF IInv, Loaded
  <2>2. measured \in Nat
    BY Numbers DEF IInv
  <2> QED BY <2>1, <2>2 DEF IInv, AnswerIsClose
<1>3. CopiesAreStored'
  <2>1. Stored \in Nat /\ stored_before \in Nat
    BY Numbers, StoredFacts DEF IInv
  <2> QED BY <2>1 DEF IInv, CopiesAreStored, InWindow
<1> QED BY <1>1, <1>2, <1>3

(* The window, when no record is being made.                               *)
LEMMA WindowStays ==
  ASSUME IInv, UNCHANGED <<write_idx, window, count>>,
         at' \in Places,
         \/ at' = at /\ round' = round
         \/ /\ at \notin {"slot", "count", "clamp"}
            /\ at' \notin {"slot", "count", "clamp"}
            /\ round' \in Nat /\ write_idx <= round'
            /\ at' \in {"temp", "humidity", "claim"} => write_idx < round'
  PROVE  WindowTypes' /\ CountFollows' /\ WindowIsFilled' /\ Stored' = Stored
<1>1. Stored' = Stored
  BY DEF Stored
<1>2. WindowIsFilled'
  BY <1>1 DEF IInv, WindowIsFilled, Filled
<1>3. CountFollows'
  BY DEF IInv, CountFollows, InWindow
<1>4. WindowTypes'
  <2>1. CASE at' = at
    BY <2>1 DEF IInv, TypeOK, WindowTypes
  <2>2. CASE at \notin {"slot", "count", "clamp"}
    BY <2>2 DEF IInv, TypeOK, WindowTypes
  <2> QED BY <2>1, <2>2
<1> QED BY <1>1, <1>2, <1>3, <1>4

LEMMA AgeFacts ==
  /\ Age \in 0 .. 1 /\ (may_measure => Age = 0) /\ (~may_measure => Age = 1)
  /\ Age' \in 0 .. 1 /\ (may_measure' => Age' = 0) /\ (~may_measure' => Age' = 1)
BY DEF Age

(* The values, when the collector only goes on, or a record is made.       *)
LEMMA ValuesStay ==
  ASSUME IInv,
         UNCHANGED <<temp, humidity, valid, storing, measured, may_measure,
                     round, t, h, read_ok, temp_raw, hum_raw, regs, unwritten,
                     server, uncleared>>,
         \/ at' = at
         \/ Recording /\ Recording'
         \/ Recording /\ at' = "sleep" /\ ~read_ok
         \/ Recording /\ at' = "temp_raw" /\ read_ok
  PROVE  /\ ValueTypes' /\ RegTypes' /\ Fresh' /\ Grows'
         /\ ReadIsClose' /\ RawIsClose' /\ RegisterIsClose'
<1>1. ValueTypes' /\ RegTypes'
  BY TypeParts DEF IInv, ValueTypes, RegTypes
<1>2. Fresh'
  BY DEF IInv, Fresh
<1>3. Grows'
  BY DEF IInv, Grows, Published
<1>4. Age' = Age
  BY DEF Age
<1>5. Recording => ~Publishing /\ at \notin {"humidity", "sleep", "registers"}
  BY DEF Recording, Publishing
<1>6. ReadIsClose'
  BY <1>4, <1>5 DEF IInv, ReadIsClose, Recording, Publishing
<1>7. measured \in Nat /\ hum_raw \in Nat /\ regs["humidity"] \in Nat
  BY Numbers, RegistersFacts DEF IInv
<1>8. RawIsClose'
  BY <1>4, <1>7, AgeFacts DEF IInv, RawIsClose, ReadIsClose, Recording
<1>9. RegisterIsClose'
  BY <1>4, <1>7, AgeFacts DEF IInv, RegisterIsClose, ReadIsClose, Recording
<1> QED BY <1>1, <1>2, <1>3, <1>6, <1>8, <1>9

-----------------------------------------------------------------------------
(* The driver. *)

(* A new measurement makes all that was read in this round one older.      *)
LEMMA MeasureKeepsInv ==
  ASSUME IInv, Measure PROVE IInv'
<1>1. /\ UNCHANGED <<temp, humidity, valid, at, round, t, h, read_ok, temp_raw,
                     hum_raw, regs, unwritten, write_idx, window, count,
                     server, uncleared, client, n, local, answer,
                     stored_before>>
      /\ storing = {} /\ storing' = Fields
      /\ measured < MaxMeasures /\ measured' = measured + 1
  BY DEF Measure, pair, raw, registers, latency, starting, reader
<1>2. may_measure /\ may_measure' = FALSE
  BY Zenon DEF Measure
<1>3. ~may_measure'
  BY <1>2, Zenon
<1>4. Age = 0 /\ Age' = 1
  BY <1>2, <1>3, AgeFacts
<1>5. /\ measured \in Nat /\ hum_raw \in Nat /\ regs["humidity"] \in Nat
      /\ t \in Nat /\ h \in Nat /\ temp \in Nat /\ humidity \in Nat
  BY Numbers, RegistersFacts DEF IInv
<1>6. ControlTypes' /\ ValueTypes' /\ RegTypes'
  <2>1. ControlTypes /\ ValueTypes /\ RegTypes
    BY TypeParts DEF IInv
  <2>2. ControlTypes'
    BY <1>1, <1>2, <2>1, Zenon DEF ControlTypes
  <2>3. MaxMeasures \in Nat
    BY TelemetryAssumption
  <2>4. ValueTypes'
    BY <1>1, <1>5, <2>1, <2>3 DEF ValueTypes
  <2>5. RegTypes'
    BY <1>1, <2>1 DEF RegTypes
  <2> QED BY <2>2, <2>4, <2>5
<1>7. Fresh'
  <2>1. measured = temp /\ measured = humidity /\ (~valid => measured = 0)
    <3>1. "temp" \notin storing /\ "humidity" \notin storing /\ "valid" \notin storing
      BY <1>1
    <3> QED BY <1>5, <3>1 DEF IInv, Fresh
  <2>2. "temp" \in storing' /\ "humidity" \in storing' /\ "valid" \in storing'
    BY <1>1 DEF Fields
  <2> QED BY <1>1, <1>3, <2>1, <2>2 DEF Fresh
<1>8. Grows'
  BY <1>1 DEF IInv, Grows, Published
<1>9. ReadIsClose'
  BY <1>1, <1>4, <1>5 DEF IInv, ReadIsClose, Recording, Publishing
<1>10. RawIsClose'
  BY <1>1, <1>4, <1>5 DEF IInv, RawIsClose
<1>11. RegisterIsClose'
  BY <1>1, <1>4, <1>5 DEF IInv, RegisterIsClose
<1>12. at' \in Places /\ Stored' = Stored /\ Stored \in Nat
  BY <1>1, <1>6, StoredFacts DEF ControlTypes, Stored, IInv
<1>13. WindowTypes' /\ CountFollows' /\ WindowIsFilled'
  BY <1>1, <1>12, WindowStays
<1>14. ReaderTypes' /\ Loaded' /\ AnswerIsClose' /\ CopiesAreStored'
  BY <1>1, <1>5, <1>12, ReaderStays
<1> QED
  BY <1>6, <1>7, <1>8, <1>9, <1>10, <1>11, <1>13, <1>14, TypeParts DEF IInv

LEMMA StoreFieldKeepsInv ==
  ASSUME IInv, StoreField PROVE IInv'
<1>1. /\ UNCHANGED <<measured, may_measure, at, round, t, h, read_ok, temp_raw,
                     hum_raw, regs, unwritten, write_idx, window, count,
                     server, uncleared, client, n, local, answer,
                     stored_before>>
  BY DEF StoreField, collector, pair, raw, registers, latency, starting, reader
<1>2. PICK f \in storing :
        /\ storing' = storing \ {f}
        /\ temp' = IF f = "temp" THEN measured ELSE temp
        /\ humidity' = IF f = "humidity" THEN measured ELSE humidity
        /\ valid' = (valid \/ f = "valid")
  BY Zenon DEF StoreField
<1>3. /\ valid' \in BOOLEAN /\ (valid => valid')
      /\ ~valid' => ~valid /\ f # "valid"
  BY <1>2, Zenon
<1>4. f \in Fields /\ storing' \subseteq storing
  BY <1>2, TypeParts DEF IInv, ControlTypes
<1>5. /\ measured \in Nat /\ hum_raw \in Nat /\ regs["humidity"] \in Nat
      /\ t \in Nat /\ h \in Nat /\ temp \in Nat /\ humidity \in Nat
  BY Numbers, RegistersFacts DEF IInv
<1>6. ControlTypes' /\ ValueTypes' /\ RegTypes'
  <2>1. ControlTypes /\ ValueTypes /\ RegTypes
    BY TypeParts DEF IInv
  <2>2. ControlTypes'
    BY <1>1, <1>3, <1>4, <2>1, Zenon DEF ControlTypes
  <2>3. ValueTypes' /\ RegTypes'
    BY <1>1, <1>2, <2>1 DEF ValueTypes, RegTypes
  <2> QED BY <2>2, <2>3
<1>7. /\ temp <= measured /\ humidity <= measured
      /\ temp' >= temp /\ humidity' >= humidity
      /\ temp' \in Nat /\ humidity' \in Nat
  BY <1>2, <1>5 DEF IInv, Fresh
<1>8. Fresh'
  <2>1. /\ measured' = temp' + IF "temp" \in storing' THEN 1 ELSE 0
        /\ measured' = humidity' + IF "humidity" \in storing' THEN 1 ELSE 0
    BY <1>1, <1>2, <1>5 DEF IInv, Fresh
  <2>2. ~valid' => measured = 0 \/ (measured = 1 /\ "valid" \in storing')
    BY <1>2, <1>3 DEF IInv, Fresh
  <2>3. may_measure' => storing' = {}
    BY <1>1, <1>4 DEF IInv, Fresh
  <2> QED BY <1>1, <2>1, <2>2, <2>3 DEF Fresh
<1>9. Grows'
  BY <1>1, <1>5, <1>7 DEF IInv, Grows, Published
<1>10. Age' = Age
  BY <1>1 DEF Age
<1>11. ReadIsClose'
  BY <1>1, <1>3, <1>10 DEF IInv, ReadIsClose, Recording, Publishing
<1>12. RawIsClose' /\ RegisterIsClose'
  BY <1>1, <1>10 DEF IInv, RawIsClose, RegisterIsClose
<1>13. at' \in Places /\ Stored' = Stored /\ Stored \in Nat
  BY <1>1, <1>6, StoredFacts DEF ControlTypes, Stored, IInv
<1>14. WindowTypes' /\ CountFollows' /\ WindowIsFilled'
  BY <1>1, <1>13, WindowStays
<1>15. ReaderTypes' /\ Loaded' /\ AnswerIsClose' /\ CopiesAreStored'
  BY <1>1, <1>5, <1>13, ReaderStays
<1> QED
  BY <1>6, <1>8, <1>9, <1>11, <1>12, <1>14, <1>15, TypeParts DEF IInv

-----------------------------------------------------------------------------
(* The collector reads and publishes. *)

(* What the registers hold stays behind what they will be given next.      *)
LEMMA RegsStayBelow ==
  ASSUME IInv, regs' = regs, t' \in Nat, h' \in Nat, round' \in Nat,
         t' >= t, h' >= h, round' >= round
  PROVE  \A r \in RegNames : regs'[r] <= Published(r)'
<1>1. t \in Nat /\ h \in Nat /\ round \in Nat
  BY Numbers DEF IInv
<1>2. \A r \in RegNames : Published(r) \in Nat /\ Published(r)' \in Nat
  BY <1>1 DEF Published
<1>3. \A r \in RegNames : Published(r)' >= Published(r)
  BY <1>1 DEF Published
<1>4. \A r \in RegNames : regs[r] \in Nat
  BY Numbers DEF IInv
<1> QED BY <1>2, <1>3, <1>4 DEF IInv, Grows

LEMMA ReadTempKeepsInv ==
  ASSUME IInv, ReadTemp PROVE IInv'
<1>1. /\ UNCHANGED <<temp, humidity, valid, storing, measured, may_measure,
                     round, h, temp_raw, hum_raw, regs, unwritten, write_idx,
                     window, count, server, uncleared, client, n, local,
                     answer, stored_before>>
      /\ at = "temp"
      /\ at' = IF valid THEN "humidity" ELSE "claim"
      /\ t' = IF valid THEN temp ELSE t
  BY DEF ReadTemp, Goto, sht30, raw, registers, latency, starting, reader
<1>2. read_ok' = FALSE
  BY Zenon DEF ReadTemp
<1>3. ~read_ok' /\ read_ok' \in BOOLEAN
  BY <1>2, Zenon
<1>4. at' \in {"humidity", "claim"} /\ t' \in {t, temp}
  BY <1>1
<1>5. /\ measured \in Nat /\ hum_raw \in Nat /\ regs["humidity"] \in Nat
      /\ t \in Nat /\ h \in Nat /\ temp \in Nat /\ humidity \in Nat
      /\ temp_raw \in Nat /\ round \in Nat /\ write_idx \in Nat
  BY Numbers, RegistersFacts DEF IInv
<1>6. ControlTypes' /\ ValueTypes' /\ RegTypes'
  <2>1. ControlTypes /\ ValueTypes /\ RegTypes
    BY TypeParts DEF IInv
  <2>2. at' \in Places
    BY <1>4 DEF Places
  <2>3. ControlTypes'
    BY <1>1, <1>3, <2>1, <2>2, Zenon DEF ControlTypes
  <2>4. ValueTypes' /\ RegTypes'
    BY <1>1, <1>4, <2>1 DEF ValueTypes, RegTypes
  <2> QED BY <2>3, <2>4
<1>7. Fresh'
  BY <1>1 DEF IInv, Fresh
<1>8. Age' = Age
  BY <1>1 DEF Age
<1>9. t' >= t /\ t' \in Nat /\ t' <= temp
  BY <1>4, <1>5 DEF IInv, Grows
<1>10. Grows'
  <2>1. \A r \in RegNames : regs'[r] <= Published(r)'
    BY <1>1, <1>5, <1>9, RegsStayBelow
  <2> QED BY <1>1, <1>5, <1>9, <2>1 DEF IInv, Grows
<1>11. valid => measured <= t' + Age
  <2>1. storing # {} => Age = 1
    BY AgeFacts DEF IInv, Fresh
  <2>2. storing = {} => measured = temp
    BY <1>5 DEF IInv, Fresh
  <2>3. measured <= temp + 1
    BY <1>5 DEF IInv, Fresh
  <2> QED BY <1>1, <1>5, <2>1, <2>2, <2>3, AgeFacts
<1>12. ~valid => measured <= Age
  <2>1. "valid" \in storing => Age = 1
    BY AgeFacts DEF IInv, Fresh
  <2> QED BY <1>5, <2>1, AgeFacts DEF IInv, Fresh
<1>13. ReadIsClose'
  <2>1. at' = "humidity" => valid' /\ measured' <= t' + Age'
    BY <1>1, <1>8, <1>11
  <2>2. at' = "claim" => measured' <= Age'
    BY <1>1, <1>8, <1>12
  <2>3. ~Publishing' /\ at' # "sleep" /\ (Recording' => at' = "claim")
    BY <1>4 DEF Publishing, Recording
  <2> QED BY <1>3, <2>1, <2>2, <2>3 DEF ReadIsClose
<1>14. RawIsClose' /\ RegisterIsClose'
  BY <1>1, <1>4, <1>8 DEF IInv, RawIsClose, RegisterIsClose
<1>15. at' \in Places /\ Stored' = Stored /\ Stored \in Nat
  BY <1>1, <1>4, <1>6, StoredFacts DEF ControlTypes, Stored, IInv
<1>16. WindowTypes' /\ CountFollows' /\ WindowIsFilled'
  <2>1. write_idx < round
    BY <1>1 DEF IInv, CountFollows
  <2>2. /\ at \notin {"slot", "count", "clamp"} /\ at' \notin {"slot", "count", "clamp"}
        /\ round' \in Nat /\ write_idx <= round' /\ write_idx < round'
    BY <1>1, <1>4, <1>5, <2>1
  <2> QED BY <1>1, <1>15, <2>2, WindowStays
<1>17. ReaderTypes' /\ Loaded' /\ AnswerIsClose' /\ CopiesAreStored'
  BY <1>1, <1>5, <1>15, ReaderStays
<1> QED
  BY <1>6, <1>7, <1>10, <1>13, <1>14, <1>16, <1>17, TypeParts DEF IInv

(* The humidity was measured with the temperature, or right after it.      *)
LEMMA ReadHumidityKeepsInv ==
  ASSUME IInv, ReadHumidity PROVE IInv'
<1>1. /\ UNCHANGED <<temp, humidity, valid, storing, measured, may_measure,
                     round, t, temp_raw, hum_raw, regs, unwritten, write_idx,
                     window, count, server, uncleared, client, n, local,
                     answer, stored_before>>
      /\ at = "humidity" /\ at' = "claim"
  BY DEF ReadHumidity, Goto, sht30, raw, registers, latency, starting, reader
<1>2. valid /\ measured <= t + Age
  BY <1>1 DEF IInv, ReadIsClose
<1>3. h' = humidity
  BY <1>2 DEF ReadHumidity
<1>4. read_ok' = valid
  BY Zenon DEF ReadHumidity
<1>5. read_ok' /\ read_ok' \in BOOLEAN
  BY <1>2, <1>4, TypeParts, Zenon DEF IInv, ControlTypes
<1>6. /\ measured \in Nat /\ hum_raw \in Nat /\ regs["humidity"] \in Nat
      /\ t \in Nat /\ h \in Nat /\ temp \in Nat /\ humidity \in Nat
      /\ temp_raw \in Nat /\ round \in Nat /\ write_idx \in Nat
  BY Numbers, RegistersFacts DEF IInv
<1>7. ControlTypes' /\ ValueTypes' /\ RegTypes'
  <2>1. ControlTypes /\ ValueTypes /\ RegTypes
    BY TypeParts DEF IInv
  <2>2. at' \in Places
    BY <1>1 DEF Places
  <2>3. ControlTypes'
    BY <1>1, <1>5, <2>1, <2>2, Zenon DEF ControlTypes
  <2>4. ValueTypes' /\ RegTypes'
    BY <1>1, <1>3, <2>1 DEF ValueTypes, RegTypes
  <2> QED BY <2>3, <2>4
<1>8. Fresh'
  BY <1>1 DEF IInv, Fresh
<1>9. Age' = Age
  BY <1>1 DEF Age
<1>10. h' >= h /\ h' \in Nat /\ h' <= humidity
  BY <1>3, <1>6 DEF IInv, Grows
<1>11. Grows'
  <2>1. \A r \in RegNames : regs'[r] <= Published(r)'
    BY <1>1, <1>6, <1>10, RegsStayBelow
  <2> QED BY <1>1, <1>6, <1>10, <2>1 DEF IInv, Grows
<1>12. measured <= h' + Age
  <2>1. storing # {} => Age = 1
    BY AgeFacts DEF IInv, Fresh
  <2>2. storing = {} => measured = humidity
    BY <1>6 DEF IInv, Fresh
  <2>3. measured <= humidity + 1
    BY <1>6 DEF IInv, Fresh
  <2> QED BY <1>3, <1>6, <2>1, <2>2, <2>3, AgeFacts
<1>13. t <= h' + 1 /\ h' <= t + 1
  <2>1. t <= measured /\ humidity <= measured
    BY <1>6 DEF IInv, Fresh, Grows
  <2> QED BY <1>2, <1>3, <1>6, <1>12, <2>1, AgeFacts
<1>14. ReadIsClose'
  BY <1>1, <1>5, <1>9, <1>12, <1>13 DEF ReadIsClose, Recording, Publishing
<1>15. RawIsClose' /\ RegisterIsClose'
  BY <1>1, <1>9 DEF IInv, RawIsClose, RegisterIsClose
<1>16. at' \in Places /\ Stored' = Stored /\ Stored \in Nat
  BY <1>1, <1>7, StoredFacts DEF ControlTypes, Stored, IInv
<1>17. WindowTypes' /\ CountFollows' /\ WindowIsFilled'
  <2>1. write_idx < round
    BY <1>1 DEF IInv, CountFollows
  <2>2. /\ at \notin {"slot", "count", "clamp"} /\ at' \notin {"slot", "count", "clamp"}
        /\ round' \in Nat /\ write_idx <= round' /\ write_idx < round'
    BY <1>1, <1>6, <2>1
  <2> QED BY <1>1, <1>16, <2>2, WindowStays
<1>18. ReaderTypes' /\ Loaded' /\ AnswerIsClose' /\ CopiesAreStored'
  BY <1>1, <1>6, <1>16, ReaderStays
<1> QED
  BY <1>7, <1>8, <1>11, <1>14, <1>15, <1>17, <1>18, TypeParts DEF IInv

LEMMA StoreTempRawKeepsInv ==
  ASSUME IInv, StoreTempRaw PROVE IInv'
<1>1. /\ UNCHANGED <<temp, humidity, valid, storing, measured, may_measure,
                     round, t, h, read_ok, hum_raw, regs, unwritten,
                     write_idx, window, count, server, uncleared, client, n,
                     local, answer, stored_before>>
      /\ at = "temp_raw" /\ at' = "hum_raw" /\ temp_raw' = t
  BY DEF StoreTempRaw, Goto, sht30, pair, registers, latency, starting, reader
<1>2. /\ measured \in Nat /\ t \in Nat /\ round \in Nat /\ write_idx \in Nat
  BY Numbers DEF IInv
<1>3. ControlTypes' /\ ValueTypes' /\ RegTypes'
  <2>1. ControlTypes /\ ValueTypes /\ RegTypes
    BY TypeParts DEF IInv
  <2>2. at' \in Places
    BY <1>1 DEF Places
  <2>3. ControlTypes'
    BY <1>1, <2>1, <2>2, Zenon DEF ControlTypes
  <2>4. ValueTypes' /\ RegTypes'
    BY <1>1, <2>1 DEF ValueTypes, RegTypes
  <2> QED BY <2>3, <2>4
<1>4. Fresh'
  BY <1>1 DEF IInv, Fresh
<1>5. Grows'
  BY <1>1, <1>2 DEF IInv, Grows, Published
<1>6. Age' = Age
  BY <1>1 DEF Age
<1>7. ReadIsClose'
  BY <1>1, <1>6 DEF IInv, ReadIsClose, Recording, Publishing
<1>8. RawIsClose' /\ RegisterIsClose'
  BY <1>1, <1>6 DEF IInv, RawIsClose, RegisterIsClose
<1>9. at' \in Places /\ Stored' = Stored /\ Stored \in Nat
  BY <1>1, <1>3, StoredFacts DEF ControlTypes, Stored, IInv
<1>10. WindowTypes' /\ CountFollows' /\ WindowIsFilled'
  <2>1. /\ at \notin {"slot", "count", "clamp"} /\ at' \notin {"slot", "count", "clamp"}
        /\ round' \in Nat /\ write_idx <= round'
        /\ at' \notin {"temp", "humidity", "claim"}
    BY <1>1, <1>2 DEF IInv, CountFollows
  <2> QED BY <1>1, <1>9, <2>1, WindowStays
<1>11. ReaderTypes' /\ Loaded' /\ AnswerIsClose' /\ CopiesAreStored'
  BY <1>1, <1>2, <1>9, ReaderStays
<1> QED
  BY <1>3, <1>4, <1>5, <1>7, <1>8, <1>10, <1>11, TypeParts DEF IInv

LEMMA StoreHumRawKeepsInv ==
  ASSUME IInv, StoreHumRaw PROVE IInv'
<1>1. /\ UNCHANGED <<temp, humidity, valid, storing, measured, may_measure,
                     round, t, h, read_ok, temp_raw, regs, write_idx, window,
                     count, server, uncleared, client, n, local, answer,
                     stored_before>>
      /\ at = "hum_raw" /\ at' = "registers"
      /\ hum_raw' = h /\ unwritten' = RegNames
  BY DEF StoreHumRaw, Goto, sht30, pair, latency, starting, reader
<1>2. /\ measured \in Nat /\ h \in Nat /\ round \in Nat /\ write_idx \in Nat
      /\ regs["humidity"] \in Nat
  BY Numbers, RegistersFacts DEF IInv
<1>3. ControlTypes' /\ ValueTypes' /\ RegTypes'
  <2>1. ControlTypes /\ ValueTypes /\ RegTypes
    BY TypeParts DEF IInv
  <2>2. at' \in Places /\ unwritten' \subseteq RegNames
    BY <1>1 DEF Places
  <2>3. ControlTypes'
    BY <1>1, <2>1, <2>2, Zenon DEF ControlTypes
  <2>4. ValueTypes' /\ RegTypes'
    BY <1>1, <2>1 DEF ValueTypes, RegTypes
  <2> QED BY <2>3, <2>4
<1>4. Fresh'
  BY <1>1 DEF IInv, Fresh
<1>5. Grows'
  BY <1>1, <1>2 DEF IInv, Grows, Published
<1>6. Age' = Age
  BY <1>1 DEF Age
<1>7. ReadIsClose'
  BY <1>1, <1>6 DEF IInv, ReadIsClose, Recording, Publishing
<1>8. measured <= h + Age
  BY <1>1 DEF IInv, ReadIsClose, Publishing
<1>9. RawIsClose'
  BY <1>1, <1>2, <1>6, <1>8, AgeFacts DEF RawIsClose
<1>10. RegisterIsClose'
  BY <1>1, <1>2, <1>6, RegistersFacts DEF IInv, RegisterIsClose
<1>11. at' \in Places /\ Stored' = Stored /\ Stored \in Nat
  BY <1>1, <1>3, StoredFacts DEF ControlTypes, Stored, IInv
<1>12. WindowTypes' /\ CountFollows' /\ WindowIsFilled'
  <2>1. /\ at \notin {"slot", "count", "clamp"} /\ at' \notin {"slot", "count", "clamp"}
        /\ round' \in Nat /\ write_idx <= round'
        /\ at' \notin {"temp", "humidity", "claim"}
    BY <1>1, <1>2 DEF IInv, CountFollows
  <2> QED BY <1>1, <1>11, <2>1, WindowStays
<1>13. ReaderTypes' /\ Loaded' /\ AnswerIsClose' /\ CopiesAreStored'
  BY <1>1, <1>2, <1>11, ReaderStays
<1> QED
  BY <1>3, <1>4, <1>5, <1>7, <1>9, <1>10, <1>12, <1>13, TypeParts DEF IInv

(* The registers get what was published, also while they are cleared.      *)
LEMMA StoreRegisterKeepsInv ==
  ASSUME IInv, StoreRegister PROVE IInv'
<1>1. /\ UNCHANGED <<temp, humidity, valid, storing, measured, may_measure,
                     round, t, h, read_ok, temp_raw, hum_raw, write_idx,
                     window, count, server, uncleared, client, n, local,
                     answer, stored_before>>
      /\ at = "registers"
  BY DEF StoreRegister, sht30, pair, raw, latency, starting, reader
<1>2. PICK r \in unwritten :
        /\ unwritten' = unwritten \ {r}
        /\ regs' = [regs EXCEPT ![r] = Published(r)]
        /\ at' = IF unwritten = {r} THEN "sleep" ELSE at
  BY DEF StoreRegister
<1>3. /\ measured \in Nat /\ h \in Nat /\ t \in Nat /\ round \in Nat
      /\ write_idx \in Nat /\ hum_raw \in Nat /\ regs["humidity"] \in Nat
      /\ MaxMeasures \in Nat /\ MaxRounds \in Nat
  BY Numbers, RegistersFacts DEF IInv
<1>4. ControlTypes /\ ValueTypes /\ RegTypes /\ r \in RegNames
  BY <1>2, TypeParts DEF IInv, ControlTypes
<1>5. at' \in {"registers", "sleep"} /\ (at' = "sleep" => unwritten' = {})
  BY <1>1, <1>2
<1>6. /\ \A q \in RegNames : regs'[q] = IF q = r THEN Published(q) ELSE regs[q]
      /\ DOMAIN regs' = RegNames
  BY <1>2, <1>4 DEF RegTypes
<1>7. Published(r) \in 0 .. Max({MaxRounds, MaxMeasures})
  <2>1. /\ Max({MaxRounds, MaxMeasures}) \in Nat
        /\ Max({MaxRounds, MaxMeasures}) >= MaxRounds
        /\ Max({MaxRounds, MaxMeasures}) >= MaxMeasures
    BY <1>3, MaxOfTwo
  <2>2. t <= MaxMeasures /\ h <= MaxMeasures /\ round <= MaxRounds
    BY <1>4 DEF ValueTypes
  <2>3. Published(r) \in {t, h, round}
    BY <1>4, PublishedFacts
  <2> QED BY <1>3, <2>1, <2>2, <2>3
<1>8. ControlTypes' /\ ValueTypes' /\ RegTypes'
  <2>1. at' \in Places /\ unwritten' \subseteq RegNames
    BY <1>2, <1>4, <1>5 DEF Places, ControlTypes
  <2>2. ControlTypes'
    BY <1>1, <1>4, <2>1, Zenon DEF ControlTypes
  <2>3. ValueTypes'
    BY <1>1, <1>4 DEF ValueTypes
  <2>4. RegTypes'
    BY <1>2, <1>4, <1>7 DEF RegTypes
  <2> QED BY <2>2, <2>3, <2>4
<1>9. Fresh'
  BY <1>1 DEF IInv, Fresh
<1>10. Grows'
  <2>1. \A q \in RegNames : Published(q)' = Published(q) /\ Published(q) \in Nat
    BY <1>1, <1>3 DEF Published
  <2>2. \A q \in RegNames : regs'[q] <= Published(q)'
    BY <1>6, <2>1 DEF IInv, Grows
  <2> QED BY <1>1, <2>2 DEF IInv, Grows
<1>11. Age' = Age
  BY <1>1 DEF Age
<1>12. measured <= h + Age /\ read_ok
  BY <1>1 DEF IInv, ReadIsClose, Publishing
<1>13. ReadIsClose'
  BY <1>1, <1>5, <1>11, <1>12 DEF IInv, ReadIsClose, Recording, Publishing
<1>14. RawIsClose'
  BY <1>1, <1>5, <1>11 DEF IInv, RawIsClose
<1>15. RegisterIsClose'
  <2>1. CASE r = "humidity"
    <3>1. regs'["humidity"] = h
      BY <1>6, <2>1, RegistersFacts, PublishedFacts
    <3> QED BY <1>1, <1>3, <1>5, <1>11, <1>12, <3>1, AgeFacts DEF RegisterIsClose
  <2>2. CASE r # "humidity"
    <3>1. regs'["humidity"] = regs["humidity"]
      BY <1>6, <2>2, RegistersFacts
    <3>2. "humidity" \in unwritten' <=> "humidity" \in unwritten
      BY <1>2, <2>2
    <3>3. at' = "sleep" => "humidity" \notin unwritten
      BY <1>5, <3>2
    <3> QED BY <1>1, <1>3, <1>5, <1>11, <3>1, <3>2, <3>3, AgeFacts
            DEF IInv, RegisterIsClose
  <2> QED BY <2>1, <2>2
<1>16. at' \in Places /\ Stored' = Stored /\ Stored \in Nat
  BY <1>1, <1>5, <1>8, StoredFacts DEF ControlTypes, Stored, IInv
<1>17. WindowTypes' /\ CountFollows' /\ WindowIsFilled'
  <2>1. /\ at \notin {"slot", "count", "clamp"} /\ at' \notin {"slot", "count", "clamp"}
        /\ round' \in Nat /\ write_idx <= round'
        /\ at' \notin {"temp", "humidity", "claim"}
    BY <1>1, <1>3, <1>5 DEF IInv, CountFollows
  <2> QED BY <1>1, <1>16, <2>1, WindowStays
<1>18. ReaderTypes' /\ Loaded' /\ AnswerIsClose' /\ CopiesAreStored'
  BY <1>1, <1>3, <1>16, ReaderStays
<1> QED
  BY <1>8, <1>9, <1>10, <1>13, <1>14, <1>15, <1>17, <1>18, TypeParts DEF IInv

LEMMA NextRoundKeepsInv ==
  ASSUME IInv, NextRound PROVE IInv'
<1>1. /\ UNCHANGED <<temp, humidity, valid, storing, measured, t, h, read_ok,
                     temp_raw, hum_raw, regs, unwritten, write_idx, window,
                     count, server, uncleared, client, n, local, answer,
                     stored_before>>
      /\ at = "sleep" /\ at' = "temp"
      /\ round < MaxRounds /\ round' = round + 1
  BY DEF NextRound, Goto, sht30, pair, raw, registers, latency, starting, reader
<1>2. may_measure' = (storing = {})
  BY Zenon DEF NextRound
<1>3. may_measure' \in BOOLEAN /\ (may_measure' => storing = {})
  BY <1>2, Zenon
<1>4. /\ measured \in Nat /\ h \in Nat /\ t \in Nat /\ round \in Nat
      /\ write_idx \in Nat /\ hum_raw \in Nat /\ regs["humidity"] \in Nat
      /\ MaxRounds \in Nat
  BY Numbers, RegistersFacts DEF IInv
<1>5. ControlTypes' /\ ValueTypes' /\ RegTypes'
  <2>1. ControlTypes /\ ValueTypes /\ RegTypes
    BY TypeParts DEF IInv
  <2>2. at' \in Places
    BY <1>1 DEF Places
  <2>3. ControlTypes'
    BY <1>1, <1>3, <2>1, <2>2, Zenon DEF ControlTypes
  <2>4. ValueTypes' /\ RegTypes'
    BY <1>1, <1>4, <2>1 DEF ValueTypes, RegTypes
  <2> QED BY <2>3, <2>4
<1>6. Fresh'
  BY <1>1, <1>3 DEF IInv, Fresh
<1>7. Grows'
  <2>1. \A r \in RegNames : regs'[r] <= Published(r)'
    BY <1>1, <1>4, RegsStayBelow
  <2> QED BY <1>1, <2>1 DEF IInv, Grows
<1>8. ReadIsClose'
  BY <1>1 DEF ReadIsClose, Recording, Publishing
<1>9. RawIsClose'
  <2>1. measured <= hum_raw + Age
    BY <1>1, <1>4, AgeFacts DEF IInv, RawIsClose
  <2>2. measured <= hum_raw + 1
    BY <1>4, <2>1, AgeFacts
  <2>3. measured <= hum_raw + Age' + 1
    <3>1. \A x, y, z \in Nat : x <= y + 1 => x <= y + z + 1
      OBVIOUS
    <3>2. Age' \in Nat
      BY AgeFacts
    <3>3. measured \in Nat /\ hum_raw \in Nat
      BY <1>4
    <3> QED BY <2>2, <3>1, <3>2, <3>3, Zenon
  <2>4. at' \notin {"registers", "sleep"}
    BY <1>1
  <2> QED BY <1>1, <2>3, <2>4 DEF RawIsClose
<1>10. RegisterIsClose'
  <2>1. unwritten = {}
    BY <1>1 DEF IInv, RegisterIsClose
  <2> QED BY <1>1, <1>4, <2>1, AgeFacts DEF IInv, RegisterIsClose
<1>11. at' \in Places /\ Stored' = Stored /\ Stored \in Nat
  BY <1>1, <1>5, StoredFacts DEF ControlTypes, Stored, IInv
<1>12. WindowTypes' /\ CountFollows' /\ WindowIsFilled'
  <2>1. /\ at \notin {"slot", "count", "clamp"} /\ at' \notin {"slot", "count", "clamp"}
        /\ round' \in Nat /\ write_idx <= round' /\ write_idx < round'
    BY <1>1, <1>4 DEF IInv, CountFollows
  <2> QED BY <1>1, <1>11, <2>1, WindowStays
<1>13. ReaderTypes' /\ Loaded' /\ AnswerIsClose' /\ CopiesAreStored'
  BY <1>1, <1>4, <1>11, ReaderStays
<1> QED
  BY <1>5, <1>6, <1>7, <1>8, <1>9, <1>10, <1>12, <1>13, TypeParts DEF IInv

-----------------------------------------------------------------------------
(* A record is made. *)

(* What the four steps of record_latency have in common.                   *)
LEMMA RecordStays ==
  ASSUME IInv, RecordOnly, Recording,
         \/ Recording'
         \/ at' = Recorded
  PROVE  /\ ControlTypes' /\ ValueTypes' /\ RegTypes' /\ Fresh' /\ Grows'
         /\ ReadIsClose' /\ RawIsClose' /\ RegisterIsClose'
         /\ UNCHANGED <<round, measured, client, n, local, answer,
                        stored_before>>
<1>1. UNCHANGED <<temp, humidity, valid, storing, measured, may_measure,
                  round, t, h, read_ok, temp_raw, hum_raw, regs, unwritten,
                  server, uncleared, client, n, local, answer, stored_before>>
  BY DEF RecordOnly, sht30, pair, raw, registers, starting, reader
<1>2. at' \in Places
  BY DEF Recorded, Recording, Places
<1>3. ControlTypes'
  <2>1. ControlTypes
    BY TypeParts DEF IInv
  <2> QED BY <1>1, <1>2, <2>1, Zenon DEF ControlTypes
<1>4. \/ Recording /\ Recording'
      \/ Recording /\ at' = "sleep" /\ ~read_ok
      \/ Recording /\ at' = "temp_raw" /\ read_ok
  BY DEF Recorded
<1> QED BY <1>1, <1>3, <1>4, ValuesStay

LEMMA ClaimSlotKeepsInv ==
  ASSUME IInv, ClaimSlot PROVE IInv'
<1>1. /\ RecordOnly /\ at = "claim" /\ at' = "slot"
      /\ write_idx' = write_idx + 1 /\ window' = window /\ count' = count
  BY DEF ClaimSlot, Goto
<1>2. Recording /\ Recording'
  BY <1>1 DEF Recording
<1>3. /\ ControlTypes' /\ ValueTypes' /\ RegTypes' /\ Fresh' /\ Grows'
      /\ ReadIsClose' /\ RawIsClose' /\ RegisterIsClose'
      /\ UNCHANGED <<round, measured, client, n, local, answer, stored_before>>
  BY <1>1, <1>2, RecordStays
<1>4. /\ measured \in Nat /\ write_idx \in Nat /\ round \in Nat
      /\ MaxRounds \in Nat /\ round <= MaxRounds
  BY Numbers, TypeParts DEF IInv, ValueTypes
<1>5. Stored' = Stored /\ Stored \in Nat
  BY <1>1, <1>4 DEF Stored
<1>6. write_idx < round
  BY <1>1 DEF IInv, CountFollows
<1>7. WindowTypes'
  <2>1. WindowTypes
    BY TypeParts DEF IInv
  <2> QED BY <1>1, <1>4, <1>6, <2>1 DEF WindowTypes
<1>8. CountFollows'
  <2>1. write_idx' - 1 = write_idx /\ write_idx' >= 1 /\ write_idx' <= round
    BY <1>1, <1>4, <1>6
  <2>2. count = InWindow(write_idx)
    BY <1>1 DEF IInv, CountFollows
  <2> QED BY <1>1, <1>3, <2>1, <2>2 DEF CountFollows, InWindow
<1>9. WindowIsFilled'
  BY <1>1, <1>5 DEF IInv, WindowIsFilled, Filled
<1>10. ReaderTypes' /\ Loaded' /\ AnswerIsClose' /\ CopiesAreStored'
  BY <1>3, <1>4, <1>5, ReaderStays
<1> QED
  BY <1>3, <1>7, <1>8, <1>9, <1>10, TypeParts DEF IInv

(* A whole turn of the window leads to the same slot.                      *)
LEMMA SameSlot ==
  ASSUME NEW k \in Nat, NEW d \in Nat \ {0}
  PROVE  (k + d) % d = k % d
<1> DEFINE a == k \div d
           b == (k + d) \div d
           r == k % d
           s == (k + d) % d
<1>1. /\ a \in Nat /\ r \in 0 .. d - 1 /\ k = d * a + r
      /\ b \in Nat /\ s \in 0 .. d - 1 /\ k + d = d * b + s
  OBVIOUS
<1> HIDE DEF a, b, r, s
<1>2. d * (b - a) = d + (r - s)
  BY <1>1
<1>3. b - a = 1
  <2>1. CASE b - a >= 2
    <3>1. d * (b - a) >= d * 2
      BY <1>1, <2>1
    <3> QED BY <1>1, <1>2, <3>1
  <2>2. CASE b - a <= 0
    <3>1. d * (b - a) <= 0
      BY <1>1, <2>2
    <3> QED BY <1>1, <1>2, <3>1
  <2> QED BY <1>1, <2>1, <2>2
<1> QED BY <1>1, <1>2, <1>3 DEF r, s

LEMMA FirstTurn ==
  ASSUME NEW k \in Nat, NEW d \in Nat \ {0}, k < d
  PROVE  k % d = k
OBVIOUS

LEMMA FillSlotKeepsInv ==
  ASSUME IInv, FillSlot PROVE IInv'
<1> DEFINE k == (write_idx - 1) % WindowSize
<1>1. /\ RecordOnly /\ at = "slot" /\ at' = "count"
      /\ window' = [window EXCEPT ![k] = write_idx]
      /\ write_idx' = write_idx /\ count' = count
  BY DEF FillSlot, Goto
<1>2. Recording /\ Recording'
  BY <1>1 DEF Recording
<1>3. /\ ControlTypes' /\ ValueTypes' /\ RegTypes' /\ Fresh' /\ Grows'
      /\ ReadIsClose' /\ RawIsClose' /\ RegisterIsClose'
      /\ UNCHANGED <<round, measured, client, n, local, answer, stored_before>>
  BY <1>1, <1>2, RecordStays
<1>4. /\ measured \in Nat /\ write_idx \in Nat /\ write_idx >= 1
      /\ WindowSize \in Nat \ {0} /\ write_idx - 1 \in Nat
  BY <1>1, Numbers DEF IInv, CountFollows
<1>5. k \in 0 .. WindowSize - 1
  BY <1>4
<1>6. (write_idx - 1) % WindowSize = k
  OBVIOUS
<1> HIDE DEF k
<1>7. /\ Stored = write_idx - 1 /\ Stored' = write_idx
      /\ Stored' \in Nat /\ Stored' >= Stored
  BY <1>1, <1>4 DEF Stored
<1>8. WindowTypes /\ WindowTypes'
  <2>1. WindowTypes
    BY TypeParts DEF IInv
  <2> QED BY <1>1, <2>1 DEF WindowTypes
<1>9. CountFollows'
  BY <1>1, <1>3 DEF IInv, CountFollows, InWindow
<1>10. WindowIsFilled'
  <2> SUFFICES ASSUME NEW i \in 0 .. WindowSize - 1, i < write_idx
               PROVE  Filled(i)'
    BY <1>7 DEF WindowIsFilled
  <2>1. CASE i = k
    <3>1. window'[i] = write_idx
      BY <1>1, <1>5, <1>8, <2>1 DEF WindowTypes
    <3> QED BY <1>4, <1>6, <1>7, <2>1, <3>1 DEF Filled
  <2>2. CASE i # k
    <3>1. window'[i] = window[i] /\ window[i] \in Nat
      BY <1>1, <1>8, <2>2 DEF WindowTypes
    <3>2. i # write_idx - 1
      BY <1>4, <1>6, <2>2, FirstTurn
    <3>3. /\ window[i] >= 1 /\ window[i] <= write_idx - 1
          /\ window[i] + WindowSize > write_idx - 1
          /\ (window[i] - 1) % WindowSize = i
      BY <1>4, <1>7, <3>2 DEF IInv, WindowIsFilled, Filled
    <3>4. window[i] + WindowSize # write_idx
      <4>1. SUFFICES ASSUME write_idx - 1 = (window[i] - 1) + WindowSize
                     PROVE  FALSE
        BY <1>4, <3>1
      <4>2. window[i] - 1 \in Nat
        BY <3>1, <3>3
      <4>3. ((window[i] - 1) + WindowSize) % WindowSize = i
        BY <1>4, <3>3, <4>2, SameSlot
      <4> QED BY <1>6, <2>2, <4>1, <4>3
    <3> QED BY <1>4, <1>7, <3>1, <3>3, <3>4 DEF Filled
  <2> QED BY <2>1, <2>2
<1>11. ReaderTypes' /\ Loaded' /\ AnswerIsClose' /\ CopiesAreStored'
  BY <1>3, <1>4, <1>7, ReaderStays
<1> QED
  BY <1>3, <1>8, <1>9, <1>10, <1>11, TypeParts DEF IInv

LEMMA CountSlotKeepsInv ==
  ASSUME IInv, CountSlot PROVE IInv'
<1>1. /\ RecordOnly /\ at = "count"
      /\ at' = IF count >= WindowSize THEN "clamp" ELSE Recorded
      /\ count' = count + 1 /\ write_idx' = write_idx /\ window' = window
  BY DEF CountSlot, Goto
<1>2. Recording /\ (Recording' \/ at' = Recorded)
  BY <1>1 DEF Recording
<1>3. /\ ControlTypes' /\ ValueTypes' /\ RegTypes' /\ Fresh' /\ Grows'
      /\ ReadIsClose' /\ RawIsClose' /\ RegisterIsClose'
      /\ UNCHANGED <<round, measured, client, n, local, answer, stored_before>>
  BY <1>1, <1>2, RecordStays
<1>4. /\ measured \in Nat /\ write_idx \in Nat /\ write_idx >= 1
      /\ WindowSize \in Nat /\ count \in Nat
      /\ write_idx <= round
      /\ count = InWindow(write_idx - 1)
  BY <1>1, Numbers DEF IInv, CountFollows
<1>5. at' \in {"clamp", "temp_raw", "sleep"}
  BY <1>1 DEF Recorded
<1>6. Stored' = Stored /\ Stored = write_idx /\ Stored \in Nat
  BY <1>1, <1>4, <1>5 DEF Stored
<1>7. CountFollows'
  <2>1. CASE count >= WindowSize
    <3>1. at' = "clamp" /\ count = WindowSize /\ write_idx > WindowSize
      BY <1>1, <1>4, <2>1 DEF InWindow
    <3> QED BY <1>1, <1>3, <1>4, <3>1 DEF CountFollows
  <2>2. CASE count < WindowSize
    <3>1. at' \in {"temp_raw", "sleep"}
      BY <1>1, <1>4, <2>2 DEF Recorded
    <3>2. count + 1 = InWindow(write_idx)
      BY <1>4, <2>2 DEF InWindow
    <3> QED BY <1>1, <1>3, <1>4, <3>1, <3>2 DEF CountFollows, InWindow
  <2> QED BY <1>4, <2>1, <2>2
<1>8. WindowTypes'
  <2>1. WindowTypes
    BY TypeParts DEF IInv
  <2>2. count <= WindowSize
    BY <1>1, <2>1 DEF WindowTypes
  <2>3. at' # "clamp" => count < WindowSize
    BY <1>1, <1>4
  <2> QED BY <1>1, <1>4, <2>1, <2>2, <2>3 DEF WindowTypes
<1>9. WindowIsFilled'
  BY <1>1, <1>6 DEF IInv, WindowIsFilled, Filled
<1>10. ReaderTypes' /\ Loaded' /\ AnswerIsClose' /\ CopiesAreStored'
  BY <1>3, <1>4, <1>6, ReaderStays
<1> QED
  BY <1>3, <1>7, <1>8, <1>9, <1>10, TypeParts DEF IInv

LEMMA ClampCountKeepsInv ==
  ASSUME IInv, ClampCount PROVE IInv'
<1>1. /\ RecordOnly /\ at = "clamp" /\ at' = Recorded
      /\ count' = WindowSize /\ write_idx' = write_idx /\ window' = window
  BY DEF ClampCount, Goto
<1>2. Recording
  BY <1>1 DEF Recording
<1>3. /\ ControlTypes' /\ ValueTypes' /\ RegTypes' /\ Fresh' /\ Grows'
      /\ ReadIsClose' /\ RawIsClose' /\ RegisterIsClose'
      /\ UNCHANGED <<round, measured, client, n, local, answer, stored_before>>
  BY <1>1, <1>2, RecordStays
<1>4. /\ measured \in Nat /\ write_idx \in Nat /\ WindowSize \in Nat
      /\ write_idx > WindowSize /\ write_idx <= round
  BY <1>1, Numbers DEF IInv, CountFollows
<1>5. at' \in {"temp_raw", "sleep"}
  BY <1>1 DEF Recorded
<1>6. Stored' = Stored /\ Stored \in Nat
  BY <1>1, <1>4, <1>5 DEF Stored
<1>7. CountFollows'
  BY <1>1, <1>3, <1>4, <1>5 DEF CountFollows, InWindow
<1>8. WindowTypes'
  <2>1. WindowTypes
    BY TypeParts DEF IInv
  <2> QED BY <1>1, <1>4, <2>1 DEF WindowTypes
<1>9. WindowIsFilled'
  BY <1>1, <1>6 DEF IInv, WindowIsFilled, Filled
<1>10. ReaderTypes' /\ Loaded' /\ AnswerIsClose' /\ CopiesAreStored'
  BY <1>3, <1>4, <1>6, ReaderStays
<1> QED
  BY <1>3, <1>7, <1>8, <1>9, <1>10, TypeParts DEF IInv

-----------------------------------------------------------------------------
(* The server is started. *)

(* Nothing but the server's own state changes.                             *)
LEMMA ServerOnly ==
  ASSUME IInv, UNCHANGED <<sht30, collector, reader>>
  PROVE  /\ ValueTypes' /\ RegTypes' /\ WindowTypes' /\ ReaderTypes'
         /\ Loaded' /\ Fresh'
         /\ (server' = "up" => uncleared' = {}) => Grows'
         /\ ReadIsClose' /\ RawIsClose' /\ RegisterIsClose' /\ AnswerIsClose'
         /\ CountFollows' /\ WindowIsFilled' /\ CopiesAreStored'
         /\ UNCHANGED <<valid, may_measure, read_ok, storing, at, client,
                        unwritten>>
<1>1. /\ UNCHANGED <<temp, humidity, valid, storing, measured, may_measure, at,
                     round, t, h, read_ok, temp_raw, hum_raw, regs, unwritten,
                     write_idx, window, count>>
      /\ UNCHANGED <<client, n, local, answer, stored_before>>
  BY DEF sht30, collector, reader, pair, raw, registers, latency
<1>2. ValueTypes' /\ RegTypes'
  BY <1>1, TypeParts DEF IInv, ValueTypes, RegTypes
<1>3. Fresh' /\ Age' = Age
  BY <1>1 DEF IInv, Fresh, Age
<1>4. ReadIsClose' /\ RawIsClose' /\ RegisterIsClose'
  BY <1>1, <1>3 DEF IInv, ReadIsClose, RawIsClose, RegisterIsClose,
                    Recording, Publishing
<1>5. (server' = "up" => uncleared' = {}) => Grows'
  BY <1>1 DEF IInv, Grows, Published
<1>6. at' \in Places /\ at' = at /\ round' = round
  BY <1>1, TypeParts DEF IInv, ControlTypes
<1>7. WindowTypes' /\ CountFollows' /\ WindowIsFilled' /\ Stored' = Stored
  BY <1>1, <1>6, WindowStays
<1>8. ReaderTypes' /\ Loaded' /\ AnswerIsClose' /\ CopiesAreStored'
  <2>1. /\ measured' \in Nat /\ measured' >= measured
        /\ Stored' \in Nat /\ Stored' >= Stored
    BY <1>1, <1>7, Numbers, StoredFacts DEF IInv
  <2> QED BY <1>1, <2>1, ReaderStays
<1> QED BY <1>1, <1>2, <1>3, <1>4, <1>5, <1>7, <1>8

LEMMA StartServerKeepsInv ==
  ASSUME IInv, StartServer PROVE IInv'
<1>1. /\ UNCHANGED <<sht30, collector, reader>>
      /\ server' = "clearing" /\ uncleared' = RegNames
  BY DEF StartServer
<1>2. ControlTypes'
  <2>1. ControlTypes
    BY TypeParts DEF IInv
  <2>2. /\ server' \in {"down", "clearing", "up"} /\ uncleared' \subseteq RegNames
        /\ UNCHANGED <<valid, may_measure, read_ok, storing, at, client,
                       unwritten>>
    BY <1>1, ServerOnly
  <2> QED BY <2>1, <2>2, Zenon DEF ControlTypes
<1> QED BY <1>1, <1>2, ServerOnly, TypeParts DEF IInv

LEMMA ServerIsUpKeepsInv ==
  ASSUME IInv, ServerIsUp PROVE IInv'
<1>1. /\ UNCHANGED <<sht30, collector, reader>>
      /\ server' = "up" /\ uncleared' = {} /\ uncleared' = uncleared
  BY DEF ServerIsUp
<1>2. ControlTypes'
  <2>1. ControlTypes
    BY TypeParts DEF IInv
  <2>2. /\ server' \in {"down", "clearing", "up"} /\ uncleared' \subseteq RegNames
        /\ UNCHANGED <<valid, may_measure, read_ok, storing, at, client,
                       unwritten>>
    BY <1>1, ServerOnly
  <2> QED BY <2>1, <2>2, Zenon DEF ControlTypes
<1> QED BY <1>1, <1>2, ServerOnly, TypeParts DEF IInv

(* A register that is cleared is not yet visible to anyone.                *)
LEMMA ClearRegisterKeepsInv ==
  ASSUME IInv, ClearRegister PROVE IInv'
<1>1. /\ UNCHANGED <<temp, humidity, valid, storing, measured, may_measure, at,
                     round, t, h, read_ok, temp_raw, hum_raw, unwritten,
                     write_idx, window, count, server>>
      /\ UNCHANGED <<client, n, local, answer, stored_before>>
  BY DEF ClearRegister, sht30, pair, raw, latency, reader
<1>2. PICK r \in uncleared :
        /\ uncleared' = uncleared \ {r}
        /\ regs' = [regs EXCEPT ![r] = 0]
  BY DEF ClearRegister
<1>3. ControlTypes /\ ValueTypes /\ RegTypes /\ r \in RegNames
  BY <1>2, TypeParts DEF IInv, ControlTypes
<1>4. \A q \in RegNames : regs'[q] = IF q = r THEN 0 ELSE regs[q]
  BY <1>2, <1>3 DEF RegTypes
<1>5. ControlTypes' /\ ValueTypes' /\ RegTypes'
  <2>1. uncleared' \subseteq RegNames
    BY <1>2, <1>3 DEF ControlTypes
  <2>2. ControlTypes'
    BY <1>1, <1>3, <2>1, Zenon DEF ControlTypes
  <2>3. ValueTypes'
    BY <1>1, <1>3 DEF ValueTypes
  <2>4. 0 \in 0 .. Max({MaxRounds, MaxMeasures})
    BY TelemetryAssumption, MaxOfTwo
  <2>5. RegTypes'
    BY <1>2, <1>3, <2>4 DEF RegTypes
  <2> QED BY <2>2, <2>3, <2>5
<1>6. Fresh' /\ Age' = Age
  BY <1>1 DEF IInv, Fresh, Age
<1>7. ReadIsClose' /\ RawIsClose'
  BY <1>1, <1>6 DEF IInv, ReadIsClose, RawIsClose, Recording, Publishing
<1>8. RegisterIsClose'
  <2>1. regs'["humidity"] = 0 \/ regs'["humidity"] = regs["humidity"]
    BY <1>4, RegistersFacts
  <2> QED BY <1>1, <1>6, <2>1 DEF IInv, RegisterIsClose
<1>9. Grows'
  <2>1. /\ \A q \in RegNames : Published(q)' = Published(q)
        /\ \A q \in RegNames : Published(q) \in Nat
    BY <1>1, Numbers DEF IInv, Published
  <2>2. \A q \in RegNames : regs'[q] <= Published(q)'
    BY <1>4, <2>1 DEF IInv, Grows
  <2>3. server' = "up" => uncleared' = {}
    BY <1>1, <1>2 DEF IInv, Grows
  <2> QED BY <1>1, <2>2, <2>3 DEF IInv, Grows
<1>10. at' \in Places /\ at' = at /\ round' = round
  BY <1>1, <1>3 DEF ControlTypes
<1>11. WindowTypes' /\ CountFollows' /\ WindowIsFilled' /\ Stored' = Stored
  BY <1>1, <1>10, WindowStays
<1>12. ReaderTypes' /\ Loaded' /\ AnswerIsClose' /\ CopiesAreStored'
  <2>1. /\ measured' \in Nat /\ measured' >= measured
        /\ Stored' \in Nat /\ Stored' >= Stored
    BY <1>1, <1>11, Numbers, StoredFacts DEF IInv
  <2> QED BY <1>1, <2>1, ReaderStays
<1> QED
  BY <1>5, <1>6, <1>7, <1>8, <1>9, <1>11, <1>12, TypeParts DEF IInv

-----------------------------------------------------------------------------
(* The readers. *)

(* They change nothing that they read.                                     *)
LEMMA ReadersOnly ==
  ASSUME IInv, UNCHANGED <<sht30, collector, starting>>,
         client' \in Clients \cup {"none"}
  PROVE  /\ ControlTypes' /\ ValueTypes' /\ RegTypes' /\ WindowTypes'
         /\ Fresh' /\ Grows'
         /\ ReadIsClose' /\ RawIsClose' /\ RegisterIsClose'
         /\ CountFollows' /\ WindowIsFilled'
         /\ Stored' = Stored /\ measured' = measured
<1>1. UNCHANGED <<temp, humidity, valid, storing, measured, may_measure, at,
                  round, t, h, read_ok, temp_raw, hum_raw, regs, unwritten,
                  write_idx, window, count, server, uncleared>>
  BY DEF sht30, collector, starting, pair, raw, registers, latency
<1>2. ControlTypes'
  <2>1. ControlTypes
    BY TypeParts DEF IInv
  <2> QED BY <1>1, <2>1, Zenon DEF ControlTypes
<1>3. /\ ValueTypes' /\ RegTypes' /\ Fresh' /\ Grows'
      /\ ReadIsClose' /\ RawIsClose' /\ RegisterIsClose'
  BY <1>1, ValuesStay
<1>4. at' \in Places /\ at' = at /\ round' = round
  BY <1>1, <1>2 DEF ControlTypes
<1>5. WindowTypes' /\ CountFollows' /\ WindowIsFilled' /\ Stored' = Stored
  BY <1>1, <1>4, WindowStays
<1> QED BY <1>1, <1>2, <1>3, <1>5

(* The count never promises more than was stored, nor two records less.    *)
LEMMA LoadCountKeepsInv ==
  ASSUME IInv, LoadCount PROVE IInv'
<1>1. /\ UNCHANGED <<sht30, collector, starting>>
      /\ client = "none" /\ client' = "web"
      /\ n' = Min({count, WindowSize}) /\ stored_before' = Stored
      /\ local' = local /\ answer' = answer
  BY DEF LoadCount
<1>2. client' \in Clients \cup {"none"}
  BY <1>1 DEF Clients
<1>3. answer = << >> /\ local = << >>
  BY <1>1 DEF IInv, Loaded
<1>4. /\ count \in Nat /\ WindowSize \in Nat /\ write_idx \in Nat
      /\ MaxRounds \in Nat /\ write_idx <= MaxRounds
      /\ Stored \in Nat /\ Stored <= write_idx
  BY Numbers, StoredFacts, TypeParts DEF IInv, WindowTypes
<1>5. n' = InWindow(count)
  BY <1>1, <1>4, MinOfTwo DEF InWindow
<1>6. /\ n' <= Stored /\ n' + 1 >= InWindow(Stored)
      /\ Stored >= WindowSize + 1 => n' = WindowSize
      /\ n' \in 0 .. WindowSize
  <2>1. CASE at \in {"slot", "count"}
    <3>1. count = InWindow(write_idx - 1) /\ write_idx >= 1
      BY <2>1 DEF IInv, CountFollows
    <3>2. Stored \in {write_idx - 1, write_idx}
      BY DEF Stored
    <3> QED BY <1>4, <1>5, <3>1, <3>2 DEF InWindow
  <2>2. CASE at \notin {"slot", "count"}
    <3>1. \/ count = InWindow(write_idx)
          \/ write_idx > WindowSize /\ count = WindowSize + 1
      BY <2>2 DEF IInv, CountFollows
    <3>2. Stored = write_idx
      BY <2>2 DEF Stored
    <3> QED BY <1>4, <1>5, <3>1, <3>2 DEF InWindow
  <2> QED BY <2>1, <2>2
<1>7. ReaderTypes'
  BY <1>1, <1>3, <1>4, <1>6, RegistersFacts DEF ReaderTypes
<1>8. Loaded' /\ AnswerIsClose'
  BY <1>1, <1>3 DEF IInv, Loaded, AnswerIsClose
<1>9. CopiesAreStored'
  BY <1>1, <1>2, <1>3, <1>4, <1>6, ReadersOnly DEF CopiesAreStored, InWindow
<1> QED BY <1>1, <1>2, <1>7, <1>8, <1>9, ReadersOnly, TypeParts DEF IInv

(* A slot that the count covers is filled, if not with the same record     *)
(* any more.                                                               *)
LEMMA CopySlotKeepsInv ==
  ASSUME IInv, CopySlot PROVE IInv'
<1>1. /\ UNCHANGED <<sht30, collector, starting>>
      /\ UNCHANGED <<client, n, answer, stored_before>>
      /\ client = "web" /\ Len(local) < n
      /\ local' = Append(local, window[Len(local)])
  BY DEF CopySlot
<1>2. client' \in Clients \cup {"none"}
  BY <1>1, TypeParts DEF IInv, ControlTypes
<1>3. /\ n \in Nat /\ WindowSize \in Nat /\ stored_before \in Nat
      /\ Stored \in Nat /\ n <= WindowSize
  BY Numbers, StoredFacts, TypeParts DEF IInv, ReaderTypes
<1>4. local \in Seq(Nat) /\ Len(local) \in Nat
  BY DEF IInv, Loaded
<1>5. n <= stored_before /\ stored_before <= Stored
  BY <1>1 DEF IInv, CopiesAreStored
<1>6. Len(local) \in 0 .. WindowSize - 1 /\ Len(local) < Stored
  BY <1>1, <1>3, <1>4, <1>5
<1>7. /\ window[Len(local)] \in Nat /\ window[Len(local)] > 0
      /\ window[Len(local)] + WindowSize > stored_before
  <2>1. window[Len(local)] \in Nat
    BY <1>6, TypeParts DEF IInv, WindowTypes
  <2>2. Filled(Len(local))
    BY <1>6 DEF IInv, WindowIsFilled
  <2> QED BY <1>3, <1>5, <2>1, <2>2 DEF Filled
<1>8. /\ local' \in Seq(Nat) /\ Len(local') = Len(local) + 1
      /\ \A i \in DOMAIN local' :
           \/ i \in DOMAIN local /\ local'[i] = local[i]
           \/ local'[i] = window[Len(local)]
  BY <1>1, <1>4, <1>7
<1>9. ReaderTypes'
  BY <1>1, <1>3, <1>4, <1>8, TypeParts DEF IInv, ReaderTypes
<1>10. Loaded' /\ AnswerIsClose'
  <2>1. measured' = measured
    BY <1>1 DEF sht30
  <2> QED BY <1>1, <1>8, <2>1 DEF IInv, Loaded, AnswerIsClose
<1>11. CopiesAreStored'
  <2>1. Stored' = Stored
    BY <1>1, <1>2, ReadersOnly
  <2>2. \A i \in DOMAIN local' :
          local'[i] > 0 /\ local'[i] + WindowSize > stored_before
    BY <1>1, <1>7, <1>8 DEF IInv, CopiesAreStored
  <2> QED BY <1>1, <2>1, <2>2 DEF IInv, CopiesAreStored, InWindow
<1> QED BY <1>1, <1>2, <1>9, <1>10, <1>11, ReadersOnly, TypeParts DEF IInv

(* One more value is loaded: the first is not later than the driver's      *)
(* last measurement, the second not more than two before it, or a zero.    *)
LEMMA LoadKeepsInv ==
  ASSUME IInv, UNCHANGED <<sht30, collector, starting>>,
         UNCHANGED <<client, n, local, stored_before>>,
         client \in Clients, Len(answer) < Len(Registers),
         NEW v \in Nat, answer' = Append(answer, v),
         Len(answer) = 0 => v <= measured,
         Len(answer) = 1 => \/ measured <= v + 2
                            \/ client = "modbus" /\ v = 0
  PROVE  IInv'
<1>1. client' \in Clients \cup {"none"} /\ client # "none"
  BY DEF Clients
<1>2. /\ answer \in Seq(Nat) /\ Len(answer) \in Nat
      /\ Len(Registers) \in Nat /\ measured \in Nat /\ measured' = measured
  BY RegistersFacts, Numbers DEF IInv, Loaded, sht30
<1>3. /\ answer' \in Seq(Nat) /\ Len(answer') = Len(answer) + 1
      /\ \A i \in 1 .. Len(answer) : answer'[i] = answer[i]
      /\ answer'[Len(answer) + 1] = v
  BY <1>2
<1>4. ReaderTypes'
  BY <1>2, <1>3, TypeParts DEF IInv, ReaderTypes
<1>5. Loaded'
  BY <1>1, <1>3 DEF IInv, Loaded
<1>6. AnswerIsClose'
  <2>1. CASE Len(answer) = 0
    <3>1. answer'[1] = v /\ Len(answer') = 1
      BY <1>2, <1>3, <2>1
    <3> QED BY <1>2, <2>1, <3>1 DEF AnswerIsClose
  <2>2. CASE Len(answer) = 1
    <3>1. answer'[1] = answer[1] /\ answer'[2] = v /\ answer[1] \in Nat
      BY <1>2, <1>3, <2>2
    <3>2. answer[1] <= measured
      BY <2>2 DEF IInv, AnswerIsClose
    <3>3. measured <= v + 2 \/ (client' = "modbus" /\ v = 0)
      BY <2>2
    <3>4. answer'[1] <= answer'[2] + 2 \/ (client' = "modbus" /\ answer'[2] = 0)
      BY <1>2, <3>1, <3>2, <3>3
    <3>5. answer'[1] <= measured'
      BY <1>2, <3>1, <3>2
    <3> QED BY <3>4, <3>5 DEF AnswerIsClose
  <2>3. CASE Len(answer) >= 2
    <3>1. answer'[1] = answer[1] /\ answer'[2] = answer[2]
      BY <1>2, <1>3, <2>3
    <3>2. Len(answer) >= 1
      BY <1>2, <2>3
    <3>3. /\ answer[1] <= measured
          /\ answer[1] <= answer[2] + 2 \/ (client = "modbus" /\ answer[2] = 0)
      BY <2>3, <3>2, Zenon DEF IInv, AnswerIsClose
    <3>4. /\ answer'[1] <= measured'
          /\ answer'[1] <= answer'[2] + 2 \/ (client' = "modbus" /\ answer'[2] = 0)
      BY <1>2, <3>1, <3>3, Zenon
    <3> QED BY <3>4 DEF AnswerIsClose
  <2>4. \A x \in Nat : x = 0 \/ x = 1 \/ x >= 2
    OBVIOUS
  <2> QED BY <1>2, <2>1, <2>2, <2>3, <2>4, Zenon
<1>7. CopiesAreStored'
  <2>1. Stored' = Stored
    BY <1>1, ReadersOnly
  <2> QED BY <2>1 DEF IInv, CopiesAreStored, InWindow
<1> QED BY <1>1, <1>4, <1>5, <1>6, <1>7, ReadersOnly, TypeParts DEF IInv

(* What the driver has measured bounds all that was ever read from it.     *)
LEMMA BehindTheDriver ==
  ASSUME IInv
  PROVE  /\ temp_raw <= measured /\ regs["temperature"] <= measured
         /\ measured <= hum_raw + 2
         /\ regs["humidity"] = 0 \/ measured <= regs["humidity"] + 2
<1>1. /\ measured \in Nat /\ hum_raw \in Nat /\ temp_raw \in Nat
      /\ temp \in Nat /\ t \in Nat
      /\ regs["temperature"] \in Nat /\ regs["humidity"] \in Nat
  BY Numbers, RegistersFacts DEF IInv
<1>2. temp <= measured
  BY <1>1 DEF IInv, Fresh
<1>3. t <= temp /\ temp_raw <= t /\ regs["temperature"] <= t
  BY RegistersFacts, PublishedFacts DEF IInv, Grows
<1>4. measured <= hum_raw + 2
  BY <1>1, AgeFacts DEF IInv, RawIsClose
<1>5. regs["humidity"] = 0 \/ measured <= regs["humidity"] + 2
  BY <1>1, AgeFacts DEF IInv, RegisterIsClose
<1> QED BY <1>1, <1>2, <1>3, <1>4, <1>5

LEMMA LoadRawKeepsInv ==
  ASSUME IInv, LoadRaw PROVE IInv'
<1> DEFINE v == raw[Len(answer) + 1]
<1>1. /\ UNCHANGED <<sht30, collector, starting>>
      /\ UNCHANGED <<client, n, local, stored_before>>
      /\ client = "web" /\ Len(answer) < 2 /\ answer' = Append(answer, v)
  BY DEF LoadRaw
<1>2. client \in Clients
  BY <1>1 DEF Clients
<1>3. Len(answer) \in 0 .. 1 /\ Len(answer) < Len(Registers)
  <2>1. Len(answer) \in Nat
    BY DEF IInv, Loaded
  <2>2. Len(Registers) \in Nat /\ Len(Registers) >= 2
    BY RegistersFacts
  <2>3. Len(answer) < 2
    BY <1>1
  <2>4. \A x, y \in Nat : x < 2 /\ y >= 2 => x \in 0 .. 1 /\ x < y
    OBVIOUS
  <2> QED BY <2>1, <2>2, <2>3, <2>4, Zenon
<1>4. /\ Len(answer) = 0 => v = temp_raw
      /\ Len(answer) = 1 => v = hum_raw
  <2>1. raw[0 + 1] = temp_raw /\ raw[1 + 1] = hum_raw
    BY DEF raw
  <2> QED BY <2>1, Zenon
<1>5. v \in Nat
  <2>1. v \in {temp_raw, hum_raw}
    BY <1>3, <1>4
  <2>2. temp_raw \in Nat /\ hum_raw \in Nat
    BY Numbers DEF IInv
  <2> HIDE DEF v
  <2> QED BY <2>1, <2>2
<1>6. /\ Len(answer) = 0 => v <= measured
      /\ Len(answer) = 1 => measured <= v + 2
  BY <1>4, BehindTheDriver
<1> HIDE DEF v
<1> QED BY <1>1, <1>2, <1>3, <1>5, <1>6, LoadKeepsInv

LEMMA LoadRegisterKeepsInv ==
  ASSUME IInv, LoadRegister PROVE IInv'
<1> DEFINE v == regs[Registers[Len(answer) + 1]]
<1>1. /\ UNCHANGED <<sht30, collector, starting>>
      /\ UNCHANGED <<client, n, local, stored_before>>
      /\ client = "modbus" /\ Len(answer) < Len(Registers)
      /\ answer' = Append(answer, v)
  BY DEF LoadRegister
<1>2. client \in Clients
  BY <1>1 DEF Clients
<1>3. Len(answer) + 1 \in 1 .. Len(Registers)
  BY <1>1, RegistersFacts DEF IInv, Loaded
<1>4. v \in Nat
  BY <1>3, RegistersFacts, Numbers DEF IInv
<1>5. /\ Len(answer) = 0 => v <= measured
      /\ Len(answer) = 1 => measured <= v + 2 \/ v = 0
  <2>1. 0 + 1 = 1 /\ 1 + 1 = 2
    OBVIOUS
  <2>2. /\ Len(answer) = 0 => v = regs["temperature"]
        /\ Len(answer) = 1 => v = regs["humidity"]
    BY <2>1, RegistersFacts, Zenon
  <2> HIDE DEF v
  <2> QED BY <2>2, BehindTheDriver
<1> HIDE DEF v
<1> QED BY <1>1, <1>2, <1>4, <1>5, LoadKeepsInv

LEMMA AcceptReadKeepsInv ==
  ASSUME IInv, AcceptRead PROVE IInv'
<1>1. /\ UNCHANGED <<sht30, collector, starting>>
      /\ UNCHANGED <<n, local, answer, stored_before>>
      /\ client = "none" /\ client' = "modbus"
  BY DEF AcceptRead
<1>2. client' \in Clients \cup {"none"}
  BY <1>1 DEF Clients
<1>3. answer = << >> /\ local = << >>
  BY <1>1 DEF IInv, Loaded
<1>4. ReaderTypes' /\ Loaded' /\ AnswerIsClose' /\ CopiesAreStored'
  <2>1. ReaderTypes'
    BY <1>1, TypeParts DEF IInv, ReaderTypes
  <2>2. Loaded' /\ AnswerIsClose' /\ CopiesAreStored'
    BY <1>1, <1>3 DEF IInv, Loaded, AnswerIsClose, CopiesAreStored
  <2> QED BY <2>1, <2>2
<1> QED BY <1>1, <1>2, <1>4, ReadersOnly, TypeParts DEF IInv

LEMMA ReplyKeepsInv ==
  ASSUME IInv, Reply PROVE IInv'
<1>1. /\ UNCHANGED <<sht30, collector, starting>>
      /\ client' = "none" /\ n' = 0 /\ local' = << >> /\ answer' = << >>
      /\ stored_before' = 0
  BY DEF Reply
<1>2. client' \in Clients \cup {"none"}
  BY <1>1
<1>3. ReaderTypes'
  BY <1>1, RegistersFacts, TelemetryAssumption DEF ReaderTypes
<1>4. Loaded' /\ AnswerIsClose' /\ CopiesAreStored'
  BY <1>1 DEF Loaded, AnswerIsClose, CopiesAreStored
<1> QED BY <1>1, <1>2, <1>3, <1>4, ReadersOnly, TypeParts DEF IInv

LEMMA StutterKeepsInv ==
  ASSUME IInv, UNCHANGED vars PROVE IInv'
<1>1. /\ UNCHANGED <<sht30, collector, starting>>
      /\ UNCHANGED <<client, n, local, answer, stored_before>>
  BY DEF vars, reader
<1>2. client' \in Clients \cup {"none"}
  BY <1>1, TypeParts DEF IInv, ControlTypes
<1>3. ReaderTypes' /\ Loaded' /\ AnswerIsClose' /\ CopiesAreStored'
  <2>1. /\ measured' \in Nat /\ measured' >= measured
        /\ Stored' \in Nat /\ Stored' >= Stored
    BY <1>1, <1>2, ReadersOnly, Numbers, StoredFacts DEF IInv
  <2> QED BY <1>1, <2>1, ReaderStays
<1> QED BY <1>1, <1>2, <1>3, ReadersOnly, TypeParts DEF IInv

-----------------------------------------------------------------------------
(* The theorems. *)

LEMMA NextKeepsInv == IInv /\ [Next]_vars => IInv'
<1> SUFFICES ASSUME IInv, [Next]_vars PROVE IInv'
  OBVIOUS
<1>1. CASE Driver
  BY <1>1, MeasureKeepsInv, StoreFieldKeepsInv, Zenon DEF Driver
<1>2. CASE Collector
  BY <1>2, ReadTempKeepsInv, ReadHumidityKeepsInv, ClaimSlotKeepsInv,
     FillSlotKeepsInv, CountSlotKeepsInv, ClampCountKeepsInv,
     StoreTempRawKeepsInv, StoreHumRawKeepsInv, StoreRegisterKeepsInv,
     NextRoundKeepsInv, Zenon DEF Collector
<1>3. CASE Main
  BY <1>3, StartServerKeepsInv, ClearRegisterKeepsInv, ServerIsUpKeepsInv,
     Zenon DEF Main
<1>4. CASE Readers
  BY <1>4, LoadCountKeepsInv, CopySlotKeepsInv, LoadRawKeepsInv,
     AcceptReadKeepsInv, LoadRegisterKeepsInv, ReplyKeepsInv, Zenon DEF Readers
<1>5. CASE UNCHANGED vars
  BY <1>5, StutterKeepsInv
<1> QED BY <1>1, <1>2, <1>3, <1>4, <1>5, Zenon DEF Next

(* Driver, collector, server and readers keep to their types, and the      *)
(* count of latencies to the window.                                       *)
THEOREM TelemetryTypeOK == Spec => []TypeOK
<1>1. IInv => TypeOK
  BY DEF IInv
<1> QED BY <1>1, InitInv, NextKeepsInv, PTL DEF Spec

(* The pairs that the collector hands on are at most one measurement       *)
(* apart, and what a reader gets is no older than two; whatever the sizes  *)
(* and however often the driver, the collector and a reader interleave.    *)
THEOREM TelemetryPairStaysClose == Spec => []PairStaysClose
<1>1. IInv => PairStaysClose
  <2> SUFFICES ASSUME IInv PROVE PairStaysClose
    OBVIOUS
  <2>1. at \in {"temp_raw", "hum_raw", "registers"} => t <= h + 1 /\ h <= t + 1
    BY DEF IInv, ReadIsClose, Publishing
  <2>2. Len(answer) >= 2 => \/ answer[1] <= answer[2] + 2
                            \/ client = "modbus" /\ answer[2] = 0
    BY DEF IInv, AnswerIsClose
  <2> QED BY <2>1, <2>2 DEF PairStaysClose
<1> QED BY <1>1, InitInv, NextKeepsInv, PTL DEF Spec

(* The percentiles are of filled, recent slots, for every window size.     *)
THEOREM TelemetryPercentilesAreRecent == Spec => []PercentilesAreRecent
<1>1. IInv => PercentilesAreRecent
  <2> SUFFICES ASSUME IInv PROVE PercentilesAreRecent
    OBVIOUS
  <2>1. stored_before \in Nat /\ WindowSize \in Nat
    BY Numbers DEF IInv
  <2>2. Min({stored_before, WindowSize}) = InWindow(stored_before)
    BY <2>1, MinOfTwo DEF InWindow
  <2> QED BY <2>2 DEF IInv, CopiesAreStored, PercentilesAreRecent
<1> QED BY <1>1, InitInv, NextKeepsInv, PTL DEF Spec

(* What readers can see never goes back: neither the raw pair, nor any     *)
(* register once the server has let clients in.                            *)
THEOREM TelemetryRepliesMoveOn == Spec => RepliesMoveOn
<1> DEFINE MovesOn ==
      /\ temp_raw' >= temp_raw /\ hum_raw' >= hum_raw
      /\ server = "up" => \A r \in RegNames : regs'[r] >= regs[r]
<1>1. IInv /\ [Next]_vars => [MovesOn]_vars
  <2> SUFFICES ASSUME IInv, Next PROVE MovesOn
    OBVIOUS
  <2>1. /\ temp_raw \in Nat /\ hum_raw \in Nat
        /\ t \in Nat /\ h \in Nat /\ temp_raw <= t /\ hum_raw <= h
        /\ \A r \in RegNames : regs[r] \in Nat
    BY Numbers DEF IInv, Grows
  <2>2. CASE UNCHANGED <<raw, regs>>
    BY <2>1, <2>2 DEF raw
  <2>3. CASE StoreTempRaw
    <3>1. temp_raw' = t /\ hum_raw' = hum_raw /\ regs' = regs
      BY <2>3 DEF StoreTempRaw, registers
    <3> QED BY <2>1, <3>1
  <2>4. CASE StoreHumRaw
    <3>1. temp_raw' = temp_raw /\ hum_raw' = h /\ regs' = regs
      BY <2>4 DEF StoreHumRaw
    <3> QED BY <2>1, <3>1
  <2>5. CASE StoreRegister
    <3>1. temp_raw' = temp_raw /\ hum_raw' = hum_raw
      BY <2>5 DEF StoreRegister, raw
    <3>2. PICK r \in unwritten : regs' = [regs EXCEPT ![r] = Published(r)]
      BY <2>5 DEF StoreRegister
    <3>3. regs \in [RegNames -> 0 .. Max({MaxRounds, MaxMeasures})]
      BY TypeParts DEF IInv, RegTypes
    <3>4. \A q \in RegNames : regs'[q] \in {regs[q], Published(q)}
      BY <3>2, <3>3
    <3>5. \A q \in RegNames : regs[q] <= Published(q)
      BY DEF IInv, Grows
    <3>6. \A q \in RegNames : regs'[q] >= regs[q]
      BY <2>1, <3>4, <3>5
    <3> QED BY <2>1, <3>1, <3>6
  <2>6. CASE ClearRegister
    <3>1. temp_raw' = temp_raw /\ hum_raw' = hum_raw /\ uncleared # {}
      BY <2>6 DEF ClearRegister, raw
    <3>2. server # "up"
      BY <3>1 DEF IInv, Grows
    <3> QED BY <2>1, <3>1, <3>2
  <2>7. \/ StoreTempRaw \/ StoreHumRaw \/ StoreRegister \/ ClearRegister
        \/ UNCHANGED <<raw, regs>>
    <3>1. CASE Driver
      BY <3>1 DEF Driver, Measure, StoreField, collector, registers
    <3>2. CASE ReadTemp \/ ReadHumidity \/ NextRound
      BY <3>2 DEF ReadTemp, ReadHumidity, NextRound, registers
    <3>3. CASE ClaimSlot \/ FillSlot \/ CountSlot \/ ClampCount
      BY <3>3 DEF ClaimSlot, FillSlot, CountSlot, ClampCount, RecordOnly,
                  registers
    <3>4. CASE StartServer \/ ServerIsUp
      BY <3>4 DEF StartServer, ServerIsUp, collector, registers
    <3>5. CASE Readers
      BY <3>5 DEF Readers, LoadCount, CopySlot, LoadRaw, AcceptRead,
                  LoadRegister, Reply, collector, registers
    <3> QED BY <3>1, <3>2, <3>3, <3>4, <3>5, Zenon DEF Next, Collector, Main
  <2> QED BY <2>2, <2>3, <2>4, <2>5, <2>6, <2>7, Zenon
<1> QED BY <1>1, InitInv, NextKeepsInv, PTL DEF Spec, RepliesMoveOn

=============================================================================
