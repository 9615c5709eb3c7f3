----------------------------- MODULE I2cProofs -----------------------------
(***************************************************************************)
(* Proofs about an I2C transfer, for bytes of any length, FIFOs of any     *)
(* size, any device and whatever the sketch sends.                         *)
(*                                                                         *)
(* First the port expander alone: its interrupt line tells the master of   *)
(* every change of the port.  Then the transfer from end to end, for a     *)
(* sketch that paces itself: the bus is released after a stop, an address  *)
(* is answered exactly when it is the device's, the port shows the byte    *)
(* that write returned for, and the sketch reads the bytes that the device *)
(* has sampled.                                                            *)
(***************************************************************************)
EXTENDS I2c, TLAPS

DevType ==
  [state: {"IDLE", "DEVID", "RETZ", "ACKRD", "ACKWR", "READ", "WRDATA", "ACKWRD", "ACKNACK"},
   i: Int, devid: SUBSET Int, data: SUBSET Int, drive: SUBSET Int]

\* Inductive invariant: without an interrupt the port is as the master was told, and
\* once the device takes data the master has been told nothing.
IntrInv ==
  /\ dev \in DevType
  /\ intr = "Z" /\ told # None => Level = told
  /\ dev.state \in {"WRDATA", "ACKWRD"} => told = None

LEMMA ShiftType == ASSUME NEW x \in SUBSET Int, NEW b PROVE Shift(x, b) \in SUBSET Int
  BY DEF Shift

LEMMA IntrInit == Init => IntrInv
  BY BitsAssumption DEF Init, IntrInv, Level, DevType, AllOnes, MSB

\* The device sees a change of a line.
LEMMA IntrDevice == IntrInv /\ i2c_th => IntrInv'
<1> SUFFICES ASSUME IntrInv, i2c_th PROVE IntrInv'
  OBVIOUS
<1>0. dev \in DevType /\ MSB \in Int
  BY BitsAssumption DEF IntrInv, MSB
<1>00. ext' = ext
  BY DEF i2c_th, StartStop, DevId, Ignore, AckRead, AckWrite, WriteBit,
     AckData, ReadBit, AckNack, Falling, DataMoves, Rising, Change
<1>1. CASE StartStop
  BY <1>0, <1>00, <1>1 DEF StartStop, IntrInv, Level, DevType, hist
<1>2. CASE DevId
  <2>1. Shift(dev.devid, bus'.sda) \in SUBSET Int
    BY <1>0, <1>00, ShiftType
  <2>2. \/ \E x \in SUBSET Int : dev' = [dev EXCEPT !.devid = x, !.i = dev.i - 1]
        \/ \E st \in {"RETZ", "ACKRD", "ACKWR"} : dev' = [dev EXCEPT !.i = dev.i - 1, !.state = st]
    BY <1>2, <2>1, Zenon DEF DevId
  <2>3. dev.state = "DEVID" /\ UNCHANGED <<intr, told>>
    BY <1>2 DEF DevId, hist
  <2>4. dev' \in DevType /\ dev'.drive = dev.drive /\ dev'.state \notin {"WRDATA", "ACKWRD"}
    <3>1. dev.i - 1 \in Int
      BY <1>0 DEF DevType
    <3>2. ASSUME NEW x \in SUBSET Int, dev' = [dev EXCEPT !.devid = x, !.i = dev.i - 1]
          PROVE  dev' \in DevType /\ dev'.drive = dev.drive /\ dev'.state = "DEVID"
      BY <1>0, <2>3, <3>1, <3>2 DEF DevType
    <3>3. ASSUME NEW st \in {"RETZ", "ACKRD", "ACKWR"}, dev' = [dev EXCEPT !.i = dev.i - 1, !.state = st]
          PROVE  dev' \in DevType /\ dev'.drive = dev.drive /\ dev'.state = st
      BY <1>0, <3>1, <3>3 DEF DevType
    <3> QED
      BY <2>2, <3>2, <3>3
  <2> QED
    BY <1>00, <2>3, <2>4 DEF IntrInv, Level
<1>3. CASE Ignore
  BY <1>0, <1>00, <1>3 DEF Ignore, IntrInv, Level, DevType, hist
<1>4. CASE Sample /\ (intr' = intr \/ intr' = "Z")
  BY <1>0, <1>00, <1>4 DEF Sample, IntrInv, Level, DevType
<1>5. CASE AckRead \/ AckNack
  <2>1. CASE dev' = [dev EXCEPT !.state = "IDLE"] /\ UNCHANGED <<hist, intr>>
    BY <1>0, <1>00, <2>1 DEF IntrInv, Level, DevType, hist
  <2> QED
    BY <1>4, <1>5, <2>1 DEF AckRead, AckNack, ClearIntr
<1>6. CASE AckWrite
  BY <1>0, <1>00, <1>6 DEF AckWrite, IntrInv, Level, DevType
<1>7. CASE WriteBit
  <2>1. Shift(dev.data, bus'.sda) \in SUBSET Int
    BY <1>0, <1>00, ShiftType
  <2>2. \E x \in SUBSET Int, st \in {"WRDATA", "ACKWRD"}, n \in {0, dev.i - 1} :
          dev' = [dev EXCEPT !.data = x, !.state = st, !.i = n]
    BY <1>7, <2>1, Zenon DEF WriteBit
  <2>3. dev.state = "WRDATA" /\ UNCHANGED <<intr, told>>
    BY <1>7 DEF WriteBit, hist
  <2>4. dev' \in DevType /\ dev'.drive = dev.drive
    <3>1. dev.i - 1 \in Int /\ 0 \in Int
      BY <1>0 DEF DevType
    <3>2. PICK x \in SUBSET Int, st \in {"WRDATA", "ACKWRD"}, n \in {0, dev.i - 1} :
            dev' = [dev EXCEPT !.data = x, !.state = st, !.i = n]
      BY <2>2
    <3> QED
      BY <1>0, <3>1, <3>2 DEF DevType
  <2> QED
    BY <1>00, <2>3, <2>4 DEF IntrInv, Level
<1>8. CASE AckData
  BY <1>0, <1>00, <1>8 DEF AckData, IntrInv, Level, DevType, hist
<1>9. CASE ReadBit
  BY <1>0, <1>00, <1>9 DEF ReadBit, IntrInv, Level, DevType, hist
<1>10. CASE Falling \/ DataMoves
  BY <1>0, <1>00, <1>10 DEF Falling, DataMoves, IntrInv, Level, DevType, hist
<1> QED
  BY <1>1, <1>2, <1>3, <1>5, <1>6, <1>7, <1>8, <1>9, <1>10 DEF i2c_th

\* The outside changes the port.
LEMMA IntrPin == ASSUME IntrInv, NEW v \in Inputs, Pin(v) PROVE IntrInv'
<1>1. /\ dev' = dev /\ ext' = v /\ told' = IF Writing THEN None ELSE told
      /\ intr' = IF dev.drive \cap v # Level /\ ~Writing THEN "0" ELSE intr
  BY DEF Pin
<1>2. Level' = dev.drive \cap v
  BY <1>1 DEF Level
<1> QED
  BY <1>1, <1>2 DEF IntrInv, Writing

LEMMA IntrStep == IntrInv /\ [Next]_vars => IntrInv'
<1> SUFFICES ASSUME IntrInv, [Next]_vars PROVE IntrInv'
  OBVIOUS
<1>1. CASE UNCHANGED <<dev, ext, intr, told>>
  BY <1>1 DEF IntrInv, Level, DevType
<1>2. CASE Sketch \/ Resume
  BY <1>1, <1>2 DEF Sketch, Resume, requestFrom, beginTransmission, endTransmission, write,
     flush, peek, read, AddressAnswered, BitAnswered, WriteAnswered, port, hist
<1>3. CASE Fetch \/ Clock
  BY <1>1, <1>3 DEF Fetch, Clock, port, hist
<1> QED
  BY <1>1, <1>2, <1>3, IntrDevice, IntrPin DEF Next, vars, port, hist

\* Whatever was read and written, and in whatever step of a transfer the port changes:
\* as long as the interrupt line is not low and nothing was written, the port is what the
\* master read last (intr_th and i2c_th of pcf8574.cpp).
THEOREM ChangesAreTold == Spec => []IntrTellsChange
<1>1. IntrInv => IntrTellsChange
  BY DEF IntrInv, IntrTellsChange
<1> QED
  BY <1>1, IntrInit, IntrStep, PTL DEF Spec

(***************************************************************************)
(* What the engine does with its two lines: the waveform of an item, what  *)
(* is left of it and the enables at every place of it.                     *)
(***************************************************************************)

Lines  == [sda : BOOLEAN, scl : BOOLEAN]
States == {"IDLE", "DEVID", "READING", "WRITING"}
Items  == {"S", "P", "Z", "A", "N", "0", "1"}
Calls  == {"idle", "request", "collect", "begin", "write"}

TypeInv ==
  /\ task \in [pc : Calls, byte : Byte, size : Nat, stop : BOOLEAN, bit : Nat]
  /\ to \in Seq(Items) /\ from \in Seq(Items)
  /\ eng = [state |-> eng.state, item |-> eng.item, wave |-> eng.wave, rwbit |-> eng.rwbit]
  /\ eng.state \in States /\ eng.item \in Items \cup {None} /\ eng.rwbit \in BOOLEAN
  /\ m \in Lines /\ bus \in Lines /\ ssda \in BOOLEAN
  /\ dev \in DevType
  /\ addressed \in [addr : {None} \cup SUBSET (0..(Bits - 2)), ok : BOOLEAN]

\* How many steps of the item's waveform are left.
Left == Len(eng.wave)

\* The steps of the waveforms.
SdaDown == Sda(TRUE)
SdaUp   == Sda(FALSE)
SclDown == Scl(TRUE)
SclUp   == Scl(FALSE)

\* An item with one clock: SDA is set, the clock rises, the clock falls.
Lows == {"0", "A"}
SdaFor(p) == IF p \in Lows THEN SdaDown ELSE SdaUp
BitWave ==
  \/ eng.wave = <<SdaFor(eng.item), SclUp, SclDown>> /\ m.scl
  \/ eng.wave = <<SclUp, SclDown>> /\ m.scl /\ (m.sda <=> eng.item \in Lows)
  \/ eng.wave = <<SclDown>> /\ ~m.scl /\ (m.sda <=> eng.item \in Lows)

StartWave ==
  \/ eng.wave = <<SdaDown, SclDown, Nothing>> /\ ~m.sda /\ ~m.scl
  \/ eng.wave = <<SclDown, Nothing>> /\ m.sda /\ ~m.scl
  \/ eng.wave = <<Nothing>> /\ m.sda /\ m.scl

StopWave ==
  \/ eng.wave = <<SdaDown, SclUp, SdaUp, Nothing>> /\ (IF eng.state = "IDLE" THEN ~m.sda ELSE m.scl)
  \/ eng.wave = <<SclUp, SdaUp, Nothing>> /\ m.sda /\ (eng.state # "IDLE" => m.scl)
  \/ eng.wave = <<SdaUp, Nothing>> /\ m.sda /\ ~m.scl
  \/ eng.wave = <<Nothing>> /\ ~m.sda /\ ~m.scl

SampleWave ==
  \/ eng.wave = <<SclUp, SclDown>> /\ ~m.sda /\ m.scl /\ eng.state # "IDLE"
  \/ eng.wave = <<SclDown>> /\ ~m.sda /\ ~m.scl /\ eng.state # "DEVID"

\* What is left of an item, and the enables at that place.
EngInv ==
  \/ eng.item = None /\ eng.wave = <<>> /\ (IF eng.state = "IDLE" THEN ~m.sda ELSE m.scl)
  \/ eng.item = "S" /\ eng.state # "DEVID" /\ StartWave
  \/ eng.item = "P" /\ eng.state # "DEVID" /\ StopWave
  \/ eng.item = "Z" /\ SampleWave
  \/ eng.item \in {"0", "1"} /\ eng.state \in {"DEVID", "WRITING"} /\ BitWave
  \/ eng.item \in {"A", "N"} /\ eng.state = "READING" /\ BitWave
  \/ eng.item \in {"0", "1"} /\ eng.state = "READING" /\ eng.wave = <<Nothing>> /\ m.scl

LEMMA WrittenOne ==
  ASSUME m \in Lines, NEW b \in BOOLEAN
  PROVE  Written(Sda(b)) = [sda |-> b, scl |-> m.scl] /\ Written(Scl(b)) = [sda |-> m.sda, scl |-> b]
<1>1. Written(Sda(b)) = [sda |-> b, scl |-> m.scl]
  BY DEF Sda, Lines, Written
<1>2. Written(Scl(b)) = [sda |-> m.sda, scl |-> b]
  BY DEF Scl, Lines, Written
<1> QED
  BY <1>1, <1>2

LEMMA WrittenSda == ASSUME m \in Lines
  PROVE  Written(SdaDown) = [sda |-> TRUE, scl |-> m.scl] /\ Written(SdaUp) = [sda |-> FALSE, scl |-> m.scl]
<1>1. TRUE \in BOOLEAN /\ FALSE \in BOOLEAN
  OBVIOUS
<1> QED
  BY <1>1, WrittenOne, Zenon DEF SdaDown, SdaUp
LEMMA WrittenScl == ASSUME m \in Lines
  PROVE  Written(SclDown) = [sda |-> m.sda, scl |-> TRUE] /\ Written(SclUp) = [sda |-> m.sda, scl |-> FALSE]
<1>1. TRUE \in BOOLEAN /\ FALSE \in BOOLEAN
  OBVIOUS
<1> QED
  BY <1>1, WrittenOne, Zenon DEF SclDown, SclUp
LEMMA WrittenBoth == ASSUME m \in Lines PROVE Written([sda |-> FALSE, scl |-> FALSE]) = [sda |-> FALSE, scl |-> FALSE]
  BY DEF Lines, Written
LEMMA WrittenNothing == ASSUME  m \in Lines PROVE Written(Nothing) = m
  BY DEF Nothing, Lines, Written

LEMMA Tuple1 == ASSUME NEW a PROVE Len(<<a>>) = 1 /\ Head(<<a>>) = a /\ Tail(<<a>>) = <<>>
  OBVIOUS
LEMMA Tuple2 == ASSUME NEW a, NEW b PROVE Len(<<a, b>>) = 2 /\ Head(<<a, b>>) = a /\ Tail(<<a, b>>) = <<b>>
  OBVIOUS
LEMMA Tuple3 == ASSUME NEW a, NEW b, NEW c
  PROVE  Len(<<a, b, c>>) = 3 /\ Head(<<a, b, c>>) = a /\ Tail(<<a, b, c>>) = <<b, c>>
  OBVIOUS
LEMMA Tuple4 == ASSUME NEW a, NEW b, NEW c, NEW d
  PROVE  Len(<<a, b, c, d>>) = 4 /\ Head(<<a, b, c, d>>) = a /\ Tail(<<a, b, c, d>>) = <<b, c, d>>
  OBVIOUS

\* What a write to the enables does.
LEMMA Writes ==
  ASSUME m \in Lines
  PROVE  /\ m' = Written(SdaDown) => m' \in Lines /\ m'.sda /\ m'.scl = m.scl
         /\ m' = Written(SdaUp) => m' \in Lines /\ ~m'.sda /\ m'.scl = m.scl
         /\ m' = Written(SclDown) => m' \in Lines /\ m'.sda = m.sda /\ m'.scl
         /\ m' = Written(SclUp) => m' \in Lines /\ m'.sda = m.sda /\ ~m'.scl
         /\ m' = Written(Nothing) => m' \in Lines /\ m' = m
<1>1. m' = Written(SdaDown) => m' \in Lines /\ m'.sda /\ m'.scl = m.scl
  <2> SUFFICES ASSUME m' = Written(SdaDown) PROVE m' \in Lines /\ m'.sda /\ m'.scl = m.scl
    OBVIOUS
  <2>1. m' = [sda |-> TRUE, scl |-> m.scl]
    BY WrittenSda, Zenon
  <2> QED
    BY <2>1 DEF Lines
<1>2. m' = Written(SdaUp) => m' \in Lines /\ ~m'.sda /\ m'.scl = m.scl
  <2> SUFFICES ASSUME m' = Written(SdaUp) PROVE m' \in Lines /\ ~m'.sda /\ m'.scl = m.scl
    OBVIOUS
  <2>1. m' = [sda |-> FALSE, scl |-> m.scl]
    BY WrittenSda, Zenon
  <2> QED
    BY <2>1 DEF Lines
<1>3. m' = Written(SclDown) => m' \in Lines /\ m'.sda = m.sda /\ m'.scl
  <2> SUFFICES ASSUME m' = Written(SclDown) PROVE m' \in Lines /\ m'.sda = m.sda /\ m'.scl
    OBVIOUS
  <2>1. m' = [sda |-> m.sda, scl |-> TRUE]
    BY WrittenScl, Zenon
  <2> QED
    BY <2>1 DEF Lines
<1>4. m' = Written(SclUp) => m' \in Lines /\ m'.sda = m.sda /\ ~m'.scl
  <2> SUFFICES ASSUME m' = Written(SclUp) PROVE m' \in Lines /\ m'.sda = m.sda /\ ~m'.scl
    OBVIOUS
  <2>1. m' = [sda |-> m.sda, scl |-> FALSE]
    BY WrittenScl, Zenon
  <2> QED
    BY <2>1 DEF Lines
<1>5. m' = Written(Nothing) => m' \in Lines /\ m' = m
  BY WrittenNothing, Zenon
<1> QED
  BY <1>1, <1>2, <1>3, <1>4, <1>5

\* One step of a waveform: how many steps are left and what the enables become.
Stepped == eng'.wave = Tail(eng.wave) /\ m' = Written(Head(eng.wave))

LEMMA BitStep ==
  ASSUME m \in Lines, BitWave, Stepped
  PROVE  /\ Left \in 1..3 /\ Left' = Left - 1 /\ m' \in Lines
         /\ Left = 3 => (m'.sda <=> eng.item \in Lows) /\ m'.scl /\ m.scl
         /\ Left = 2 => (m'.sda <=> eng.item \in Lows) /\ ~m'.scl /\ m.scl /\ (m.sda <=> eng.item \in Lows)
         /\ Left = 1 => (m'.sda <=> eng.item \in Lows) /\ m'.scl /\ ~m.scl /\ (m.sda <=> eng.item \in Lows)
         /\ IF Left = 1 THEN eng'.wave = <<>> ELSE eng'.item = eng.item => BitWave'
<1>0. Len(<<>>) = 0
  OBVIOUS
<1>1. CASE eng.wave = <<SdaFor(eng.item), SclUp, SclDown>> /\ m.scl
  <2>1. Left = 3 /\ Left' = 2 /\ eng'.wave = <<SclUp, SclDown>> /\ m' = Written(SdaFor(eng.item))
    BY <1>1, Tuple3, Tuple2 DEF Left, Stepped
  <2>2. m' \in Lines /\ m'.scl /\ (m'.sda <=> eng.item \in Lows)
    BY <2>1, <1>1, Writes DEF SdaFor
  <2>3. eng'.item = eng.item => BitWave'
    BY <2>1, <2>2 DEF BitWave
  <2> QED
    BY <2>1, <2>2, <2>3, <1>1
<1>2. CASE eng.wave = <<SclUp, SclDown>> /\ m.scl /\ (m.sda <=> eng.item \in Lows)
  <2>1. Left = 2 /\ Left' = 1 /\ eng'.wave = <<SclDown>> /\ m' = Written(SclUp)
    BY <1>2, Tuple2, Tuple1 DEF Left, Stepped
  <2>2. m' \in Lines /\ ~m'.scl /\ (m'.sda <=> eng.item \in Lows)
    BY <2>1, <1>2, Writes
  <2>3. eng'.item = eng.item => BitWave'
    BY <2>1, <2>2 DEF BitWave
  <2> QED
    BY <2>1, <2>2, <2>3, <1>2
<1>3. CASE eng.wave = <<SclDown>> /\ ~m.scl /\ (m.sda <=> eng.item \in Lows)
  <2>1. Left = 1 /\ Left' = 0 /\ eng'.wave = <<>> /\ m' = Written(SclDown)
    BY <1>0, <1>3, Tuple1 DEF Left, Stepped
  <2>2. m' \in Lines /\ m'.scl /\ (m'.sda <=> eng.item \in Lows)
    BY <2>1, <1>3, Writes
  <2> QED
    BY <2>1, <2>2, <1>3
<1> QED
  BY <1>1, <1>2, <1>3 DEF BitWave

LEMMA StartStep ==
  ASSUME m \in Lines, StartWave, Stepped
  PROVE  /\ Left \in 1..3 /\ Left' = Left - 1 /\ m' \in Lines
         /\ Left = 3 => m'.sda /\ ~m'.scl /\ ~m.sda /\ ~m.scl
         /\ Left = 2 => m'.sda /\ m'.scl /\ m.sda /\ ~m.scl
         /\ Left = 1 => m' = m /\ m.sda /\ m.scl
         /\ IF Left = 1 THEN eng'.wave = <<>> ELSE StartWave'
<1>0. Len(<<>>) = 0
  OBVIOUS
<1>1. CASE eng.wave = <<SdaDown, SclDown, Nothing>> /\ ~m.sda /\ ~m.scl
  <2>1. Left = 3 /\ Left' = 2 /\ eng'.wave = <<SclDown, Nothing>> /\ m' = Written(SdaDown)
    BY <1>1, Tuple3, Tuple2 DEF Left, Stepped
  <2>2. m' \in Lines /\ ~m'.scl /\ m'.sda
    BY <2>1, <1>1, Writes
  <2> QED
    BY <2>1, <2>2, <1>1 DEF StartWave
<1>2. CASE eng.wave = <<SclDown, Nothing>> /\ m.sda /\ ~m.scl
  <2>1. Left = 2 /\ Left' = 1 /\ eng'.wave = <<Nothing>> /\ m' = Written(SclDown)
    BY <1>2, Tuple2, Tuple1 DEF Left, Stepped
  <2>2. m' \in Lines /\ m'.scl /\ m'.sda
    BY <2>1, <1>2, Writes
  <2> QED
    BY <2>1, <2>2, <1>2 DEF StartWave
<1>3. CASE eng.wave = <<Nothing>> /\ m.sda /\ m.scl
  <2>1. Left = 1 /\ Left' = 0 /\ eng'.wave = <<>> /\ m' = Written(Nothing)
    BY <1>0, <1>3, Tuple1 DEF Left, Stepped
  <2>2. m' = m
    BY <2>1, Writes
  <2> QED
    BY <2>1, <2>2, <1>3
<1> QED
  BY <1>1, <1>2, <1>3 DEF StartWave

LEMMA StopStep ==
  ASSUME m \in Lines, StopWave, Stepped
  PROVE  /\ Left \in 1..4 /\ Left' = Left - 1 /\ m' \in Lines
         /\ Left = 4 => m'.sda /\ m'.scl = m.scl /\ (IF eng.state = "IDLE" THEN ~m.sda ELSE m.scl)
         /\ Left = 3 => m'.sda /\ ~m'.scl /\ m.sda /\ (eng.state # "IDLE" => m.scl)
         /\ Left = 2 => ~m'.sda /\ ~m'.scl /\ m.sda /\ ~m.scl
         /\ Left = 1 => m' = m /\ ~m.sda /\ ~m.scl
         /\ IF Left = 1 THEN eng'.wave = <<>> ELSE eng'.state = eng.state => StopWave'
<1>0. Len(<<>>) = 0
  OBVIOUS
<1>1. CASE eng.wave = <<SdaDown, SclUp, SdaUp, Nothing>> /\ (IF eng.state = "IDLE" THEN ~m.sda ELSE m.scl)
  <2>1. Left = 4 /\ Left' = 3 /\ eng'.wave = <<SclUp, SdaUp, Nothing>> /\ m' = Written(SdaDown)
    BY <1>1, Tuple4, Tuple3 DEF Left, Stepped
  <2>2. m' \in Lines /\ m'.scl = m.scl /\ m'.sda
    BY <2>1, <1>1, Writes
  <2>3. eng'.state = eng.state => StopWave'
    BY <2>1, <2>2, <1>1 DEF StopWave
  <2> QED
    BY <2>1, <2>2, <2>3, <1>1
<1>2. CASE eng.wave = <<SclUp, SdaUp, Nothing>> /\ m.sda /\ (eng.state # "IDLE" => m.scl)
  <2>1. Left = 3 /\ Left' = 2 /\ eng'.wave = <<SdaUp, Nothing>> /\ m' = Written(SclUp)
    BY <1>2, Tuple3, Tuple2 DEF Left, Stepped
  <2>2. m' \in Lines /\ ~m'.scl /\ m'.sda
    BY <2>1, <1>2, Writes
  <2> QED
    BY <2>1, <2>2, <1>2 DEF StopWave
<1>3. CASE eng.wave = <<SdaUp, Nothing>> /\ m.sda /\ ~m.scl
  <2>1. Left = 2 /\ Left' = 1 /\ eng'.wave = <<Nothing>> /\ m' = Written(SdaUp)
    BY <1>3, Tuple2, Tuple1 DEF Left, Stepped
  <2>2. m' \in Lines /\ ~m'.scl /\ ~m'.sda
    BY <2>1, <1>3, Writes
  <2> QED
    BY <2>1, <2>2, <1>3 DEF StopWave
<1>4. CASE eng.wave = <<Nothing>> /\ ~m.sda /\ ~m.scl
  <2>1. Left = 1 /\ Left' = 0 /\ eng'.wave = <<>> /\ m' = Written(Nothing)
    BY <1>0, <1>4, Tuple1 DEF Left, Stepped
  <2>2. m' = m
    BY <2>1, Writes
  <2> QED
    BY <2>1, <2>2, <1>4
<1> QED
  BY <1>1, <1>2, <1>3, <1>4 DEF StopWave

LEMMA SampleStep ==
  ASSUME m \in Lines, SampleWave, Stepped
  PROVE  /\ Left \in 1..2 /\ Left' = Left - 1 /\ m' \in Lines
         /\ Left = 2 => ~m'.sda /\ ~m'.scl /\ ~m.sda /\ m.scl /\ eng.state # "IDLE"
         /\ Left = 1 => ~m'.sda /\ m'.scl /\ ~m.sda /\ ~m.scl /\ eng.state # "DEVID"
         /\ IF Left = 1 THEN eng'.wave = <<>> ELSE eng'.state # "DEVID" => SampleWave'
<1>0. Len(<<>>) = 0
  OBVIOUS
<1>1. CASE eng.wave = <<SclUp, SclDown>> /\ ~m.sda /\ m.scl /\ eng.state # "IDLE"
  <2>1. Left = 2 /\ Left' = 1 /\ eng'.wave = <<SclDown>> /\ m' = Written(SclUp)
    BY <1>1, Tuple2, Tuple1 DEF Left, Stepped
  <2>2. m' \in Lines /\ ~m'.scl /\ ~m'.sda
    BY <2>1, <1>1, Writes
  <2> QED
    BY <2>1, <2>2, <1>1 DEF SampleWave
<1>2. CASE eng.wave = <<SclDown>> /\ ~m.sda /\ ~m.scl /\ eng.state # "DEVID"
  <2>1. Left = 1 /\ Left' = 0 /\ eng'.wave = <<>> /\ m' = Written(SclDown)
    BY <1>0, <1>2, Tuple1 DEF Left, Stepped
  <2>2. m' \in Lines /\ m'.scl /\ ~m'.sda
    BY <2>1, <1>2, Writes
  <2> QED
    BY <2>1, <2>2, <1>2
<1> QED
  BY <1>1, <1>2 DEF SampleWave

LEMMA AnsweredState == ASSUME TypeInv PROVE Answered \in {"IDLE", "READING", "WRITING"} /\ Answer \in {"0", "1", "A", "N"}
  BY DEF Answered, Answer, TypeInv, States, Lines

\* What a wait does to the enables, item by item.
StartDoes ==
  \/ Left = 3 /\ m'.sda /\ ~m'.scl /\ ~m.sda /\ ~m.scl
  \/ Left = 2 /\ m'.sda /\ m'.scl /\ m.sda /\ ~m.scl
  \/ Left = 1 /\ m' = m /\ m.sda /\ m.scl
StopDoes ==
  \/ Left = 4 /\ m'.sda /\ m'.scl = m.scl /\ (IF eng.state = "IDLE" THEN ~m.sda ELSE m.scl)
  \/ Left = 3 /\ m'.sda /\ ~m'.scl /\ m.sda /\ (eng.state # "IDLE" => m.scl)
  \/ Left = 2 /\ ~m'.sda /\ ~m'.scl /\ m.sda /\ ~m.scl
  \/ Left = 1 /\ m' = m /\ ~m.sda /\ ~m.scl
SampleDoes ==
  \/ Left = 2 /\ ~m'.sda /\ ~m'.scl /\ ~m.sda /\ m.scl /\ eng.state # "IDLE"
  \/ Left = 1 /\ ~m'.sda /\ m'.scl /\ ~m.sda /\ ~m.scl /\ eng.state # "DEVID"
BitDoes ==
  /\ m'.sda <=> eng.item \in Lows
  /\ \/ Left = 3 /\ m'.scl /\ m.scl
     \/ Left = 2 /\ ~m'.scl /\ m.scl /\ (m.sda <=> eng.item \in Lows)
     \/ Left = 1 /\ m'.scl /\ ~m.scl /\ (m.sda <=> eng.item \in Lows)

LEMMA ClockStep ==
  ASSUME TypeInv, EngInv, Clock
  PROVE  /\ EngInv' /\ m' \in Lines /\ eng.item \in Items /\ Left \in 1..4 /\ Left' = Left - 1
         /\ eng'.item = IF Left = 1 THEN None ELSE eng.item
         /\ eng'.state = IF eng.item = "Z" /\ Left = 2 THEN Answered
                         ELSE IF Left = 1 THEN Finished(eng.state, eng.item) ELSE eng.state
         /\ eng.item = "S" => eng.state # "DEVID" /\ StartDoes
         /\ eng.item = "P" => eng.state # "DEVID" /\ StopDoes
         /\ eng.item = "Z" => SampleDoes
         /\ eng.item \in {"A", "N"} => eng.state = "READING" /\ BitDoes
         /\ eng.item \in {"0", "1"} /\ eng.state # "READING" => eng.state # "IDLE" /\ BitDoes
         /\ eng.item \in {"0", "1"} /\ eng.state = "READING" => Left = 1 /\ m' = m /\ m.scl
<1> DEFINE sample == eng.item = "Z" /\ Len(eng.wave) = 2
<1>1. /\ Stepped /\ eng.item # None
      /\ eng'.item = IF Left = 1 THEN None ELSE eng.item
      /\ eng'.state = IF sample THEN Answered ELSE IF Left = 1 THEN Finished(eng.state, eng.item) ELSE eng.state
  BY DEF Clock, Left, Stepped
<1>2. m \in Lines /\ eng.state \in States /\ eng.item \in Items
  BY <1>1 DEF TypeInv
<1>3. "S" # None /\ "P" # None /\ "Z" # None /\ "A" # None /\ "N" # None /\ "0" # None /\ "1" # None
  BY NoneAssumption
<1>4. CASE eng.item = "S" /\ eng.state # "DEVID" /\ StartWave
  <2>1. Finished(eng.state, eng.item) = "DEVID"
    BY <1>4 DEF Finished
  <2>2. EngInv'
    BY <1>1, <1>2, <1>3, <1>4, <2>1, StartStep DEF EngInv
  <2>3. Left \in 1..4 /\ Left' = Left - 1 /\ m' \in Lines /\ StartDoes
    BY <1>1, <1>2, <1>4, StartStep DEF StartDoes
  <2> QED
    BY <1>1, <1>2, <1>3, <1>4, <2>1, <2>2, <2>3
<1>5. CASE eng.item = "P" /\ eng.state # "DEVID" /\ StopWave
  <2>1. Finished(eng.state, eng.item) = "IDLE"
    BY <1>5 DEF Finished
  <2>2. EngInv'
    BY <1>1, <1>2, <1>3, <1>5, <2>1, StopStep DEF EngInv
  <2>3. Left \in 1..4 /\ Left' = Left - 1 /\ m' \in Lines /\ StopDoes
    BY <1>1, <1>2, <1>5, StopStep DEF StopDoes
  <2> QED
    BY <1>1, <1>2, <1>3, <1>5, <2>1, <2>2, <2>3
<1>6. CASE eng.item = "Z" /\ SampleWave
  <2>1. Finished(eng.state, eng.item) = eng.state
    BY <1>6 DEF Finished
  <2>2. EngInv'
    BY <1>1, <1>2, <1>3, <1>6, <2>1, SampleStep, AnsweredState DEF EngInv, Left
  <2>3. Left \in 1..4 /\ Left' = Left - 1 /\ m' \in Lines /\ SampleDoes
    BY <1>1, <1>2, <1>6, SampleStep DEF SampleDoes
  <2> QED
    BY <1>1, <1>2, <1>3, <1>6, <2>1, <2>2, <2>3 DEF Left
<1>7. CASE /\ eng.item \in {"A", "N", "0", "1"} /\ BitWave
           /\ eng.item \in {"0", "1"} => eng.state \in {"DEVID", "WRITING"}
           /\ eng.item \in {"A", "N"} => eng.state = "READING"
  <2>1. Finished(eng.state, eng.item) = IF eng.item = "N" THEN "IDLE" ELSE eng.state
    BY <1>7 DEF Finished
  <2>2. EngInv'
    BY <1>1, <1>2, <1>3, <1>7, <2>1, BitStep DEF EngInv, Lows
  <2>3. Left \in 1..4 /\ Left' = Left - 1 /\ m' \in Lines /\ BitDoes
    BY <1>1, <1>2, <1>7, BitStep DEF BitDoes
  <2> QED
    BY <1>1, <1>2, <1>3, <1>7, <2>1, <2>2, <2>3
<1>8. CASE eng.item \in {"0", "1"} /\ eng.state = "READING" /\ eng.wave = <<Nothing>> /\ m.scl
  <2>1. Finished(eng.state, eng.item) = eng.state
    BY <1>8 DEF Finished
  <2>2. Left = 1 /\ Left' = 0 /\ eng'.wave = <<>> /\ m' = Written(Nothing) /\ Len(<<>>) = 0
    BY <1>8, <1>1, Tuple1 DEF Left, Stepped
  <2>3. m' = m
    BY <1>2, <2>2, Writes
  <2>4. EngInv'
    BY <1>1, <1>2, <1>3, <1>8, <2>1, <2>2, <2>3 DEF EngInv
  <2> QED
    BY <1>1, <1>2, <1>3, <1>8, <2>1, <2>2, <2>3, <2>4
<1> QED
  BY <1>1, <1>2, <1>3, <1>4, <1>5, <1>6, <1>7, <1>8 DEF EngInv

\* The waveforms of the items.
LEMMA SdaOf == ASSUME NEW p PROVE /\ Sda(p = "0") = IF p = "0" THEN SdaDown ELSE SdaUp
                                  /\ Sda(p = "A") = IF p = "A" THEN SdaDown ELSE SdaUp
<1>1. Sda(p = "0") = IF p = "0" THEN SdaDown ELSE SdaUp
  BY DEF Sda, SdaDown, SdaUp
<1>2. Sda(p = "A") = IF p = "A" THEN SdaDown ELSE SdaUp
  BY DEF Sda, SdaDown, SdaUp
<1> QED
  BY <1>1, <1>2

BothUp == [sda |-> FALSE, scl |-> FALSE]

LEMMA WaveOf ==
  ASSUME NEW st, NEW p \in Items
  PROVE  /\ p = "S" => Wave(st, p) = <<BothUp, SdaDown, SclDown, Nothing>>
         /\ p = "P" => Wave(st, p) = <<Nothing, SdaDown, SclUp, SdaUp, Nothing>>
         /\ p = "Z" => Wave(st, p) = <<SdaUp, SclUp, SclDown>>
         /\ (p \in {"0", "1"} /\ st \in {"DEVID", "WRITING"}) \/ (p \in {"A", "N"} /\ st = "READING") =>
              Wave(st, p) = <<Nothing, SdaFor(p), SclUp, SclDown>>
         /\ p \in {"0", "1"} /\ st = "READING" => Wave(st, p) = <<Nothing, Nothing>>
<1>1. p = "S" => Wave(st, p) = <<BothUp, SdaDown, SclDown, Nothing>>
  BY Zenon DEF Wave, BothUp, SdaDown, SclDown
<1>2. p = "P" => Wave(st, p) = <<Nothing, SdaDown, SclUp, SdaUp, Nothing>>
  BY Zenon DEF Wave, SdaDown, SdaUp, SclUp
<1>3. p = "Z" => Wave(st, p) = <<SdaUp, SclUp, SclDown>>
  BY Zenon DEF Wave, SdaUp, SclUp, SclDown
<1>4. p \in {"0", "1"} /\ st \in {"DEVID", "WRITING"} => Wave(st, p) = <<Nothing, SdaFor(p), SclUp, SclDown>>
  <2> SUFFICES ASSUME p \in {"0", "1"}, st \in {"DEVID", "WRITING"} PROVE Wave(st, p) = <<Nothing, SdaFor(p), SclUp, SclDown>>
    OBVIOUS
  <2>1. Wave(st, p) = Clocked(Sda(p = "0"))
    BY Zenon DEF Wave
  <2>2. Sda(p = "0") = SdaFor(p)
    BY SdaOf DEF SdaFor, Lows
  <2> QED
    BY <2>1, <2>2, Zenon DEF Clocked, SclUp, SclDown
<1>5. p \in {"A", "N"} /\ st = "READING" => Wave(st, p) = <<Nothing, SdaFor(p), SclUp, SclDown>>
  <2> SUFFICES ASSUME p \in {"A", "N"}, st = "READING" PROVE Wave(st, p) = <<Nothing, SdaFor(p), SclUp, SclDown>>
    OBVIOUS
  <2>1. Wave(st, p) = Clocked(Sda(p = "A"))
    BY Zenon DEF Wave
  <2>2. Sda(p = "A") = SdaFor(p)
    BY SdaOf DEF SdaFor, Lows
  <2> QED
    BY <2>1, <2>2, Zenon DEF Clocked, SclUp, SclDown
<1>6. p \in {"0", "1"} /\ st = "READING" => Wave(st, p) = <<Nothing, Nothing>>
  BY Zenon DEF Wave
<1> QED
  BY <1>1, <1>2, <1>3, <1>4, <1>5, <1>6

\* The first step of a waveform is written at once.
LEMMA Begun2 ==
  ASSUME NEW a, NEW b, NEW w, w = <<a, b>>, eng'.wave = Tail(w), m' = Written(Head(w))
  PROVE  eng'.wave = <<b>> /\ m' = Written(a)
  OBVIOUS
LEMMA Begun3 ==
  ASSUME NEW a, NEW b, NEW c, NEW w, w = <<a, b, c>>, eng'.wave = Tail(w), m' = Written(Head(w))
  PROVE  eng'.wave = <<b, c>> /\ m' = Written(a)
  OBVIOUS
LEMMA Begun4 ==
  ASSUME NEW a, NEW b, NEW c, NEW d, NEW w, w = <<a, b, c, d>>, eng'.wave = Tail(w), m' = Written(Head(w))
  PROVE  eng'.wave = <<b, c, d>> /\ m' = Written(a)
  OBVIOUS
LEMMA Begun5 ==
  ASSUME NEW a, NEW b, NEW c, NEW d, NEW e, NEW w, w = <<a, b, c, d, e>>, eng'.wave = Tail(w), m' = Written(Head(w))
  PROVE  eng'.wave = <<b, c, d, e>> /\ m' = Written(a)
  OBVIOUS

\* What the engine does with the item it reads.
LEMMA FetchStep ==
  ASSUME TypeInv, EngInv, Fetch, NEW p, p = Head(to),
         p \in {"S", "P"} => eng.state # "DEVID",
         p \in {"A", "N"} => eng.state \in {"IDLE", "READING"}
  PROVE  /\ EngInv' /\ m' \in Lines /\ to # <<>> /\ to' = Tail(to) /\ p \in Items
         /\ eng.item = None /\ eng'.state = eng.state /\ eng'.rwbit = eng.rwbit
         /\ IF eng.state = "IDLE" /\ p \notin {"S", "P"} THEN eng' = eng /\ m' = m ELSE eng'.item = p
         /\ p = "S" => Left' = 3 /\ ~m'.sda /\ ~m'.scl
         /\ p = "P" => Left' = 4 /\ m' = m
         /\ p = "Z" /\ eng.state # "IDLE" => Left' = 2 /\ ~m'.sda /\ m'.scl /\ m.scl
         /\ p \in {"A", "N", "0", "1"} /\ eng.state # "IDLE" =>
              m' = m /\ m.scl /\ Left' = IF p \in {"0", "1"} /\ eng.state = "READING" THEN 1 ELSE 3
<1>1. /\ eng.item = None /\ to # <<>> /\ to' = Tail(to) /\ to \in Seq(Items)
      /\ IF eng.state = "IDLE" /\ p \notin {"S", "P"} THEN UNCHANGED <<eng, m>>
         ELSE eng' = [eng EXCEPT !.item = p, !.wave = Tail(Wave(eng.state, p))] /\ m' = Written(Head(Wave(eng.state, p)))
  BY DEF Fetch, TypeInv
<1>2. p \in Items /\ m \in Lines /\ eng.state \in States /\ p # None
  BY <1>1, NoneAssumption DEF TypeInv, Items
<1>3. IF eng.state = "IDLE" THEN ~m.sda ELSE m.scl
  BY <1>1, NoneAssumption DEF EngInv
<1>4. CASE eng.state = "IDLE" /\ p \notin {"S", "P"}
  <2>1. eng' = eng /\ m' = m
    BY <1>1, <1>4
  <2>2. EngInv'
    BY <2>1 DEF EngInv, StartWave, StopWave, SampleWave, BitWave
  <2> QED
    BY <1>1, <1>2, <1>4, <2>1, <2>2
<1>5. CASE ~(eng.state = "IDLE" /\ p \notin {"S", "P"})
  <2>1. /\ eng'.state = eng.state /\ eng'.rwbit = eng.rwbit /\ eng'.item = p
    BY <1>1, <1>5 DEF TypeInv
  <2>w. PICK w : w = Wave(eng.state, p) /\ eng'.wave = Tail(w) /\ m' = Written(Head(w))
    BY <1>1, <1>5 DEF TypeInv
  <2>2. CASE p = "S"
    <3>0. Wave(eng.state, p) = <<BothUp, SdaDown, SclDown, Nothing>>
      BY <1>2, <2>2, WaveOf, Zenon
    <3>1. eng'.wave = <<SdaDown, SclDown, Nothing>> /\ m' = Written(BothUp)
      BY <2>w, <3>0, Begun4, Zenon
    <3>2. Left' = 3
      BY <3>1, Tuple3 DEF Left
    <3>3. m' \in Lines /\ ~m'.sda /\ ~m'.scl
      <4>1. m' = BothUp
        BY <1>2, <3>1, WrittenBoth, Zenon DEF BothUp
      <4> QED
        BY <4>1 DEF BothUp, Lines
    <3>4. EngInv'
      BY <2>1, <2>2, <3>1, <3>3 DEF EngInv, StartWave
    <3> QED
      BY <1>1, <1>2, <1>5, <2>1, <2>2, <3>2, <3>3, <3>4
  <2>3. CASE p = "P"
    <3>0. Wave(eng.state, p) = <<Nothing, SdaDown, SclUp, SdaUp, Nothing>>
      BY <1>2, <2>3, WaveOf, Zenon
    <3>1. eng'.wave = <<SdaDown, SclUp, SdaUp, Nothing>> /\ m' = Written(Nothing)
      BY <2>w, <3>0, Begun5, Zenon
    <3>2. Left' = 4
      BY <3>1, Tuple4 DEF Left
    <3>3. m' = m
      BY <1>2, <3>1, Writes
    <3>4. EngInv'
      BY <1>3, <2>1, <2>3, <3>1, <3>3 DEF EngInv, StopWave
    <3> QED
      BY <1>1, <1>2, <1>5, <2>1, <2>3, <3>2, <3>3, <3>4
  <2>4. CASE p = "Z"
    <3>0. Wave(eng.state, p) = <<SdaUp, SclUp, SclDown>>
      BY <1>2, <2>4, WaveOf, Zenon
    <3>1. eng'.wave = <<SclUp, SclDown>> /\ m' = Written(SdaUp)
      BY <2>w, <3>0, Begun3, Zenon
    <3>2. Left' = 2
      BY <3>1, Tuple2 DEF Left
    <3>3. m' \in Lines /\ ~m'.sda /\ m'.scl /\ m.scl
      BY <1>2, <1>3, <1>5, <2>4, <3>1, Writes
    <3>4. EngInv'
      BY <1>5, <2>1, <2>4, <3>1, <3>3 DEF EngInv, SampleWave
    <3> QED
      BY <1>1, <1>2, <1>5, <2>1, <2>4, <3>2, <3>3, <3>4
  <2>5. CASE (p \in {"0", "1"} /\ eng.state \in {"DEVID", "WRITING"}) \/ (p \in {"A", "N"} /\ eng.state = "READING")
    <3>0. Wave(eng.state, p) = <<Nothing, SdaFor(p), SclUp, SclDown>>
      BY <1>2, <2>5, WaveOf, Zenon
    <3>1. eng'.wave = <<SdaFor(p), SclUp, SclDown>> /\ m' = Written(Nothing)
      BY <2>w, <3>0, Begun4, Zenon
    <3>2. Left' = 3
      BY <3>1, Tuple3 DEF Left
    <3>3. m' = m /\ m.scl
      BY <1>2, <1>3, <2>5, <3>1, Writes
    <3>4. EngInv'
      BY <1>5, <2>1, <2>5, <3>1, <3>3 DEF EngInv, BitWave
    <3> QED
      BY <1>1, <1>2, <1>5, <2>1, <2>5, <3>2, <3>3, <3>4
  <2>6. CASE p \in {"0", "1"} /\ eng.state = "READING"
    <3>0. Wave(eng.state, p) = <<Nothing, Nothing>>
      BY <1>2, <2>6, WaveOf, Zenon
    <3>1. eng'.wave = <<Nothing>> /\ m' = Written(Nothing)
      BY <2>w, <3>0, Begun2, Zenon
    <3>2. Left' = 1
      BY <3>1, Tuple1 DEF Left
    <3>3. m' = m /\ m.scl
      BY <1>2, <1>3, <2>6, <3>1, Writes
    <3>4. EngInv'
      BY <1>5, <2>1, <2>6, <3>1, <3>3 DEF EngInv
    <3> QED
      BY <1>1, <1>2, <1>5, <2>1, <2>6, <3>2, <3>3, <3>4
  <2> QED
    <3>1. \/ p \in {"S", "P", "Z"}
          \/ p \in {"0", "1"} /\ eng.state = "READING"
          \/ p \in {"0", "1"} /\ eng.state \in {"DEVID", "WRITING"}
          \/ p \in {"A", "N"} /\ eng.state = "READING"
      BY <1>2, <1>5 DEF Items, States
    <3> QED
      BY <3>1, <2>2, <2>3, <2>4, <2>5, <2>6
<1> QED
  BY <1>4, <1>5

(***************************************************************************)
(* What the device does when a line changes.                               *)
(***************************************************************************)

\* What the device pulls SDA to once it has seen the clock drop.
Drive ==
  \/ dev.state \in {"ACKRD", "ACKWR", "ACKWRD"}
  \/ dev.state = "READ" /\ dev.i \notin dev.data
  \/ dev.state = "WRDATA" /\ dev.i = MSB

PortInv ==
  /\ dev.i <= MSB
  /\ ~bus.scl => (ssda <=> Drive)
  /\ dev.state \in {"IDLE", "DEVID", "RETZ", "ACKRD", "ACKWR", "ACKWRD"} /\ bus.scl => ~ssda
  /\ dev.state = "WRDATA" => (ssda <=> dev.i = MSB)
  /\ bus.scl /\ ssda => ~bus.sda
  /\ ~bus.scl /\ ~m.scl => (bus.sda <=> ~m.sda /\ ~ssda)

LEMMA LinesResolved ==
  ASSUME m \in Lines, bus \in Lines, ssda \in BOOLEAN
  PROVE  /\ Resolved \in Lines /\ (Resolved.sda <=> ~m.sda /\ ~ssda) /\ (Resolved.scl <=> ~m.scl)
         /\ Settled <=> (bus.sda <=> ~m.sda /\ ~ssda) /\ (bus.scl <=> ~m.scl)
<1>1. Resolved \in Lines /\ (Resolved.sda <=> ~m.sda /\ ~ssda) /\ (Resolved.scl <=> ~m.scl)
  BY DEF Resolved, Lines
<1>2. Settled <=> (bus.sda <=> ~m.sda /\ ~ssda) /\ (bus.scl <=> ~m.scl)
  BY DEF Resolved, Lines, Settled
<1> QED
  BY <1>1, <1>2

Rose ==
  \/ DevId \/ Ignore \/ AckRead \/ AckWrite \/ WriteBit
  \/ AckData \/ ReadBit \/ AckNack

LEMMA Changes ==
  ASSUME TypeInv, PortInv, i2c_th
  PROVE  /\ Change
         /\ bus' \in Lines /\ (bus'.sda <=> ~m.sda /\ ~ssda) /\ (bus'.scl <=> ~m.scl)
         /\ m.scl /\ bus.scl => Falling
         /\ m.scl /\ ~bus.scl => DataMoves
         /\ ~m.scl /\ ~bus.scl => Rose /\ (bus'.sda <=> bus.sda)
         /\ ~m.scl /\ bus.scl => StartStop /\ (bus'.sda <=> ~bus.sda)
<1>1. Change
  BY DEF i2c_th, StartStop, DevId, Ignore, AckRead, AckWrite, WriteBit,
     AckData, ReadBit, AckNack, Falling, DataMoves, Rising
<1>2. bus' = Resolved /\ ~Settled /\ bus \in Lines /\ m \in Lines /\ ssda \in BOOLEAN
  BY <1>1 DEF Change, TypeInv
<1>3. bus' \in Lines /\ (bus'.sda <=> ~m.sda /\ ~ssda) /\ (bus'.scl <=> ~m.scl)
  BY <1>2, LinesResolved
<1>4. ~((bus.sda <=> ~m.sda /\ ~ssda) /\ (bus.scl <=> ~m.scl))
  BY <1>2, LinesResolved
<1>5. bus.sda \in BOOLEAN /\ bus'.sda \in BOOLEAN /\ bus.scl \in BOOLEAN /\ bus'.scl \in BOOLEAN
  BY <1>2, <1>3 DEF Lines
<1>7. ~m.scl /\ ~bus.scl => (bus.sda <=> ~m.sda /\ ~ssda)
  BY DEF PortInv
<1>8. StartStop => bus'.scl /\ ~(bus'.sda <=> bus.sda)
  <2>1. StartStop => bus'.scl /\ bus'.sda # bus.sda
    BY DEF StartStop
  <2>2. bus'.sda # bus.sda => ~(bus'.sda <=> bus.sda)
    BY <1>5
  <2> QED
    BY <2>1, <2>2
<1>9. (Falling => bus.scl /\ ~bus'.scl) /\ (DataMoves => ~bus.scl /\ ~bus'.scl) /\ (Rising => bus'.scl /\ ~bus.scl)
  BY DEF Falling, DataMoves, Rising
<1>10. i2c_th => Rose \/ StartStop \/ Falling \/ DataMoves
  BY DEF i2c_th, Rose
<1>11. Rose => Rising
  BY DEF Rose, DevId, Ignore, AckRead, AckWrite, WriteBit, AckData, ReadBit, AckNack
<1> QED
  <2>1. m.scl /\ bus.scl => Falling
    BY <1>3, <1>8, <1>9, <1>10, <1>11, Zenon
  <2>2. m.scl /\ ~bus.scl => DataMoves
    BY <1>3, <1>8, <1>9, <1>10, <1>11, Zenon
  <2>3. ~m.scl /\ ~bus.scl => Rose /\ (bus'.sda <=> bus.sda)
    BY <1>3, <1>7, <1>8, <1>9, <1>10, <1>11, Zenon
  <2>4. ~m.scl /\ bus.scl => StartStop /\ (bus'.sda <=> ~bus.sda)
    BY <1>3, <1>4, <1>8, <1>9, <1>10, <1>11, Zenon
  <2> QED
    BY <1>1, <1>3, <2>1, <2>2, <2>3, <2>4, Zenon

\* A register moved up by one place.
Up(x) == {k + 1 : k \in x}

LEMMA ShiftIs == ASSUME NEW x \in SUBSET Int, NEW b
  PROVE  Shift(x, b) \in SUBSET Int /\ Shift(x, b) = IF b THEN Up(x) \cup {0} ELSE Up(x)
<1>1. Shift(x, b) = IF b THEN Up(x) \cup {0} ELSE Up(x)
  BY Zenon DEF Shift, Up
<1>2. Up(x) \in SUBSET Int /\ Up(x) \cup {0} \in SUBSET Int
  BY DEF Up
<1> QED
  BY <1>1, <1>2

\* What the device does when the clock rises.
Next1(x) == IF bus'.sda THEN Up(x) \cup {0} ELSE Up(x)

RiseDoes ==
  /\ dev' \in DevType
  /\ dev.state = "DEVID" =>
       /\ ssda' = ssda /\ dev'.drive = dev.drive /\ dev'.i = dev.i - 1
       /\ IF dev.i > 0 THEN dev'.state = "DEVID" /\ dev'.devid = Next1(dev.devid)
          ELSE dev'.state = IF dev.devid # DeviceId THEN "RETZ" ELSE IF bus'.sda THEN "ACKRD" ELSE "ACKWR"
  /\ dev.state \in {"IDLE", "RETZ"} => ssda' = ssda /\ dev'.state = "IDLE" /\ dev'.drive = dev.drive /\ dev'.i = dev.i
  /\ dev.state = "ACKRD" => ssda' = ssda /\ dev'.state = "READ" /\ dev'.i = MSB /\ dev'.drive = dev.drive
  /\ dev.state = "ACKWR" => ssda' = ssda /\ dev'.state = "WRDATA" /\ dev'.i = MSB /\ dev'.data = {} /\ dev'.drive = dev.drive
  /\ dev.state = "WRDATA" =>
       /\ dev'.data = Next1(dev.data) /\ dev'.drive = dev.drive
       /\ dev'.state = IF dev.i = 0 THEN "ACKWRD" ELSE "WRDATA"
       /\ dev'.i = IF dev.i = 0 THEN 0 ELSE dev.i - 1
       /\ ssda' = IF dev.i = MSB THEN FALSE ELSE ssda
  /\ dev.state = "ACKWRD" => ssda' = ssda /\ dev'.state = "WRDATA" /\ dev'.i = MSB /\ dev'.data = {} /\ dev'.drive = dev.data
  /\ dev.state = "READ" => /\ ssda' = ssda /\ dev'.drive = dev.drive
                           /\ IF dev.i = 0 THEN dev'.state = "ACKNACK" /\ dev'.i = dev.i
                              ELSE dev'.state = "READ" /\ dev'.i = dev.i - 1
  /\ dev.state = "ACKNACK" => /\ ssda' = ssda /\ dev'.drive = dev.drive
                              /\ IF bus'.sda THEN dev'.state = "IDLE" /\ dev'.i = dev.i
                                 ELSE dev'.state = "READ" /\ dev'.i = MSB

LEMMA RiseStep == ASSUME TypeInv, Rose PROVE RiseDoes
<1>0. dev \in DevType /\ MSB \in Int /\ dev.i - 1 \in Int /\ dev.data \in SUBSET Int /\ dev.devid \in SUBSET Int
  BY BitsAssumption DEF TypeInv, DevType, MSB
<1>1. CASE DevId
  <2>0. dev.state = "DEVID" /\ ssda' = ssda
    BY <1>1 DEF DevId
  <2>1. CASE dev.i > 0
    <3>1. PICK x : x = Shift(dev.devid, bus'.sda) /\ dev' = [dev EXCEPT !.devid = x, !.i = dev.i - 1]
      BY <1>1, <2>1, Zenon DEF DevId
    <3>2. x \in SUBSET Int /\ x = Next1(dev.devid)
      BY <1>0, <3>1, ShiftIs, Zenon DEF Next1
    <3>3. /\ dev' \in DevType /\ dev'.drive = dev.drive /\ dev'.i = dev.i - 1
          /\ dev'.state = "DEVID" /\ dev'.devid = x
      BY <1>0, <2>0, <3>1, <3>2 DEF DevType
    <3> QED
      BY <2>0, <2>1, <3>2, <3>3 DEF RiseDoes
  <2>2. CASE ~(dev.i > 0)
    <3>1. PICK st : /\ st = IF dev.devid # DeviceId THEN "RETZ" ELSE IF bus'.sda THEN "ACKRD" ELSE "ACKWR"
                    /\ dev' = [dev EXCEPT !.i = dev.i - 1, !.state = st]
      BY <1>1, <2>2, Zenon DEF DevId
    <3>2. st \in {"RETZ", "ACKRD", "ACKWR"}
      BY <3>1
    <3>3. dev' \in DevType /\ dev'.drive = dev.drive /\ dev'.i = dev.i - 1 /\ dev'.state = st
      BY <1>0, <2>0, <3>1, <3>2 DEF DevType
    <3> QED
      BY <2>0, <2>2, <3>1, <3>3 DEF RiseDoes
  <2> QED
    BY <2>1, <2>2
<1>2. CASE Ignore
  <2>1. dev.state \in {"IDLE", "RETZ"} /\ dev' = [dev EXCEPT !.state = "IDLE"] /\ ssda' = ssda
    BY <1>2 DEF Ignore
  <2>2. dev' \in DevType /\ dev'.state = "IDLE" /\ dev'.drive = dev.drive /\ dev'.i = dev.i
    BY <1>0, <2>1 DEF DevType
  <2> QED
    BY <2>1, <2>2 DEF RiseDoes
<1>3. Sample => dev' \in DevType /\ dev'.state = "READ" /\ dev'.i = MSB /\ dev'.drive = dev.drive
  BY <1>0 DEF Sample, DevType, Level
<1>4. CASE AckRead
  BY <1>3, <1>4 DEF AckRead, RiseDoes
<1>5. CASE AckWrite
  <2>1. dev.state = "ACKWR" /\ dev' = [dev EXCEPT !.state = "WRDATA", !.i = MSB, !.data = {}] /\ ssda' = ssda
    BY <1>5 DEF AckWrite
  <2>2. dev' \in DevType /\ dev'.state = "WRDATA" /\ dev'.i = MSB /\ dev'.data = {} /\ dev'.drive = dev.drive
    BY <1>0, <2>1 DEF DevType
  <2> QED
    BY <2>1, <2>2 DEF RiseDoes
<1>6. CASE WriteBit
  <2>1. PICK x, st, n : /\ x = Shift(dev.data, bus'.sda)
                        /\ st = IF dev.i = 0 THEN "ACKWRD" ELSE "WRDATA"
                        /\ n = IF dev.i = 0 THEN 0 ELSE dev.i - 1
                        /\ dev' = [dev EXCEPT !.data = x, !.state = st, !.i = n]
    BY <1>6, Zenon DEF WriteBit
  <2>2. x \in SUBSET Int /\ x = Next1(dev.data)
    BY <1>0, <2>1, ShiftIs, Zenon DEF Next1
  <2>3. st \in {"ACKWRD", "WRDATA"} /\ n \in Int
    BY <1>0, <2>1
  <2>4. dev' \in DevType /\ dev'.drive = dev.drive /\ dev'.i = n /\ dev'.state = st /\ dev'.data = x
    BY <1>0, <2>1, <2>2, <2>3 DEF DevType
  <2>5. dev.state = "WRDATA" /\ ssda' = IF dev.i = MSB THEN FALSE ELSE ssda
    BY <1>6, Zenon DEF WriteBit
  <2> QED
    BY <2>1, <2>2, <2>4, <2>5, Zenon DEF RiseDoes
<1>7. CASE AckData
  <2>1. /\ dev.state = "ACKWRD" /\ ssda' = ssda
        /\ dev' = [dev EXCEPT !.drive = dev.data, !.data = {}, !.i = MSB, !.state = "WRDATA"]
    BY <1>7 DEF AckData
  <2>2. dev' \in DevType /\ dev'.state = "WRDATA" /\ dev'.i = MSB /\ dev'.data = {} /\ dev'.drive = dev.data
    BY <1>0, <2>1 DEF DevType
  <2> QED
    BY <2>1, <2>2 DEF RiseDoes
<1>8. CASE ReadBit
  <2>1. /\ dev.state = "READ" /\ ssda' = ssda
        /\ dev' = IF dev.i = 0 THEN [dev EXCEPT !.state = "ACKNACK"] ELSE [dev EXCEPT !.i = @ - 1]
    BY <1>8 DEF ReadBit
  <2>2. /\ dev' \in DevType /\ dev'.drive = dev.drive
        /\ IF dev.i = 0 THEN dev'.state = "ACKNACK" /\ dev'.i = dev.i
                        ELSE dev'.state = "READ" /\ dev'.i = dev.i - 1
    BY <1>0, <2>1 DEF DevType
  <2> QED
    BY <2>1, <2>2 DEF RiseDoes
<1>9. CASE AckNack
  <2>0. dev.state = "ACKNACK" /\ ssda' = ssda
    BY <1>9 DEF AckNack
  <2>1. CASE bus'.sda
    <3>1. dev' = [dev EXCEPT !.state = "IDLE"]
      BY <1>9, <2>1 DEF AckNack
    <3>2. dev' \in DevType /\ dev'.state = "IDLE" /\ dev'.drive = dev.drive /\ dev'.i = dev.i
      BY <1>0, <3>1 DEF DevType
    <3> QED
      BY <2>0, <2>1, <3>2 DEF RiseDoes
  <2>2. CASE ~bus'.sda
    <3>1. Sample
      BY <1>9, <2>2 DEF AckNack
    <3> QED
      BY <2>0, <2>2, <3>1, <1>3 DEF RiseDoes
  <2> QED
    BY <2>1, <2>2
<1> QED
  BY <1>1, <1>2, <1>4, <1>5, <1>6, <1>7, <1>8, <1>9 DEF Rose

(***************************************************************************)
(* The invariant of a transfer. Its parts say, for every place of a call,  *)
(* what the engine has still to send and where the device stands in the    *)
(* same byte.                                                              *)
(***************************************************************************)

Digits == {"0", "1"}
Rw     == task.pc = "request"

\* The byte that addresses the device, and the items that send a byte: the d-th from the end.
Addr == IF Rw THEN Up(addressed.addr) \cup {0} ELSE Up(addressed.addr)
Script(b, d) ==
  IF d = 0 THEN "Z" ELSE IF d = Bits + 1 THEN "S" ELSE IF d - 1 \in b THEN "1" ELSE "0"

\* What is left of an earlier call: stops, and first the end of a read.
Early(i) ==
  to[i] = "P" \/ (i = 1 /\ to[1] = "N" /\ eng.state = "READING" /\ eng.item \in {None, "Z"})

Sent == task.pc \in {"begin", "request"}

ToInv ==
  /\ task.pc = "idle" => \A i \in 1..Len(to) : Early(i)
  /\ Sent => /\ addressed.addr \in SUBSET (0..(Bits - 2)) /\ task.bit = 0 /\ (Rw => task.size > 0)
             /\ \A i \in 1..Len(to) : IF Len(to) - i <= Bits + 1 THEN to[i] = Script(Addr, Len(to) - i) ELSE Early(i)
             /\ Len(to) > Bits + 2 => to[Len(to) - Bits - 2] = "P"
             /\ Len(to) = Bits + 2 => eng.item = "P" \/ eng.state = "IDLE" \/ (eng.item = None /\ Settled)
  /\ task.pc = "write" =>
       \A i \in 1..Len(to) : IF Len(to) - i <= Bits THEN to[i] = Script(task.byte, Len(to) - i) ELSE Early(i)

\* A sample is on its way to the sketch.
Fresh == to = <<>> /\ eng.item = "Z" /\ Left = 1

FromInv ==
  /\ task.pc = "idle" => (\A z \in DOMAIN from : from[z] \in Digits) /\ (eng.state = "WRITING" => from = <<>>)
  /\ Sent => from = IF Fresh THEN <<IF addressed.addr = DeviceId THEN "A" ELSE "N">> ELSE <<>>
  /\ task.pc = "write" /\ eng.state = "WRITING" =>
       task.bit = 0 /\ from = IF Fresh THEN <<"A">> ELSE <<>>
  /\ task.pc = "write" /\ eng.state # "WRITING" =>
       (\A z \in DOMAIN from : from[z] \in Digits) \/ (from = <<"N">> /\ task.bit = 0)
  /\ task.pc = "collect" => (\A z \in DOMAIN from : from[z] \in Digits)
  /\ task.pc \in {"write", "collect"} =>
       Len(from) = task.bit \/ (Len(from) = task.bit + 1 /\ Fresh)

\* The device between two calls.
RestDev ==
  /\ eng.state # "DEVID"
  /\ eng.state = "IDLE" => dev.state = "IDLE"
  /\ eng.state = "READING" => dev.state = "ACKNACK"
  /\ eng.state = "WRITING" => dev.state = "WRDATA" /\ dev.i = MSB /\ dev.data = {}

\* SDA is as it will be.
Still == bus.sda <=> ~m.sda /\ ~ssda

Free0 == ~ssda /\ bus.sda

CalmNone == eng.item = None /\ RestDev /\ ~m.sda /\ (eng.state = "IDLE" => Free0)
CalmZ ==
  /\ eng.item = "Z" /\ Left = 1 /\ Still /\ eng.state # "DEVID"
  /\ eng.state = "IDLE" => Free0 /\ dev.state \in {"IDLE", "RETZ"}
  /\ bus.scl => RestDev
  /\ ~bus.scl /\ eng.state = "READING" => dev.state = "READ" /\ dev.i = 0
  /\ ~bus.scl /\ eng.state = "WRITING" => dev.state \in {"ACKWR", "ACKWRD"}
CalmN ==
  /\ eng.item = "N" /\ eng.state = "READING"
  /\ Left > 1 => RestDev
  /\ Left = 1 => Still /\ IF bus.scl THEN dev.state = "IDLE" /\ ~ssda ELSE RestDev
CalmP ==
  /\ eng.item = "P"
  /\ Left = 4 => RestDev /\ (eng.state = "IDLE" => Free0)
  /\ Left = 3 => IF m.scl THEN RestDev /\ ~bus.scl ELSE bus.scl /\ ~ssda
  /\ Left = 2 => IF bus.scl THEN ~ssda ELSE RestDev
  /\ Left = 1 => bus.scl /\ ~ssda /\ (bus.sda => dev.state = "IDLE")
Calm == CalmNone \/ CalmZ \/ CalmN \/ CalmP

Ahead ==
  \/ task.pc = "idle"
  \/ Sent /\ Len(to) >= Bits + 2
  \/ task.pc = "write" /\ Len(to) >= Bits + 1

\* The bits of a byte from position p on.
High(b, p) == {k \in 0..Bits : k + p \in b}

AfterRises(j) ==
  /\ j < Bits => dev.state = "DEVID" /\ dev.i = MSB - j /\ dev.devid = High(Addr, Bits - j)
  /\ j = Bits => dev.state = IF addressed.addr # DeviceId THEN "RETZ" ELSE IF Rw THEN "ACKRD" ELSE "ACKWR"

AddrS ==
  /\ Len(to) = Bits + 1 /\ eng.item = "S"
  /\ Left = 3 => IF bus.scl THEN ~ssda ELSE RestDev
  /\ Left = 2 => bus.scl /\ ~ssda /\ (~bus.sda => AfterRises(0))
  /\ Left = 1 => AfterRises(0)
AddrNone ==
  /\ Len(to) \in 1..(Bits + 1) /\ eng.item = None /\ eng.state = "DEVID"
  /\ AfterRises(Bits + 1 - Len(to))
  /\ Len(to) <= Bits => (eng.rwbit <=> Script(Addr, Len(to)) = "1")
AddrBit ==
  /\ Len(to) \in 1..Bits /\ eng.item = Script(Addr, Len(to)) /\ eng.state = "DEVID"
  /\ Left > 1 => AfterRises(Bits - Len(to))
  /\ Left = 1 => Still /\ IF bus.scl THEN AfterRises(Bits + 1 - Len(to)) ELSE AfterRises(Bits - Len(to))
AddrZ ==
  /\ to = <<>> /\ eng.item = "Z"
  /\ Left = 2 => eng.state = "DEVID" /\ AfterRises(Bits) /\ (eng.rwbit <=> Rw)
  /\ Left = 1 =>
       /\ Still
       /\ addressed.addr # DeviceId => CalmZ /\ eng.state = "IDLE"
       /\ addressed.addr = DeviceId /\ ~Rw => CalmZ /\ eng.state = "WRITING"
       /\ addressed.addr = DeviceId /\ Rw =>
            eng.state = "READING" /\ IF bus.scl THEN dev.state = "READ" /\ dev.i = MSB ELSE dev.state = "ACKRD"
Addressing == Sent /\ (AddrS \/ AddrNone \/ AddrBit \/ AddrZ)

AfterBits(j) ==
  \/ j > 0 /\ dev.state = "IDLE" /\ ~ssda
  \/ /\ j > 0 => MSB \notin task.byte
     /\ j < Bits => dev.state = "WRDATA" /\ dev.i = MSB - j /\ dev.data = High(task.byte, Bits - j)
     /\ j = Bits => dev.state = "ACKWRD" /\ dev.data = task.byte

Lost == Len(to) = Bits /\ MSB \in task.byte /\ bus.scl /\ dev.state = "WRDATA" /\ dev.i = MSB - 1 /\ ~ssda /\ ~bus.sda

SendNone == Len(to) \in 1..Bits /\ eng.item = None /\ eng.state = "WRITING" /\ AfterBits(Bits + 1 - Len(to))
SendBit ==
  /\ Len(to) \in 1..Bits /\ eng.item = Script(task.byte, Len(to)) /\ eng.state = "WRITING"
  /\ Left > 1 => AfterBits(Bits - Len(to))
  /\ Left = 1 => \/ Still /\ IF bus.scl THEN AfterBits(Bits + 1 - Len(to)) ELSE AfterBits(Bits - Len(to))
                 \/ Lost
SendZ ==
  /\ to = <<>> /\ eng.item = "Z" /\ eng.state = "WRITING"
  /\ Left = 2 => AfterBits(Bits)
  /\ Left = 1 => CalmZ /\ (~bus.scl => dev.state = "ACKWRD" /\ dev.data = task.byte)
\* Nobody listens: the items are dropped, or taken for something else.
Deaf ==
  /\ Len(to) <= Bits + 1
  /\ \/ eng.state = "IDLE" /\ (CalmNone \/ CalmZ)
     \/ /\ eng.state = "READING" /\ eng.item \in {None, "0", "1", "Z"}
        /\ eng.item = "Z" /\ Left = 2 => to = <<>>
Sending == task.pc = "write" /\ (SendNone \/ SendBit \/ SendZ \/ Deaf)

\* n bits of the answer are complete bytes.
Whole(n) == n > 0 /\ n % Bits = 0
Reads(n) == dev.state = "READ" /\ dev.i = MSB - (n % Bits)

CollZ ==
  /\ eng.item = "Z"
  /\ Left = 2 => to = <<>> /\ Reads(Len(from))
  /\ Left = 1 =>
       /\ Still
       /\ bus.scl => IF Whole(Len(from)) THEN dev.state = "ACKNACK" ELSE Reads(Len(from))
       /\ ~bus.scl => IF from = <<>> THEN dev.state = "ACKRD" ELSE Reads(Len(from) - 1)
       /\ to = IF Len(from) > task.bit THEN <<>> ELSE IF Whole(Len(from)) THEN <<"A", "Z">> ELSE <<"Z">>
CollNone ==
  /\ eng.item = None
  /\ \/ to = <<"A", "Z">> /\ Whole(Len(from)) /\ dev.state = "ACKNACK"
     \/ to = <<"Z">> /\ Reads(Len(from))
CollA ==
  /\ eng.item = "A" /\ to = <<"Z">> /\ Whole(Len(from))
  /\ Left > 1 => dev.state = "ACKNACK"
  /\ Left = 1 => Still /\ IF bus.scl THEN Reads(Len(from)) ELSE dev.state = "ACKNACK"
Collecting ==
  /\ task.pc = "collect" /\ eng.state = "READING" /\ task.bit < task.size * Bits
  /\ CollZ \/ CollNone \/ CollA

PhaseInv == (Ahead /\ Calm) \/ Addressing \/ Sending \/ Collecting

(***************************************************************************)
(* A byte, its address and its sample in the queue of the engine.          *)
(***************************************************************************)

LEMMA Bits0 == Bits \in Nat /\ Bits > 1 /\ MSB = Bits - 1 /\ MSB \in Nat
  BY BitsAssumption DEF MSB

LEMMA WriteBin ==
  ASSUME NEW b
  PROVE  writebin(b) \in Seq(Items) /\ Len(writebin(b)) = Bits
         /\ \A j \in 1..Bits : writebin(b)[j] = IF Bits - j \in b THEN "1" ELSE "0"
  BY Bits0 DEF writebin, Items


\* r is q and, after it, n - 1 more items, a byte and a sample.
Queued(q, b, n, r) ==
  /\ r \in Seq(Items) /\ Len(r) = Len(q) + Bits + n
  /\ \A i \in 1..Len(q) : r[i] = q[i]
  /\ \A i \in 1..Len(r) : i > Len(q) => r[i] = Script(b, Len(r) - i)

\* What a byte and its sample look like at the end of the queue.
LEMMA ByteAtEnd ==
  ASSUME NEW q \in Seq(Items), NEW b
  PROVE  Queued(q, b, 1, q \o writebin(b) \o <<"Z">>)
<1> DEFINE w == writebin(b)  p == q \o w  r == p \o <<"Z">>
<1>1. w \in Seq(Items) /\ Len(w) = Bits /\ \A j \in 1..Bits : w[j] = IF Bits - j \in b THEN "1" ELSE "0"
  BY WriteBin
<1> HIDE DEF w
<1>2. /\ p \in Seq(Items) /\ Len(p) = Len(q) + Bits
      /\ \A i \in 1..Len(p) : p[i] = IF i <= Len(q) THEN q[i] ELSE w[i - Len(q)]
  BY <1>1, Bits0
<1> HIDE DEF p
<1>3. /\ r \in Seq(Items) /\ Len(r) = Len(p) + 1
      /\ \A i \in 1..Len(r) : r[i] = IF i <= Len(p) THEN p[i] ELSE "Z"
  BY <1>2 DEF Items
<1> HIDE DEF r
<1>4. Len(r) = Len(q) + Bits + 1 /\ \A i \in 1..Len(q) : r[i] = q[i]
  BY <1>2, <1>3, Bits0
<1>5. ASSUME NEW i \in 1..Len(r), i > Len(q) PROVE r[i] = Script(b, Len(r) - i)
  <2>1. CASE i = Len(r)
    BY <1>2, <1>3, <2>1, Bits0 DEF Script
  <2>2. CASE i < Len(r)
    <3>1. i \in 1..Len(p) /\ r[i] = p[i] /\ p[i] = w[i - Len(q)] /\ i - Len(q) \in 1..Bits
      BY <1>2, <1>3, <1>4, <1>5, <2>2, Bits0
    <3>2. Len(r) - i # 0 /\ Len(r) - i # Bits + 1 /\ Len(r) - i - 1 = Bits - (i - Len(q))
      BY <1>2, <1>3, <1>4, <1>5, <2>2, Bits0
    <3> QED
      BY <1>1, <3>1, <3>2 DEF Script
  <2> QED
    BY <1>3, <1>5, <2>1, <2>2
<1> QED
  BY <1>3, <1>4, <1>5 DEF Queued, r, p, w


\* The same with the start that addresses the device.
LEMMA AddressAtEnd ==
  ASSUME NEW q \in Seq(Items), NEW b
  PROVE  Queued(q, b, 2, q \o <<"S">> \o writebin(b) \o <<"Z">>)
<1> DEFINE p == q \o <<"S">>  r == p \o writebin(b) \o <<"Z">>
<1>1. p \in Seq(Items) /\ Len(p) = Len(q) + 1 /\ (\A i \in 1..Len(q) : p[i] = q[i]) /\ p[Len(q) + 1] = "S"
  BY DEF Items
<1> HIDE DEF p
<1>2. /\ r \in Seq(Items) /\ Len(r) = Len(p) + Bits + 1
      /\ \A i \in 1..Len(p) : r[i] = p[i]
      /\ \A i \in 1..Len(r) : i > Len(p) => r[i] = Script(b, Len(r) - i)
  BY <1>1, ByteAtEnd DEF Queued
<1> HIDE DEF r
<1>3. Len(r) = Len(q) + Bits + 2 /\ \A i \in 1..Len(q) : r[i] = q[i]
  BY <1>1, <1>2, Bits0
<1>4. ASSUME NEW i \in 1..Len(r), i > Len(q) PROVE r[i] = Script(b, Len(r) - i)
  <2>1. CASE i = Len(q) + 1
    BY <1>1, <1>2, <1>3, <2>1, Bits0 DEF Script
  <2>2. CASE i > Len(q) + 1
    BY <1>1, <1>2, <1>3, <2>2, Bits0
  <2> QED
    BY <1>2, <1>3, <1>4, <2>1, <2>2
<1> QED
  BY <1>2, <1>3, <1>4 DEF Queued, r, p

(***************************************************************************)
(* The sketch: the invariant when a call begins, when it is refused, and   *)
(* when the sketch takes bytes.                                            *)
(***************************************************************************)

\* The inductive invariant of a transfer.
WireInv == TypeInv /\ EngInv /\ PortInv /\ ToInv /\ FromInv /\ PhaseInv

\* The engine and the lines do not change.
LEMMA WiresSame ==
  ASSUME UNCHANGED <<eng, m, bus, ssda, dev>>
  PROVE  (EngInv => EngInv') /\ (PortInv => PortInv') /\ (Calm => Calm') /\ Left' = Left
<1>1. EngInv => EngInv'
  BY DEF EngInv, StartWave, StopWave, SampleWave, BitWave
<1>2. PortInv => PortInv'
  BY DEF PortInv, Drive
<1>3. Calm => Calm'
  <2>1. (RestDev <=> RestDev') /\ (Still <=> Still') /\ (Free0 <=> Free0') /\ Left' = Left
    BY DEF RestDev, Still, Free0, Left
  <2>2. /\ CalmNone => CalmNone'
        /\ CalmZ => CalmZ'
        /\ CalmN => CalmN'
        /\ CalmP => CalmP'
    BY <2>1 DEF CalmNone, CalmZ, CalmN, CalmP
  <2> QED
    BY <2>2 DEF Calm
<1> QED
  BY <1>1, <1>2, <1>3 DEF Left

LEMMA ShiftBits == ASSUME NEW x PROVE Shift(x, TRUE) = Up(x) \cup {0} /\ Shift(x, FALSE) = Up(x)
<1>1. (IF TRUE THEN {0} ELSE {}) = {0} /\ (IF FALSE THEN {0} ELSE {}) = {} /\ Up(x) \cup {} = Up(x)
  OBVIOUS
<1>2. Shift(x, TRUE) = Up(x) \cup {0}
  BY <1>1, Zenon DEF Shift, Up
<1>3. Shift(x, FALSE) = Up(x)
  BY <1>1, Zenon DEF Shift, Up
<1> QED
  BY <1>2, <1>3

\* A call that addresses the device queues a start, the address and a sample.
LEMMA Called ==
  ASSUME WireInv, task.pc = "idle", ~Hasty, Paced, NEW a \in SUBSET (0..(Bits - 2)), NEW pc \in {"begin", "request"}, NEW b,
         b = IF pc = "request" THEN Up(a) \cup {0} ELSE Up(a),
         to' = to \o <<"S">> \o writebin(b) \o <<"Z">>, from' = <<>>,
         task' \in [pc : Calls, byte : Byte, size : Nat, stop : BOOLEAN, bit : Nat],
         task'.pc = pc, task'.bit = 0, pc = "request" => task'.size > 0,
         addressed' = [addr |-> a, ok |-> FALSE],
         UNCHANGED <<eng, m, bus, ssda, dev>>
  PROVE  WireInv'
<1>1. /\ task' \in [pc : Calls, byte : Byte, size : Nat, stop : BOOLEAN, bit : Nat]
      /\ task'.pc = pc /\ task'.bit = 0
  OBVIOUS
<1>2. /\ to' \in Seq(Items) /\ Len(to') = Len(to) + Bits + 2
      /\ \A i \in 1..Len(to) : to'[i] = to[i]
      /\ \A i \in 1..Len(to') : i > Len(to) => to'[i] = Script(b, Len(to') - i)
  <2>1. to \in Seq(Items)
    BY DEF WireInv, TypeInv
  <2> QED
    <3>1. Queued(to, b, 2, to \o <<"S">> \o writebin(b) \o <<"Z">>)
      BY <2>1, AddressAtEnd, Zenon
    <3>2. Queued(to, b, 2, to')
      BY <3>1, Zenon
    <3> QED
      BY <3>2 DEF Queued
<1>3. TypeInv'
  <2>1. addressed' \in [addr : {None} \cup SUBSET (0..(Bits - 2)), ok : BOOLEAN]
    OBVIOUS
  <2>2. from' \in Seq(Items)
    OBVIOUS
  <2>3. /\ eng' = [state |-> eng'.state, item |-> eng'.item, wave |-> eng'.wave, rwbit |-> eng'.rwbit]
        /\ eng'.state \in States /\ eng'.item \in Items \cup {None} /\ eng'.rwbit \in BOOLEAN
        /\ m' \in Lines /\ bus' \in Lines /\ ssda' \in BOOLEAN /\ dev' \in DevType
    BY DEF WireInv, TypeInv
  <2> QED
    BY <1>1, <1>2, <2>1, <2>2, <2>3 DEF TypeInv
<1>4. EngInv' /\ PortInv' /\ Left' = Left
  BY WiresSame DEF WireInv
<1>5. addressed'.addr = a
  OBVIOUS
<1>6. Addr' = b
  BY <1>1, <1>5 DEF Addr, Rw
<1>7. Sent' /\ task'.pc # "idle" /\ task'.pc # "write" /\ task'.pc # "collect"
  BY <1>1 DEF Sent
<1>8. to \in Seq(Items) /\ Len(to) \in Nat /\ \A i \in 1..Len(to) : Early(i)
  BY DEF WireInv, TypeInv, ToInv
<1>9. ToInv'
  <2>1. ASSUME NEW i \in 1..Len(to'), ~(Len(to') - i <= Bits + 1) PROVE Early(i)'
    <3>1. i \in 1..Len(to)
      BY <1>2, <1>8, <2>1, Bits0
    <3>2. Early(i)
      BY <1>8, <3>1
    <3>3. to'[i] = to[i] /\ (i = 1 => to'[1] = to[1])
      BY <1>2, <3>1
    <3> QED
      BY <3>2, <3>3 DEF Early
  <2>2. ASSUME NEW i \in 1..Len(to'), Len(to') - i <= Bits + 1 PROVE to'[i] = Script(b, Len(to') - i)
    <3>1. i > Len(to)
      BY <1>2, <1>8, <2>2, Bits0
    <3> QED
      BY <1>2, <2>2, <3>1
  <2>3. Len(to') > Bits + 2 => to'[Len(to') - Bits - 2] = "P"
    <3> SUFFICES ASSUME Len(to) > 0 PROVE to'[Len(to)] = "P"
      BY <1>2, <1>8, Bits0
    <3>0. to # <<>>
      BY <1>8
    <3>1. Last(to) = "P"
      BY <3>0, Zenon DEF Paced
    <3> QED
      BY <1>2, <1>8, <3>1 DEF Last
  <2>4. Len(to') = Bits + 2 => eng'.item = "P" \/ eng'.state = "IDLE" \/ (eng'.item = None /\ Settled')
    BY <1>2, <1>8, Bits0 DEF Paced, Settled, Resolved
  <2>5. ASSUME NEW i \in 1..Len(to')
        PROVE  IF Len(to') - i <= Bits + 1 THEN to'[i] = Script(Addr', Len(to') - i) ELSE Early(i)'
    BY <1>6, <2>1, <2>2
  <2>6. addressed'.addr \in SUBSET (0..(Bits - 2)) /\ task'.bit = 0 /\ (Rw' => task'.size > 0)
    BY <1>1, <1>5 DEF Rw
  <2> QED
    BY <1>7, <2>3, <2>4, <2>5, <2>6 DEF ToInv
<1>10. FromInv'
  BY <1>2, <1>7, <1>8, Bits0 DEF FromInv, Fresh
<1>11. PhaseInv'
  <2>1. Ahead /\ Calm
    BY DEF WireInv, PhaseInv, Ahead, Addressing, Sending, Collecting, Sent
  <2>2. Ahead'
    BY <1>2, <1>7, <1>8, Bits0 DEF Ahead
  <2> QED
    BY <2>1, <2>2, WiresSame DEF PhaseInv
<1> QED
  BY <1>3, <1>4, <1>9, <1>10, <1>11 DEF WireInv

\* Between two calls, only the FIFOs change.
LEMMA Rested ==
  ASSUME WireInv, task.pc = "idle", task' = task, UNCHANGED <<addressed, eng, m, bus, ssda, dev>>,
         to' \in Seq(Items), from' \in Seq(Items),
         \A i \in 1..Len(to') : Early(i)',
         \A z \in DOMAIN from' : from'[z] \in Digits,
         eng.state = "WRITING" => from' = <<>>
  PROVE  WireInv'
<1>1. TypeInv'
  BY DEF WireInv, TypeInv
<1>2. EngInv' /\ PortInv'
  BY WiresSame DEF WireInv
<1>3. task'.pc = "idle" /\ ~Sent'
  BY DEF Sent
<1>4. ToInv'
  BY <1>3 DEF ToInv
<1>5. FromInv'
  BY <1>3 DEF FromInv
<1>6. PhaseInv'
  <2>1. Calm
    BY DEF WireInv, PhaseInv, Ahead, Addressing, Sending, Collecting, Sent
  <2> QED
    BY <2>1, <1>3, WiresSame DEF PhaseInv, Ahead
<1> QED
  BY <1>1, <1>2, <1>4, <1>5, <1>6 DEF WireInv

LEMMA Unchanged ==
  ASSUME WireInv, UNCHANGED <<task, to, from, addressed, eng, m, bus, ssda, dev>>
  PROVE  WireInv'
<1>1. /\ TypeInv' = TypeInv /\ EngInv' = EngInv /\ PortInv' = PortInv
      /\ ToInv' = ToInv /\ FromInv' = FromInv /\ PhaseInv' = PhaseInv
  BY DEF TypeInv, EngInv, StartWave, StopWave, SampleWave, BitWave, PortInv, Drive, ToInv, FromInv, PhaseInv,
     Early, Sent, Fresh, Left, Rw, Addr, Settled, Resolved, Ahead, Calm, CalmNone, CalmZ, CalmN, CalmP,
     RestDev, Still, Free0, AfterRises, Addressing, AddrS, AddrNone, AddrBit, AddrZ, Sending, SendNone,
     SendBit, SendZ, Deaf, AfterBits, Lost, Collecting, CollZ, CollNone, CollA, Reads
<1> QED
  BY <1>1 DEF WireInv

\* What holds between two calls.
LEMMA AtRest ==
  ASSUME WireInv, task.pc = "idle"
  PROVE  /\ to \in Seq(Items) /\ from \in Seq(Items) /\ Len(to) \in Nat
         /\ \A i \in 1..Len(to) : Early(i)
         /\ \A z \in DOMAIN from : from[z] \in Digits
         /\ eng.state = "WRITING" => from = <<>>
  BY DEF WireInv, TypeInv, ToInv, FromInv

\* A call that is reported as an error, or drops the queues.
LEMMA Dropped ==
  ASSUME WireInv, task.pc = "idle", from' = <<>>, task' = task, to' \in {to, <<>>},
         UNCHANGED <<addressed, eng, m, bus, ssda, dev>>
  PROVE  WireInv'
<1>1. to' \in Seq(Items) /\ from' \in Seq(Items)
  <2>1. to \in Seq(Items)
    BY AtRest
  <2>2. <<>> \in Seq(Items)
    OBVIOUS
  <2> QED
    BY <2>1, <2>2
<1>2. \A z \in DOMAIN from' : from'[z] \in Digits
  OBVIOUS
<1>3. \A i \in 1..Len(to') : Early(i)'
  <2> SUFFICES ASSUME to' = to, NEW i \in 1..Len(to) PROVE Early(i)'
    OBVIOUS
  <2>1. Early(i)
    BY AtRest
  <2> QED
    BY <2>1 DEF Early
<1> QED
  BY <1>1, <1>2, <1>3, Rested

LEMMA RequestInv ==
  ASSUME WireInv, ~Hasty, NEW a \in Addrs, NEW n \in Sizes, NEW stop \in BOOLEAN, requestFrom(a, n, stop)
  PROVE  WireInv'
<1>1. task.pc = "idle" /\ Paced /\ from' = <<>> /\ UNCHANGED <<eng, m, bus, ssda, dev>>
  BY DEF requestFrom, Dump, port
<1>2. a \in SUBSET (0..(Bits - 2)) /\ n \in Nat /\ n > 0
  BY UseAssumption
<1>3. CASE NoRoom(n)
  <2>1. task' = task /\ to' = to /\ addressed' = addressed
    BY <1>3 DEF requestFrom, Report
  <2> QED
    BY <1>1, <2>1, Dropped
<1>4. CASE ~NoRoom(n)
  <2>1. PICK b : b = Shift(a, TRUE) /\ to' = to \o <<"S">> \o writebin(b) \o <<"Z">>
    BY <1>4, Zenon DEF requestFrom
  <2>2. b = Up(a) \cup {0}
    BY <2>1, ShiftBits, Zenon
  <2>3. /\ task' = [Idle EXCEPT !.pc = "request", !.size = n, !.stop = stop]
        /\ addressed' = [addr |-> a, ok |-> FALSE]
    BY <1>4, Zenon DEF requestFrom
  <2>4. task' \in [pc : Calls, byte : Byte, size : Nat, stop : BOOLEAN, bit : Nat]
        /\ task'.pc = "request" /\ task'.bit = 0 /\ task'.size > 0
    BY <1>2, <2>3 DEF Idle, Calls, Byte
  <2>5. \A pc \in {"begin", "request"} :
          b = (IF pc = "request" THEN Up(a) \cup {0} ELSE Up(a)) /\ task'.pc = pc /\ (pc = "request" => task'.size > 0) => WireInv'
    BY <1>1, <1>2, <2>1, <2>3, <2>4, Called, Zenon
  <2>6. "request" \in {"begin", "request"} /\ b = (IF "request" = "request" THEN Up(a) \cup {0} ELSE Up(a))
    BY <2>2
  <2> QED
    BY <2>4, <2>5, <2>6, Zenon
<1> QED
  BY <1>3, <1>4

LEMMA BeginInv ==
  ASSUME WireInv, ~Hasty, NEW a \in Addrs, beginTransmission(a)
  PROVE  WireInv'
<1>1. task.pc = "idle" /\ Paced /\ from' = <<>> /\ UNCHANGED <<eng, m, bus, ssda, dev>>
  BY DEF beginTransmission, Dump, port
<1>2. a \in SUBSET (0..(Bits - 2)) /\ 0 \in Nat /\ FALSE \in BOOLEAN
  BY UseAssumption
<1>3. CASE Free(to) < Bits + 2
  <2>1. task' = task /\ to' = to /\ addressed' = addressed
    BY <1>3 DEF beginTransmission, Report
  <2> QED
    BY <1>1, <2>1, Dropped
<1>4. CASE ~(Free(to) < Bits + 2)
  <2>1. PICK b : b = Shift(a, FALSE) /\ to' = to \o <<"S">> \o writebin(b) \o <<"Z">>
    BY <1>4, Zenon DEF beginTransmission
  <2>2. b = Up(a)
    BY <2>1, ShiftBits, Zenon
  <2>3. /\ task' = [Idle EXCEPT !.pc = "begin"]
        /\ addressed' = [addr |-> a, ok |-> FALSE]
    BY <1>4, Zenon DEF beginTransmission
  <2>4. task' \in [pc : Calls, byte : Byte, size : Nat, stop : BOOLEAN, bit : Nat]
        /\ task'.pc = "begin" /\ task'.bit = 0
    BY <2>3 DEF Idle, Calls, Byte
  <2>5. \A pc \in {"begin", "request"} :
          b = (IF pc = "request" THEN Up(a) \cup {0} ELSE Up(a)) /\ task'.pc = pc /\ (pc = "request" => task'.size > 0) => WireInv'
    BY <1>1, <1>2, <2>1, <2>3, <2>4, Called, Zenon
  <2>6. "begin" \in {"begin", "request"} /\ "begin" # "request" /\ b = (IF "begin" = "request" THEN Up(a) \cup {0} ELSE Up(a))
    BY <2>2
  <2> QED
    BY <2>4, <2>5, <2>6, Zenon
<1> QED
  BY <1>3, <1>4

LEMMA EndInv ==
  ASSUME WireInv, NEW stop \in BOOLEAN, endTransmission(stop)
  PROVE  WireInv'
<1>1. task.pc = "idle" /\ task' = task /\ from' = from /\ UNCHANGED <<addressed, eng, m, bus, ssda, dev>>
  BY DEF endTransmission, port, hist
<1>2. to' = to \/ to' = Append(to, "P")
  BY DEF endTransmission
<1>3. to' \in Seq(Items) /\ from' \in Seq(Items)
  BY <1>1, <1>2, AtRest DEF Items
<1>4. \A i \in 1..Len(to') : Early(i)'
  <2> SUFFICES ASSUME NEW i \in 1..Len(to') PROVE Early(i)'
    OBVIOUS
  <2>1. CASE i \in 1..Len(to)
    <3>1. Early(i)
      BY <1>1, <2>1, AtRest
    <3>0. to \in Seq(Items)
      BY <1>1, AtRest
    <3>2. to'[i] = to[i]
      BY <1>2, <2>1, <3>0
    <3> QED
      BY <1>1, <3>1, <3>2 DEF Early
  <2>2. CASE i \notin 1..Len(to)
    <3>1. to'[i] = "P"
      BY <1>1, <1>2, <2>2, AtRest
    <3> QED
      BY <3>1 DEF Early
  <2> QED
    BY <2>1, <2>2
<1> QED
  BY <1>1, <1>3, <1>4, AtRest, Rested

LEMMA FlushInv == ASSUME WireInv, flush PROVE WireInv'
<1>1. /\ task.pc = "idle" /\ from' = <<>> /\ task' = task /\ to' = <<>>
      /\ UNCHANGED <<addressed, eng, m, bus, ssda, dev>>
  BY DEF flush, Dump, wire, port
<1> QED
  BY <1>1, Dropped

\* peek and read take a byte of the answer.
LEMMA TakenInv == ASSUME WireInv, peek \/ read PROVE WireInv'
<1>1. task.pc = "idle" /\ task' = task /\ to' = to /\ UNCHANGED <<addressed, eng, m, bus, ssda, dev>>
  BY DEF peek, read, port
<1>2. from' = from \/ (Len(from) >= Bits /\ from' = SubSeq(from, Bits + 1, Len(from)))
  BY DEF peek, read
<1>3. from' \in Seq(Items) /\ (\A z \in DOMAIN from' : from'[z] \in Digits) /\ (from = <<>> => from' = <<>>)
  <2>1. ASSUME Len(from) >= Bits, from' = SubSeq(from, Bits + 1, Len(from))
        PROVE  /\ from' \in Seq(Items) /\ from # <<>>
               /\ \A z \in DOMAIN from' : z \in Nat /\ z + Bits \in DOMAIN from /\ from'[z] = from[z + Bits]
    <3>1. from \in Seq(Items) /\ Len(from) \in Nat /\ DOMAIN from = 1..Len(from)
      BY <1>1, AtRest
    <3> QED
      BY <2>1, <3>1, Bits0
  <2> QED
    BY <1>1, <1>2, <2>1, AtRest
<1>4. \A i \in 1..Len(to') : Early(i)'
  <2> SUFFICES ASSUME NEW i \in 1..Len(to) PROVE Early(i)'
    BY <1>1
  <2>1. Early(i)
    BY <1>1, AtRest
  <2> QED
    BY <1>1, <2>1 DEF Early
<1> QED
  BY <1>1, <1>3, <1>4, AtRest, Rested

(***************************************************************************)
(* The sketch goes on when an answer is there.                             *)
(***************************************************************************)

\* Bits and whole bytes.
LEMMA DivBits ==
  ASSUME NEW n \in Nat
  PROVE  /\ n \div Bits \in Nat /\ n % Bits \in 0..(Bits - 1) /\ n = (Bits * (n \div Bits)) + (n % Bits)
  BY Bits0

LEMMA DivOnly ==
  ASSUME NEW q \in Int, NEW r \in 0..(Bits - 1), NEW n \in Nat, n = (Bits * q) + r
  PROVE  n \div Bits = q /\ n % Bits = r
<1> DEFINE d == n \div Bits  s == n % Bits
<1>1. d \in Int /\ s \in 0..(Bits - 1) /\ n = (Bits * d) + s
  BY DivBits
<1> HIDE DEF d, s
<1>2. Bits * (q - d) = s - r
  BY <1>1, Bits0
<1>3. ASSUME NEW k \in Int, k >= 1 PROVE Bits * k >= Bits
  BY <1>3, Bits0
<1>4. ~(q - d >= 1)
  <2> SUFFICES ASSUME q - d >= 1 PROVE FALSE
    OBVIOUS
  <2>1. Bits * (q - d) >= Bits
    BY <1>1, <1>3
  <2> QED
    BY <1>1, <1>2, <2>1, Bits0
<1>5. ~(d - q >= 1)
  <2> SUFFICES ASSUME d - q >= 1 PROVE FALSE
    OBVIOUS
  <2>1. Bits * (d - q) >= Bits
    BY <1>1, <1>3
  <2>2. Bits * (d - q) = r - s
    BY <1>1, Bits0
  <2> QED
    BY <1>1, <2>1, <2>2, Bits0
<1>6. d = q
  BY <1>1, <1>4, <1>5
<1>7. s = r
  BY <1>1, <1>6, Bits0
<1> QED
  BY <1>6, <1>7 DEF d, s

LEMMA NextBit ==
  ASSUME NEW n \in Nat
  PROVE  /\ n % Bits = Bits - 1 => (n + 1) % Bits = 0
         /\ n % Bits # Bits - 1 => (n + 1) % Bits = (n % Bits) + 1
         /\ 0 % Bits = 0
<1> DEFINE q == n \div Bits  r == n % Bits
<1>1. q \in Nat /\ r \in 0..(Bits - 1) /\ n = (Bits * q) + r
  BY DivBits
<1> HIDE DEF q, r
<1>2. ASSUME r = Bits - 1 PROVE (n + 1) % Bits = 0
  <2>1. n + 1 = Bits * (q + 1) + 0 /\ q + 1 \in Int /\ 0 \in 0..(Bits - 1) /\ n + 1 \in Nat
    BY <1>1, <1>2, Bits0
  <2> QED
    BY <2>1, DivOnly
<1>3. ASSUME r # Bits - 1 PROVE (n + 1) % Bits = r + 1
  <2>1. n + 1 = Bits * q + (r + 1) /\ q \in Int /\ r + 1 \in 0..(Bits - 1) /\ n + 1 \in Nat
    BY <1>1, <1>3, Bits0
  <2> QED
    BY <2>1, DivOnly
<1>4. 0 % Bits = 0
  <2>1. 0 = Bits * 0 + 0 /\ 0 \in Int /\ 0 \in 0..(Bits - 1) /\ 0 \in Nat
    BY Bits0
  <2> QED
    BY <2>1, DivOnly
<1> QED
  BY <1>2, <1>3, <1>4 DEF q, r

\* The last bit of an answer, and no other, ends its last byte.
LEMMA LastBit ==
  ASSUME NEW n \in Nat, NEW s \in Nat
  PROVE  /\ n < s * Bits /\ n % Bits = 0 => n \div Bits # s
         /\ n = s * Bits => n % Bits = 0 /\ n \div Bits = s
<1>1. n < s * Bits /\ n % Bits = 0 => n \div Bits # s
  <2> SUFFICES ASSUME n < s * Bits, n % Bits = 0, n \div Bits = s PROVE FALSE
    OBVIOUS
  <2>1. n = Bits * s
    BY DivBits, Bits0
  <2> QED
    BY <2>1, Bits0
<1>2. n = s * Bits => n % Bits = 0 /\ n \div Bits = s
  <2> SUFFICES ASSUME n = s * Bits PROVE n % Bits = 0 /\ n \div Bits = s
    OBVIOUS
  <2>1. n = Bits * s + 0 /\ s \in Int /\ 0 \in 0..(Bits - 1)
    BY Bits0
  <2> QED
    BY <2>1, DivOnly
<1> QED
  BY <1>1, <1>2

\* The type invariant when a call goes on.
LEMMA ResumeType ==
  ASSUME WireInv, task' \in [pc : Calls, byte : Byte, size : Nat, stop : BOOLEAN, bit : Nat],
         to' \in Seq(Items), from' \in Seq(Items),
         addressed' \in [addr : {None} \cup SUBSET (0..(Bits - 2)), ok : BOOLEAN],
         UNCHANGED <<eng, m, bus, ssda, dev>>
  PROVE  TypeInv' /\ EngInv' /\ PortInv' /\ (Calm => Calm') /\ Left' = Left
  BY WiresSame DEF WireInv, TypeInv

\* An answer is there only while it is fresh.
LEMMA Woke ==
  ASSUME WireInv, task.pc # "idle", Len(from) > task.bit
  PROVE  /\ Fresh /\ to = <<>> /\ from # <<>> /\ from \in Seq(Items) /\ Len(from) = task.bit + 1 /\ eng.item # None
         /\ Sent => AddrZ /\ task.bit = 0 /\ from = <<IF addressed.addr = DeviceId THEN "A" ELSE "N">>
         /\ task.pc = "write" => IF eng.state = "WRITING" THEN Calm /\ from = <<"A">> /\ task.bit = 0 ELSE Deaf
         /\ task.pc = "collect" => eng.state = "READING" /\ task.bit < task.size * Bits /\ CollZ
<1>1. task.pc \in {"begin", "request", "write", "collect"} /\ from \in Seq(Items) /\ task.bit \in Nat /\ Len(from) \in Nat
  BY DEF WireInv, TypeInv, Calls
<1>2. Fresh
  <2>1. CASE Sent
    <3>1. task.bit = 0 /\ from = IF Fresh THEN <<IF addressed.addr = DeviceId THEN "A" ELSE "N">> ELSE <<>>
      BY <2>1 DEF WireInv, FromInv, ToInv
    <3> QED
      BY <3>1
  <2>2. CASE task.pc \in {"write", "collect"}
    BY <1>1, <2>2 DEF WireInv, FromInv
  <2> QED
    BY <1>1, <2>1, <2>2 DEF Sent
<1>3. Len(from) = task.bit + 1
  <2>1. CASE Sent
    <3>1. task.bit = 0 /\ from = <<IF addressed.addr = DeviceId THEN "A" ELSE "N">>
      BY <2>1, <1>2 DEF WireInv, FromInv, ToInv
    <3> QED
      BY <3>1
  <2>2. CASE task.pc \in {"write", "collect"}
    BY <1>1, <2>2 DEF WireInv, FromInv
  <2> QED
    BY <1>1, <2>1, <2>2 DEF Sent
<1>4. to = <<>> /\ eng.item = "Z" /\ eng.item # None /\ Left = 1 /\ Len(to) = 0
  BY <1>2, NoneAssumption DEF Fresh
<1>5. ~Ahead
  BY <1>4, Bits0 DEF Ahead
<1>6. Sent => AddrZ /\ task.bit = 0 /\ from = <<IF addressed.addr = DeviceId THEN "A" ELSE "N">>
  <2> SUFFICES ASSUME Sent PROVE AddrZ /\ task.bit = 0 /\ from = <<IF addressed.addr = DeviceId THEN "A" ELSE "N">>
    OBVIOUS
  <2>1. Addressing
    BY <1>5 DEF WireInv, PhaseInv, Sending, Collecting, Sent
  <2>2. AddrZ
    BY <2>1, <1>4, Bits0 DEF Addressing, AddrS, AddrNone, AddrBit
  <2> QED
    BY <2>2, <1>2 DEF WireInv, FromInv, ToInv
<1>7. task.pc = "write" => IF eng.state = "WRITING" THEN Calm /\ from = <<"A">> /\ task.bit = 0 ELSE Deaf
  <2> SUFFICES ASSUME task.pc = "write" PROVE IF eng.state = "WRITING" THEN Calm /\ from = <<"A">> /\ task.bit = 0 ELSE Deaf
    OBVIOUS
  <2>1. SendZ \/ Deaf
    BY <1>5, <1>4, Bits0 DEF WireInv, PhaseInv, Sending, Collecting, Addressing, Sent, SendNone, SendBit
  <2>2. SendZ => Calm /\ eng.state = "WRITING"
    BY <1>4 DEF SendZ, Calm
  <2>3. Deaf => eng.state # "WRITING"
    BY DEF Deaf
  <2> QED
    BY <1>2, <2>1, <2>2, <2>3 DEF WireInv, FromInv
<1>8. task.pc = "collect" => eng.state = "READING" /\ task.bit < task.size * Bits /\ CollZ
  BY <1>4, <1>5 DEF WireInv, PhaseInv, Sending, Collecting, Addressing, Sent, CollNone, CollA
<1> QED
  BY <1>2, <1>3, <1>4, <1>1, <1>6, <1>7, <1>8

LEMMA AddressInv == ASSUME WireInv, AddressAnswered PROVE WireInv'
<1>1. /\ task.pc \in {"begin", "request"} /\ Len(from) > task.bit
      /\ from' = Tail(from) /\ addressed' = [addressed EXCEPT !.ok = Head(from) = "A"]
      /\ IF task.pc = "request" /\ Head(from) = "A"
         THEN task' = [task EXCEPT !.pc = "collect"] /\ to' = Append(to, "Z")
         ELSE task' = Idle /\ UNCHANGED to
      /\ UNCHANGED <<eng, m, bus, ssda, dev>>
  BY DEF AddressAnswered, port
<1>2. /\ Sent /\ Fresh /\ to = <<>> /\ eng.item # None /\ AddrZ /\ task.bit = 0
      /\ from = <<IF addressed.addr = DeviceId THEN "A" ELSE "N">>
  BY <1>1, Woke DEF Sent
<1>3. task \in [pc : Calls, byte : Byte, size : Nat, stop : BOOLEAN, bit : Nat]
      /\ addressed \in [addr : {None} \cup SUBSET (0..(Bits - 2)), ok : BOOLEAN]
  BY DEF WireInv, TypeInv
<1>4. from' = <<>> /\ (Head(from) = "A" <=> addressed.addr = DeviceId)
  BY <1>1, <1>2
<1>5. addressed' \in [addr : {None} \cup SUBSET (0..(Bits - 2)), ok : BOOLEAN]
  <2>1. PICK ok : ok = (Head(from) = "A") /\ addressed' = [addressed EXCEPT !.ok = ok]
    BY <1>1, Zenon
  <2>2. ok \in BOOLEAN
    BY <2>1
  <2> QED
    BY <1>3, <2>1, <2>2
<1>6. eng.item = "Z" /\ Left = 1
  BY <1>2 DEF Fresh
<1>7. CASE task.pc = "request" /\ addressed.addr = DeviceId
  <2>1. task' = [task EXCEPT !.pc = "collect"] /\ to' = <<"Z">>
    BY <1>1, <1>2, <1>4, <1>7
  <2>2. /\ task' \in [pc : Calls, byte : Byte, size : Nat, stop : BOOLEAN, bit : Nat]
        /\ task'.pc = "collect" /\ task'.bit = 0 /\ task'.size = task.size /\ task.size > 0 /\ task.size \in Nat
    BY <1>2, <1>3, <1>7, <2>1 DEF Calls, WireInv, ToInv, Rw
  <2>3. to' \in Seq(Items) /\ from' \in Seq(Items) /\ Len(from') = 0 /\ DOMAIN from' = {}
    BY <1>4, <2>1 DEF Items
  <2>4. TypeInv' /\ EngInv' /\ PortInv' /\ Left' = 1
    BY <1>1, <1>5, <1>6, <2>2, <2>3, ResumeType
  <2>5. ToInv' /\ FromInv'
    BY <2>2, <2>3 DEF ToInv, FromInv, Sent
  <2>6. PhaseInv'
    <3>1. Still' /\ eng'.state = "READING" /\ eng'.item = "Z"
      BY <1>1, <1>2, <1>6, <1>7 DEF AddrZ, Still, Rw
    <3>2. IF bus'.scl THEN dev'.state = "READ" /\ dev'.i = MSB ELSE dev'.state = "ACKRD"
      BY <1>1, <1>2, <1>6, <1>7 DEF AddrZ, Rw
    <3>3. task'.bit < task'.size * Bits
      BY <2>2, Bits0
    <3>4. CollZ'
      <4>1. Reads(Len(from))' <=> (dev'.state = "READ" /\ dev'.i = MSB)
        <5>1. Len(from') % Bits = 0
          BY <2>3, NextBit
        <5> QED
          BY <5>1, Bits0 DEF Reads
      <4>2. to' = IF Len(from') > task'.bit THEN <<>> ELSE IF Whole(Len(from')) THEN <<"A", "Z">> ELSE <<"Z">>
        BY <2>1, <2>2, <2>3 DEF Whole
      <4>3. ~Whole(Len(from'))
        BY <2>3 DEF Whole
      <4> QED
        BY <1>4, <2>4, <3>1, <3>2, <4>1, <4>2, <4>3 DEF CollZ
    <3> QED
      BY <2>2, <3>1, <3>3, <3>4 DEF PhaseInv, Collecting
  <2> QED
    BY <2>4, <2>5, <2>6 DEF WireInv
<1>8. CASE ~(task.pc = "request" /\ addressed.addr = DeviceId)
  <2>1. task' = Idle /\ to' = <<>>
    BY <1>1, <1>2, <1>4, <1>8
  <2>2. /\ task' \in [pc : Calls, byte : Byte, size : Nat, stop : BOOLEAN, bit : Nat] /\ task'.pc = "idle"
        /\ to' \in Seq(Items) /\ from' \in Seq(Items) /\ Len(to') = 0 /\ DOMAIN from' = {}
    BY <1>4, <2>1 DEF Calls, Byte, Idle
  <2>3. TypeInv' /\ EngInv' /\ PortInv' /\ (Calm => Calm')
    BY <1>1, <1>5, <2>2, ResumeType
  <2>4. ToInv' /\ FromInv'
    BY <1>4, <2>2 DEF ToInv, FromInv, Sent
  <2>5. Calm
    BY <1>1, <1>2, <1>6, <1>8 DEF AddrZ, Calm, Rw
  <2> QED
    BY <2>2, <2>3, <2>4, <2>5 DEF WireInv, PhaseInv, Ahead
<1> QED
  BY <1>7, <1>8

LEMMA WriteInv == ASSUME WireInv, NEW b \in Values, write(b) PROVE WireInv'
<1>1. /\ task.pc = "idle" /\ from' = from /\ addressed' = addressed /\ UNCHANGED <<eng, m, bus, ssda, dev>>
      /\ IF Free(to) < Bits + 1 \/ Free(from) < 1 THEN task' = task /\ to' = to
         ELSE to' = to \o writebin(b) \o <<"Z">> /\ task' = [Idle EXCEPT !.pc = "write", !.byte = b, !.bit = Len(from)]
  BY DEF write, Report, port
<1>2. CASE Free(to) < Bits + 1 \/ Free(from) < 1
  BY <1>1, <1>2, Unchanged
<1>3. CASE ~(Free(to) < Bits + 1 \/ Free(from) < 1)
  <2>1. to' = to \o writebin(b) \o <<"Z">> /\ task' = [Idle EXCEPT !.pc = "write", !.byte = b, !.bit = Len(from)]
    BY <1>1, <1>3
  <2>2. Queued(to, b, 1, to')
    <3>1. to \in Seq(Items)
      BY <1>1, AtRest
    <3>2. Queued(to, b, 1, to \o writebin(b) \o <<"Z">>)
      BY <3>1, ByteAtEnd, Zenon
    <3> QED
      BY <2>1, <3>2, Zenon
  <2>3. /\ to \in Seq(Items) /\ to' \in Seq(Items) /\ Len(to) \in Nat /\ Len(to') = Len(to) + Bits + 1
        /\ \A i \in 1..Len(to) : to'[i] = to[i]
        /\ \A i \in 1..Len(to') : i > Len(to) => to'[i] = Script(b, Len(to') - i)
    BY <1>1, <2>2, AtRest DEF Queued
  <2>4. from \in Seq(Items) /\ Len(from) \in Nat /\ from' = from
    BY <1>1, AtRest
  <2>5. /\ task' \in [pc : Calls, byte : Byte, size : Nat, stop : BOOLEAN, bit : Nat]
        /\ task'.pc = "write" /\ task'.byte = b /\ task'.bit = Len(from)
    BY <2>1, <2>4, UseAssumption DEF Idle, Calls, Byte
  <2>6. TypeInv' /\ EngInv' /\ PortInv' /\ (Calm => Calm')
    <3>1. addressed' \in [addr : {None} \cup SUBSET (0..(Bits - 2)), ok : BOOLEAN]
      BY <1>1 DEF WireInv, TypeInv
    <3> QED
      BY <1>1, <2>3, <2>4, <2>5, <3>1, ResumeType
  <2>7. ToInv'
    <3>1. ASSUME NEW i \in 1..Len(to')
          PROVE  IF Len(to') - i <= Bits THEN to'[i] = Script(b, Len(to') - i) ELSE Early(i)'
      <4>1. CASE Len(to') - i <= Bits
        <5>1. i > Len(to)
          BY <2>3, <4>1, Bits0
        <5> QED
          BY <2>3, <4>1, <5>1
      <4>2. CASE ~(Len(to') - i <= Bits)
        <5>1. i \in 1..Len(to)
          BY <2>3, <4>2, Bits0
        <5>2. Early(i) /\ to'[i] = to[i]
          BY <1>1, <2>3, <5>1, AtRest
        <5> QED
          BY <1>1, <4>2, <5>2 DEF Early
      <4> QED
        BY <4>1, <4>2
    <3> QED
      BY <2>5, <3>1 DEF ToInv, Sent
  <2>8. FromInv'
    <3>1. ~Fresh'
      BY <2>3, Bits0 DEF Fresh
    <3>2. (\A z \in DOMAIN from : from[z] \in Digits) /\ (eng.state = "WRITING" => from = <<>>) /\ eng' = eng
      BY <1>1, AtRest
    <3> QED
      BY <2>4, <2>5, <3>1, <3>2 DEF FromInv, Sent
  <2>9. Calm /\ Ahead'
    <3>1. Calm
      BY <1>1 DEF WireInv, PhaseInv, Addressing, Sending, Collecting, Sent
    <3>2. Ahead'
      BY <2>3, <2>5, Bits0 DEF Ahead
    <3> QED
      BY <3>1, <3>2
  <2> QED
    BY <2>6, <2>7, <2>8, <2>9 DEF WireInv, PhaseInv
<1> QED
  BY <1>2, <1>3

LEMMA WrittenInv == ASSUME WireInv, WriteAnswered PROVE WireInv'
<1>1. /\ task.pc = "write" /\ Len(from) > task.bit /\ from' = Tail(from)
      /\ IF Head(from) = "A" THEN task' = Idle /\ to' = to
         ELSE to' = to \o writebin(task.byte) \o <<"Z">> /\ task' = [task EXCEPT !.bit = Len(from) - 1]
      /\ addressed' = addressed /\ UNCHANGED <<eng, m, bus, ssda, dev>>
  BY DEF WriteAnswered, port
<1>2. /\ Fresh /\ to = <<>> /\ from # <<>> /\ from \in Seq(Items) /\ Len(from) = task.bit + 1
      /\ IF eng.state = "WRITING" THEN Calm /\ from = <<"A">> /\ task.bit = 0 ELSE Deaf
  BY <1>1, Woke
<1>3. /\ task \in [pc : Calls, byte : Byte, size : Nat, stop : BOOLEAN, bit : Nat]
      /\ addressed' \in [addr : {None} \cup SUBSET (0..(Bits - 2)), ok : BOOLEAN]
  BY <1>1 DEF WireInv, TypeInv
<1>4. from' \in Seq(Items) /\ Len(from') = Len(from) - 1 /\ Len(from') \in Nat
      /\ \A z \in DOMAIN from' : z + 1 \in DOMAIN from /\ from'[z] = from[z + 1]
  BY <1>1, <1>2
<1>5. Head(from) = from[1] /\ 1 \in DOMAIN from
  BY <1>2
<1>6. CASE eng.state = "WRITING"
  <2>1. task' = Idle /\ to' = <<>> /\ from' = <<>>
    BY <1>1, <1>2, <1>6
  <2>2. /\ task' \in [pc : Calls, byte : Byte, size : Nat, stop : BOOLEAN, bit : Nat] /\ task'.pc = "idle"
        /\ to' \in Seq(Items) /\ from' \in Seq(Items) /\ Len(to') = 0 /\ DOMAIN from' = {}
    BY <2>1 DEF Calls, Byte, Idle
  <2>3. TypeInv' /\ EngInv' /\ PortInv' /\ (Calm => Calm')
    BY <1>1, <1>3, <2>2, ResumeType
  <2>4. ToInv' /\ FromInv'
    BY <2>1, <2>2 DEF ToInv, FromInv, Sent
  <2> QED
    BY <1>2, <1>6, <2>2, <2>3, <2>4 DEF WireInv, PhaseInv, Ahead
<1>7. CASE eng.state # "WRITING"
  <2>1. (\A z \in DOMAIN from : from[z] \in Digits) \/ (from = <<"N">> /\ task.bit = 0)
    BY <1>1, <1>7 DEF WireInv, FromInv
  <2>2. Head(from) # "A" /\ \A z \in DOMAIN from' : from'[z] \in Digits
    BY <1>1, <1>4, <1>5, <2>1 DEF Digits
  <2>3. to' = to \o writebin(task.byte) \o <<"Z">> /\ task' = [task EXCEPT !.bit = Len(from) - 1]
    BY <1>1, <2>2
  <2>4. Queued(to, task.byte, 1, to')
    <3>1. to \in Seq(Items)
      BY DEF WireInv, TypeInv
    <3>2. Queued(to, task.byte, 1, to \o writebin(task.byte) \o <<"Z">>)
      BY <3>1, ByteAtEnd, Zenon
    <3> QED
      BY <2>3, <3>2, Zenon
  <2>5. /\ to' \in Seq(Items) /\ Len(to') = Bits + 1
        /\ \A i \in 1..Len(to') : to'[i] = Script(task.byte, Len(to') - i)
    <3>1. Len(to) = 0
      BY <1>2
    <3> QED
      BY <2>4, <3>1, Bits0 DEF Queued
  <2>6. /\ task' \in [pc : Calls, byte : Byte, size : Nat, stop : BOOLEAN, bit : Nat]
        /\ task'.pc = "write" /\ task'.byte = task.byte /\ task'.bit = Len(from')
    BY <1>1, <1>2, <1>3, <1>4, <2>3
  <2>7. TypeInv' /\ EngInv' /\ PortInv' /\ (Calm => Calm') /\ Left' = Left
    BY <1>1, <1>3, <1>4, <2>5, <2>6, ResumeType
  <2>8. ToInv'
    <3>1. \A i \in 1..Len(to') : Len(to') - i <= Bits
      BY <2>5, Bits0
    <3> QED
      BY <2>5, <2>6, <3>1 DEF ToInv, Sent
  <2>9. FromInv'
    <3>1. eng' = eng
      BY <1>1
    <3> QED
      BY <1>7, <2>2, <2>6, <3>1 DEF FromInv, Sent
  <2>10. PhaseInv'
    <3>1. Deaf /\ eng.item = "Z" /\ Left = 1
      BY <1>2, <1>7 DEF Fresh
    <3>2. CASE eng.state = "IDLE"
      <4>1. Calm
        BY <3>1, <3>2 DEF Deaf, Calm
      <4>2. Ahead'
        BY <2>5, <2>6, Bits0 DEF Ahead
      <4> QED
        BY <4>1, <4>2, <2>7 DEF PhaseInv
    <3>3. CASE eng.state = "READING"
      <4>1. Deaf'
        BY <1>1, <2>5, <2>7, <3>1, <3>3, Bits0 DEF Deaf
      <4> QED
        BY <4>1, <2>6 DEF PhaseInv, Sending
    <3> QED
      BY <3>1, <3>2, <3>3 DEF Deaf
  <2> QED
    BY <2>7, <2>8, <2>9, <2>10 DEF WireInv
<1> QED
  BY <1>6, <1>7

\* What is queued behind nothing.
LEMMA SameItems ==
  ASSUME NEW S, NEW s \in Seq(S), NEW t \in Seq(S), Len(s) = Len(t), \A i \in 1..Len(s) : s[i] = t[i]
  PROVE  s = t
  OBVIOUS
LEMMA PairOf == ASSUME NEW S, NEW x \in S, NEW y \in S PROVE <<x>> \o <<y>> = <<x, y>>
<1> DEFINE s == <<x>> \o <<y>>  t == <<x, y>>
<1>1. s \in Seq(S) /\ t \in Seq(S)
  OBVIOUS
<1>2. Len(s) = 2 /\ s[1] = x /\ s[2] = y
  OBVIOUS
<1>3. Len(t) = 2 /\ t[1] = x /\ t[2] = y
  OBVIOUS
<1> HIDE DEF s, t
<1>4. Len(s) = Len(t) /\ \A i \in 1..Len(s) : s[i] = t[i]
  BY <1>2, <1>3
<1>5. s = t
  BY <1>1, <1>4, SameItems
<1> QED
  BY <1>5 DEF s, t
LEMMA Behind ==
  ASSUME NEW x \in Items, NEW y \in Items
  PROVE  <<>> \o <<x>> \o <<y>> = <<x, y>> /\ <<>> \o <<>> \o <<y>> = <<y>>
<1>0. \A z : <<>> \o <<z>> = <<z>>
  OBVIOUS
<1>3. <<>> \o <<>> = <<>>
  OBVIOUS
<1>1. <<>> \o <<x>> = <<x>> /\ <<>> \o <<>> = <<>> /\ <<>> \o <<y>> = <<y>>
  BY <1>0, <1>3, Zenon
<1>2. <<x>> \o <<y>> = <<x, y>>
  BY PairOf, Zenon
<1> QED
  BY <1>1, <1>2, Zenon
LEMMA BehindTwo ==
  ASSUME NEW x, NEW y
  PROVE  <<>> \o <<>> \o <<x, y>> = <<x, y>> /\ <<>> \o <<>> \o <<>> = <<>>
<1>1. <<>> \o <<>> = <<>> /\ <<>> \o <<x, y>> = <<x, y>>
  OBVIOUS
<1> QED
  BY <1>1, Zenon
LEMMA FewItems == <<"A", "Z">> \in Seq(Items) /\ <<"Z">> \in Seq(Items) /\ <<"N", "P">> \in Seq(Items) /\ <<>> \in Seq(Items)
<1>1. <<"A", "Z">> \in Seq(Items)
  BY DEF Items
<1>2. <<"N", "P">> \in Seq(Items)
  BY DEF Items
<1>3. <<"Z">> \in Seq(Items)
  BY DEF Items
<1>4. <<>> \in Seq(Items)
  OBVIOUS
<1> QED
  BY <1>1, <1>2, <1>3, <1>4

LEMMA BitInv == ASSUME WireInv, BitAnswered PROVE WireInv'
<1> DEFINE n == task.bit + 1
           more == IF n % Bits = 0 THEN AfterByte(n \div Bits) ELSE <<>>
<1>1. /\ task.pc = "collect" /\ Len(from) > task.bit
      /\ IF n < task.size * Bits
         THEN to' = to \o more \o <<"Z">> /\ task' = [task EXCEPT !.bit = n]
         ELSE to' = to \o more \o (IF task.stop THEN <<"N", "P">> ELSE <<>>) /\ task' = Idle
      /\ from' = from /\ addressed' = addressed /\ UNCHANGED <<eng, m, bus, ssda, dev>>
  BY DEF BitAnswered, port, hist
<1>2. /\ Fresh /\ to = <<>> /\ from # <<>> /\ from \in Seq(Items) /\ Len(from) = n
      /\ eng.state = "READING" /\ task.bit < task.size * Bits /\ CollZ /\ eng.item = "Z" /\ Left = 1
  BY <1>1, Woke DEF Fresh
<1>3. /\ task \in [pc : Calls, byte : Byte, size : Nat, stop : BOOLEAN, bit : Nat]
      /\ addressed' \in [addr : {None} \cup SUBSET (0..(Bits - 2)), ok : BOOLEAN]
  BY <1>1 DEF WireInv, TypeInv
<1>4. n \in Nat /\ n > 0 /\ task.size \in Nat /\ task.bit \in Nat /\ task.stop \in BOOLEAN
  BY <1>3
<1>5. \A z \in DOMAIN from : from[z] \in Digits
  BY <1>1 DEF WireInv, FromInv
<1>6. eng' = eng /\ bus' = bus /\ dev' = dev
  BY <1>1
<1>7. Still' /\ Still
  BY <1>1, <1>2 DEF CollZ, Still
<1>8. CASE n < task.size * Bits
  <2>1. to' = to \o more \o <<"Z">> /\ task' = [task EXCEPT !.bit = n]
    BY <1>1, <1>8
  <2>2. more = IF n % Bits = 0 THEN <<"A">> ELSE <<>>
    BY <1>4, <1>8, LastBit DEF AfterByte
  <2>3. to' = IF Whole(n) THEN <<"A", "Z">> ELSE <<"Z">>
    <3>1. Whole(n) => to' = <<>> \o <<"A">> \o <<"Z">>
      BY <1>2, <2>1, <2>2, Zenon DEF Whole
    <3>2. ~Whole(n) => to' = <<>> \o <<>> \o <<"Z">>
      BY <1>2, <1>4, <2>1, <2>2, Zenon DEF Whole
    <3> QED
      <4>1. "A" \in Items /\ "Z" \in Items
        BY DEF Items
      <4> QED
        BY <3>1, <3>2, <4>1, Behind, Zenon
  <2>4. to' \in Seq(Items)
    BY <2>3, FewItems, Zenon
  <2>5. /\ task' \in [pc : Calls, byte : Byte, size : Nat, stop : BOOLEAN, bit : Nat]
        /\ task'.pc = "collect" /\ task'.bit = n /\ task'.size = task.size
    BY <1>1, <1>3, <1>4, <2>1
  <2>6. TypeInv' /\ EngInv' /\ PortInv' /\ Left' = Left
    BY <1>1, <1>2, <1>3, <2>4, <2>5, ResumeType
  <2>7. ToInv' /\ FromInv'
    BY <1>1, <1>2, <1>5, <2>5 DEF ToInv, FromInv, Sent
  <2>8. CollZ'
    <3>1. /\ bus.scl => IF Whole(n) THEN dev.state = "ACKNACK" ELSE Reads(n)
          /\ ~bus.scl => Reads(n - 1)
      BY <1>2 DEF CollZ
    <3>2. (Reads(n) => Reads(Len(from))') /\ (Reads(n - 1) => Reads(Len(from) - 1)') /\ Len(from') = n
      BY <1>1, <1>2 DEF Reads
    <3>3. from' # <<>>
      BY <1>1, <1>2
    <3> QED
      BY <1>2, <1>4, <1>6, <1>7, <2>3, <2>5, <2>6, <3>1, <3>2, <3>3 DEF CollZ
  <2> QED
    BY <1>2, <1>6, <1>8, <2>5, <2>6, <2>7, <2>8 DEF WireInv, PhaseInv, Collecting
<1>9. CASE ~(n < task.size * Bits)
  <2>1. n = task.size * Bits
    BY <1>2, <1>4, <1>9, Bits0
  <2>2. n % Bits = 0 /\ n \div Bits = task.size
    BY <1>4, <2>1, LastBit
  <2>3. more = <<>>
    BY <2>2 DEF AfterByte
  <2>4. to' \in {<<"N", "P">>, <<>>} /\ task' = Idle
    <3>1. task' = Idle /\ (to' = <<>> \o <<>> \o <<"N", "P">> \/ to' = <<>> \o <<>> \o <<>>)
      <4> HIDE DEF n, more
      <4> QED
        BY <1>1, <1>2, <1>9, <2>3, Zenon
    <3> QED
      BY <3>1, BehindTwo, Zenon
  <2>5. /\ task' \in [pc : Calls, byte : Byte, size : Nat, stop : BOOLEAN, bit : Nat] /\ task'.pc = "idle"
        /\ to' \in Seq(Items)
    <3>1. to' \in Seq(Items)
      BY <2>4, FewItems, Zenon
    <3> QED
      BY <2>4, <3>1 DEF Calls, Byte, Idle
  <2>6. TypeInv' /\ EngInv' /\ PortInv' /\ (Calm => Calm')
    BY <1>1, <1>2, <1>3, <2>5, ResumeType
  <2>7. ToInv'
    <3>1. \A i \in 1..Len(to') : Early(i)'
      BY <1>2, <1>6, <2>4 DEF Early
    <3> QED
      BY <2>5, <3>1 DEF ToInv, Sent
  <2>8. FromInv'
    BY <1>1, <1>2, <1>5, <1>6, <2>5 DEF FromInv, Sent
  <2>9. Calm
    <3>1. Whole(n)
      BY <1>4, <2>2 DEF Whole
    <3>2. (n - 1) % Bits = MSB
      <4>1. (n - 1) % Bits # Bits - 1 => ((n - 1) + 1) % Bits = ((n - 1) % Bits) + 1
        BY <1>4, NextBit
      <4>2. (n - 1) + 1 = n /\ (n - 1) % Bits \in 0..(Bits - 1)
        BY <1>4, DivBits
      <4> QED
        BY <2>2, <4>1, <4>2, Bits0
    <3>3. bus.scl => dev.state = "ACKNACK"
      BY <1>2, <3>1 DEF CollZ
    <3>4. ~bus.scl => dev.state = "READ" /\ dev.i = 0
      BY <1>2, <3>2, Bits0 DEF CollZ, Reads
    <3> QED
      BY <1>2, <1>7, <3>3, <3>4 DEF Calm, CalmZ, RestDev
  <2> QED
    BY <2>5, <2>6, <2>7, <2>8, <2>9 DEF WireInv, PhaseInv, Ahead
<1> QED
  BY <1>8, <1>9

(***************************************************************************)
(* The engine takes an item.                                               *)
(***************************************************************************)

LEMMA ScriptIs ==
  ASSUME NEW b, NEW d \in 0..(Bits + 1)
  PROVE  /\ d = 0 <=> Script(b, d) = "Z"
         /\ d = Bits + 1 <=> Script(b, d) = "S"
         /\ d \in 1..Bits => Script(b, d) = IF d - 1 \in b THEN "1" ELSE "0"
         /\ d \in 1..Bits => Script(b, d) \in {"0", "1"}
  BY Bits0 DEF Script

LEMMA AddrRw == ASSUME Sent, ToInv PROVE (0 \in Addr <=> Rw) /\ Up(addressed.addr) \subseteq 1..(Bits - 1)
<1>1. addressed.addr \in SUBSET (0..(Bits - 2))
  BY DEF ToInv
<1>2. Up(addressed.addr) \subseteq 1..(Bits - 1)
  BY <1>1, Bits0 DEF Up
<1> QED
  BY <1>2 DEF Addr

\* The item that the engine reads, call by call.
HeadEarly == Ahead /\ CalmNone /\ Early(1) /\ (task.pc = "idle" \/ (Sent /\ Len(to) > Bits + 2) \/ (task.pc = "write" /\ Len(to) > Bits + 1))
HeadStart == Sent /\ CalmNone /\ Len(to) = Bits + 2 /\ Head(to) = "S"
HeadByte  == task.pc = "write" /\ CalmNone /\ Len(to) = Bits + 1 /\ Head(to) = Script(task.byte, Bits)
HeadAddr  == Sent /\ AddrNone /\ Head(to) = Script(Addr, Len(to) - 1)
HeadSend  == task.pc = "write" /\ Len(to) <= Bits /\ Head(to) = Script(task.byte, Len(to) - 1) /\ (SendNone \/ Deaf)
HeadDeaf  == task.pc = "write" /\ Len(to) = Bits + 1 /\ Head(to) = Script(task.byte, Bits) /\ Deaf
HeadColl  == Collecting /\ CollNone

LEMMA HeadIs ==
  ASSUME WireInv, eng.item = None, to # <<>>
  PROVE  /\ Len(to) \in Nat /\ Len(to) >= 1 /\ Head(to) = to[1] /\ to \in Seq(Items)
         /\ HeadEarly \/ HeadStart \/ HeadByte \/ HeadAddr \/ HeadSend \/ HeadDeaf \/ HeadColl
<1>1. to \in Seq(Items) /\ Len(to) \in Nat /\ Len(to) >= 1 /\ Head(to) = to[1] /\ 1 \in 1..Len(to)
  <2>1. to \in Seq(Items)
    BY DEF WireInv, TypeInv
  <2> QED
    BY <2>1
<1>2. None \notin Items
  BY NoneAssumption DEF Items
<1>3. "S" # None /\ "Z" # None /\ "A" # None /\ "P" # None /\ "N" # None /\ "0" # None /\ "1" # None
  BY NoneAssumption
<1>4. CASE Ahead /\ Calm
  <2>1. CalmNone
    BY <1>3, <1>4 DEF Calm, CalmZ, CalmN, CalmP
  <2>2. CASE task.pc = "idle"
    <3>1. Early(1)
      BY <1>1, <2>2 DEF WireInv, ToInv
    <3> QED
      BY <1>1, <1>4, <2>1, <2>2, <3>1, Zenon DEF HeadEarly
  <2>3. CASE Sent /\ Len(to) >= Bits + 2
    <3>1. IF Len(to) - 1 <= Bits + 1 THEN to[1] = Script(Addr, Len(to) - 1) ELSE Early(1)
      BY <1>1, <2>3 DEF WireInv, ToInv
    <3>2. CASE Len(to) = Bits + 2
      <4>1. to[1] = Script(Addr, Bits + 1) /\ Bits + 1 \in 0..(Bits + 1)
        BY <3>1, <3>2, Bits0
      <4>2. to[1] = "S"
        BY <4>1, ScriptIs
      <4> QED
        BY <1>1, <2>1, <2>3, <3>2, <4>2 DEF HeadStart
    <3>3. CASE Len(to) > Bits + 2
      <4>1. Early(1)
        BY <1>1, <3>1, <3>3, Bits0
      <4> QED
        BY <1>1, <1>4, <2>1, <2>3, <3>3, <4>1, Zenon DEF HeadEarly
    <3> QED
      BY <1>1, <2>3, <3>2, <3>3, Bits0
  <2>4. CASE task.pc = "write" /\ Len(to) >= Bits + 1
    <3>1. IF Len(to) - 1 <= Bits THEN to[1] = Script(task.byte, Len(to) - 1) ELSE Early(1)
      BY <1>1, <2>4 DEF WireInv, ToInv
    <3>2. CASE Len(to) = Bits + 1
      <4>1. to[1] = Script(task.byte, Bits)
        BY <3>1, <3>2, Bits0
      <4> QED
        BY <1>1, <2>1, <2>4, <3>2, <4>1 DEF HeadByte
    <3>3. CASE Len(to) > Bits + 1
      <4>1. Early(1)
        BY <1>1, <3>1, <3>3, Bits0
      <4> QED
        BY <1>1, <1>4, <2>1, <2>4, <3>3, <4>1, Zenon DEF HeadEarly
    <3> QED
      BY <1>1, <2>4, <3>2, <3>3, Bits0
  <2> QED
    BY <1>4, <2>2, <2>3, <2>4 DEF Ahead
<1>5. CASE Addressing
  <2>1. \A d \in 1..Bits : Script(Addr, d) # None
    <3> SUFFICES ASSUME NEW d \in 1..Bits PROVE Script(Addr, d) # None
      OBVIOUS
    <3>1. d \in 0..(Bits + 1)
      BY Bits0
    <3> QED
      BY <1>3, <3>1, ScriptIs
  <2>2. Sent /\ AddrNone
    BY <1>1, <1>3, <1>5, <2>1 DEF Addressing, AddrS, AddrBit, AddrZ
  <2>3. to[1] = Script(Addr, Len(to) - 1)
    BY <1>1, <2>2, Bits0 DEF WireInv, ToInv, AddrNone
  <2> QED
    BY <1>1, <2>2, <2>3 DEF HeadAddr
<1>6. CASE Sending
  <2>1. \A d \in 1..Bits : Script(task.byte, d) # None
    <3> SUFFICES ASSUME NEW d \in 1..Bits PROVE Script(task.byte, d) # None
      OBVIOUS
    <3>1. d \in 0..(Bits + 1)
      BY Bits0
    <3> QED
      BY <1>3, <3>1, ScriptIs
  <2>2. task.pc = "write" /\ (SendNone \/ Deaf)
    BY <1>1, <1>3, <1>6, <2>1 DEF Sending, SendBit, SendZ
  <2>3. Len(to) <= Bits + 1
    BY <1>1, <2>2, Bits0 DEF SendNone, Deaf
  <2>4. to[1] = Script(task.byte, Len(to) - 1)
    BY <1>1, <2>2, <2>3, Bits0 DEF WireInv, ToInv
  <2>5. CASE Len(to) <= Bits
    BY <1>1, <2>2, <2>4, <2>5 DEF HeadSend
  <2>6. CASE Len(to) = Bits + 1
    <3>1. Deaf
      BY <2>2, <2>6, Bits0 DEF SendNone
    <3>2. to[1] = Script(task.byte, Bits)
      BY <2>4, <2>6, Bits0
    <3> QED
      BY <1>1, <2>2, <2>6, <3>1, <3>2 DEF HeadDeaf
  <2> QED
    BY <1>1, <2>3, <2>5, <2>6, Bits0
<1>7. CASE Collecting
  BY <1>1, <1>3, <1>7, Zenon DEF Collecting, CollZ, CollA, HeadColl
<1> QED
  BY <1>1, <1>4, <1>5, <1>6, <1>7 DEF WireInv, PhaseInv

\* What a read item changes, and what it leaves.
FetchDoes ==
  /\ Fetch /\ TypeInv' /\ EngInv' /\ eng.item = None
  /\ to' = Tail(to) /\ Len(to') = Len(to) - 1 /\ Len(to') \in Nat /\ \A i \in 1..Len(to') : to'[i] = to[i + 1]
  /\ UNCHANGED <<task, from, addressed, bus, ssda, dev>>
  /\ eng'.state = eng.state /\ eng'.rwbit = eng.rwbit
  /\ IF eng.state = "IDLE" /\ Head(to) \notin {"S", "P"} THEN eng' = eng /\ m' = m ELSE eng'.item = Head(to)
  /\ Head(to) = "S" => Left' = 3 /\ ~m'.sda /\ ~m'.scl
  /\ Head(to) = "P" => Left' = 4 /\ m' = m
  /\ Head(to) = "Z" /\ eng.state # "IDLE" => Left' = 2 /\ ~m'.sda /\ m'.scl /\ m.scl
  /\ Head(to) \in {"A", "N", "0", "1"} /\ eng.state # "IDLE" =>
       m' = m /\ m.scl /\ Left' = IF Head(to) \in {"0", "1"} /\ eng.state = "READING" THEN 1 ELSE 3

\* Only an address is read in the state DEVID, and no answer in the state WRITING.
LEMMA HeadFits ==
  ASSUME WireInv, eng.item = None, to # <<>>
  PROVE  /\ Head(to) \in {"S", "P"} => eng.state # "DEVID"
         /\ Head(to) \in {"A", "N"} => eng.state \in {"IDLE", "READING"}
<1>1. Len(to) \in Nat /\ Len(to) >= 1 /\ Head(to) = to[1] /\ eng.state \in States
  BY HeadIs DEF WireInv, TypeInv
<1>2. CalmNone => eng.state # "DEVID"
  BY DEF CalmNone, RestDev
<1>3. CASE HeadEarly
  BY <1>1, <1>2, <1>3 DEF HeadEarly, Early
<1>4. CASE HeadStart
  BY <1>1, <1>2, <1>4 DEF HeadStart
<1>5. CASE HeadByte \/ HeadDeaf
  <2>1. Head(to) \in {"0", "1"}
    BY <1>5, ScriptIs, Bits0 DEF HeadByte, HeadDeaf
  <2> QED
    BY <2>1
<1>6. CASE HeadAddr
  <2>1. Len(to) - 1 \in 0..Bits /\ Len(to) - 1 \in 0..(Bits + 1) /\ Len(to) - 1 # Bits + 1
    BY <1>1, <1>6, Bits0 DEF HeadAddr, AddrNone
  <2>2. Head(to) \in {"Z", "0", "1"}
    BY <1>6, <2>1, ScriptIs DEF HeadAddr
  <2> QED
    BY <2>2
<1>7. CASE HeadSend
  <2>1. Len(to) - 1 \in 0..Bits /\ Len(to) - 1 \in 0..(Bits + 1) /\ Len(to) - 1 # Bits + 1
    BY <1>1, <1>7, Bits0 DEF HeadSend
  <2>2. Head(to) \in {"Z", "0", "1"}
    BY <1>7, <2>1, ScriptIs DEF HeadSend
  <2> QED
    BY <2>2
<1>8. CASE HeadColl
  <2>1. eng.state = "READING" /\ (to = <<"A", "Z">> \/ to = <<"Z">>)
    BY <1>8 DEF HeadColl, Collecting, CollNone
  <2> QED
    BY <2>1
<1> QED
  BY <1>3, <1>4, <1>5, <1>6, <1>7, <1>8, HeadIs

LEMMA FetchFacts == ASSUME WireInv, Fetch PROVE FetchDoes
<1>1. to # <<>> /\ eng.item = None /\ UNCHANGED <<task, from, addressed, bus, ssda, dev>>
  BY DEF Fetch, wire, hist, port
<1>2. PICK p : p = Head(to)
  OBVIOUS
<1>3. /\ EngInv' /\ m' \in Lines /\ to' = Tail(to) /\ p \in Items
      /\ eng'.state = eng.state /\ eng'.rwbit = eng.rwbit
      /\ IF eng.state = "IDLE" /\ p \notin {"S", "P"} THEN eng' = eng /\ m' = m ELSE eng'.item = p
      /\ p = "S" => Left' = 3 /\ ~m'.sda /\ ~m'.scl
      /\ p = "P" => Left' = 4 /\ m' = m
      /\ p = "Z" /\ eng.state # "IDLE" => Left' = 2 /\ ~m'.sda /\ m'.scl /\ m.scl
      /\ p \in {"A", "N", "0", "1"} /\ eng.state # "IDLE" =>
           m' = m /\ m.scl /\ Left' = IF p \in {"0", "1"} /\ eng.state = "READING" THEN 1 ELSE 3
  <2>1. TypeInv /\ EngInv
    BY DEF WireInv
  <2>2. (p \in {"S", "P"} => eng.state # "DEVID") /\ (p \in {"A", "N"} => eng.state \in {"IDLE", "READING"})
    BY <1>1, <1>2, HeadFits
  <2> QED
    BY <1>2, <2>1, <2>2, FetchStep, Zenon
<1>4. to \in Seq(Items) /\ to' \in Seq(Items)
  BY <1>1, <1>3 DEF WireInv, TypeInv
<1>5. Len(to') = Len(to) - 1 /\ Len(to') \in Nat /\ \A i \in 1..Len(to') : to'[i] = to[i + 1]
  BY <1>1, <1>3, <1>4
<1>6. TypeInv'
  <2>1. eng' = [state |-> eng'.state, item |-> eng'.item, wave |-> eng'.wave, rwbit |-> eng'.rwbit]
    <3>1. \/ eng' = eng
          \/ \E q, w : eng' = [eng EXCEPT !.item = q, !.wave = w]
      BY DEF Fetch
    <3>2. eng = [state |-> eng.state, item |-> eng.item, wave |-> eng.wave, rwbit |-> eng.rwbit]
      BY DEF WireInv, TypeInv
    <3> QED
      BY <3>1, <3>2
  <2>2. eng'.item \in Items \cup {None} /\ eng'.state \in States /\ eng'.rwbit \in BOOLEAN
    BY <1>3 DEF WireInv, TypeInv
  <2> QED
    BY <1>1, <1>3, <1>4, <2>1, <2>2 DEF WireInv, TypeInv
<1> QED
  BY <1>1, <1>2, <1>3, <1>5, <1>6, Zenon DEF FetchDoes

LEMMA FetchFromInv == ASSUME WireInv, FetchDoes PROVE FromInv'
<1>1. ~Fresh
  BY NoneAssumption DEF Fresh, FetchDoes
<1>2. ~Fresh'
  <2> SUFFICES ASSUME eng'.item = "Z", Left' = 1 PROVE FALSE
    BY DEF Fresh
  <2>1. eng'.item # eng.item
    BY NoneAssumption DEF FetchDoes
  <2>2. Head(to) = "Z" /\ eng.state # "IDLE"
    BY <2>1 DEF FetchDoes
  <2> QED
    BY <2>2 DEF FetchDoes
<1>3. UNCHANGED <<task, from, addressed>> /\ eng'.state = eng.state
  BY DEF FetchDoes
<1> QED
  BY <1>1, <1>2, <1>3 DEF WireInv, FromInv, Sent

LEMMA FetchToInv == ASSUME WireInv, FetchDoes, to # <<>> PROVE ToInv'
<1>1. /\ Len(to') = Len(to) - 1 /\ Len(to') \in Nat /\ Len(to) \in Nat
      /\ \A i \in 1..Len(to') : to'[i] = to[i + 1] /\ i + 1 \in 1..Len(to) /\ Len(to') - i = Len(to) - (i + 1)
  <2>1. to \in Seq(Items)
    BY DEF WireInv, TypeInv
  <2> QED
    BY <2>1 DEF FetchDoes
<1>2. UNCHANGED <<task, addressed>> /\ Head(to) = to[1] /\ eng.item = None
  BY HeadIs DEF FetchDoes
<1>3. Addr' = Addr /\ Rw' = Rw /\ Sent' = Sent
  BY <1>2 DEF Addr, Rw, Sent
<1>4. \A i \in 1..Len(to') : Early(i + 1) => Early(i)'
  <2> SUFFICES ASSUME NEW i \in 1..Len(to'), Early(i + 1) PROVE to'[i] = "P"
    BY DEF Early
  <2> QED
    BY <1>1 DEF Early
<1>5. task.pc = "idle" => \A i \in 1..Len(to') : Early(i)'
  BY <1>1, <1>4 DEF WireInv, ToInv
<1>6. ASSUME Sent, NEW i \in 1..Len(to')
      PROVE  IF Len(to') - i <= Bits + 1 THEN to'[i] = Script(Addr, Len(to') - i) ELSE Early(i)'
  <2>1. IF Len(to) - (i + 1) <= Bits + 1 THEN to[i + 1] = Script(Addr, Len(to) - (i + 1)) ELSE Early(i + 1)
    BY <1>1, <1>6 DEF WireInv, ToInv
  <2> QED
    BY <1>1, <1>4, <2>1
<1>7. Sent => /\ addressed.addr \in SUBSET (0..(Bits - 2)) /\ task.bit = 0 /\ (Rw => task.size > 0)
              /\ Len(to) > Bits + 2 => to[Len(to) - Bits - 2] = "P"
  BY DEF WireInv, ToInv
<1>8. Sent /\ Len(to') > Bits + 2 => to'[Len(to') - Bits - 2] = "P"
  <2> SUFFICES ASSUME Sent, Len(to') > Bits + 2 PROVE to'[Len(to') - Bits - 2] = "P"
    OBVIOUS
  <2>1. Len(to') - Bits - 2 \in 1..Len(to') /\ (Len(to') - Bits - 2) + 1 = Len(to) - Bits - 2
    BY <1>1, Bits0
  <2> QED
    BY <1>1, <1>7, <2>1, Bits0
<1>9. Sent /\ Len(to') = Bits + 2 => eng'.item = "P"
  <2> SUFFICES ASSUME Sent, Len(to') = Bits + 2 PROVE eng'.item = "P"
    OBVIOUS
  <2>1. Len(to) = Bits + 3 /\ Len(to) - Bits - 2 = 1
    BY <1>1, Bits0
  <2>2. Head(to) = "P"
    BY <1>2, <1>7, <2>1, Bits0
  <2> QED
    BY <2>2 DEF FetchDoes
<1>10. ASSUME task.pc = "write", NEW i \in 1..Len(to')
      PROVE  IF Len(to') - i <= Bits THEN to'[i] = Script(task.byte, Len(to') - i) ELSE Early(i)'
  <2>1. IF Len(to) - (i + 1) <= Bits THEN to[i + 1] = Script(task.byte, Len(to) - (i + 1)) ELSE Early(i + 1)
    BY <1>1, <1>10 DEF WireInv, ToInv
  <2> QED
    BY <1>1, <1>4, <2>1
<1> QED
  BY <1>2, <1>3, <1>5, <1>6, <1>7, <1>8, <1>9, <1>10 DEF ToInv

LEMMA PortKeeps ==
  ASSUME PortInv, UNCHANGED <<bus, ssda, dev>>, m' = m \/ m'.scl \/ (~bus.scl /\ ~m'.scl => (bus.sda <=> ~m'.sda /\ ~ssda))
  PROVE  PortInv'
<1>1. Drive' <=> Drive
  BY DEF Drive
<1> QED
  BY <1>1 DEF PortInv

LEMMA FetchEarly == ASSUME WireInv, FetchDoes, to # <<>>, HeadEarly PROVE PhaseInv' /\ PortInv'
<1>1. /\ UNCHANGED <<task, from, addressed, bus, ssda, dev>> /\ eng'.state = eng.state
      /\ Len(to') = Len(to) - 1 /\ Len(to) \in Nat /\ Len(to) >= 1 /\ Head(to) = to[1] /\ PortInv
  BY HeadIs DEF FetchDoes, WireInv
<1>2. CalmNone /\ Early(1) /\ Ahead
  BY DEF HeadEarly
<1>3. Ahead'
  <2>1. Sent' = Sent
    BY <1>1 DEF Sent
  <2> QED
    BY <1>1, <2>1, Bits0 DEF HeadEarly, Ahead
<1>4. CASE Head(to) = "P"
  <2>1. eng'.item = "P" /\ Left' = 4 /\ m' = m
    BY <1>4 DEF FetchDoes
  <2>2. CalmP'
    BY <1>1, <1>2, <2>1 DEF CalmP, CalmNone, RestDev, Free0
  <2> QED
    BY <1>1, <1>3, <2>1, <2>2, PortKeeps DEF PhaseInv, Calm
<1>5. CASE Head(to) # "P"
  <2>1. Head(to) = "N" /\ eng.state = "READING"
    BY <1>1, <1>2, <1>5 DEF Early
  <2>2. eng'.item = "N" /\ Left' = 3 /\ m' = m
    BY <2>1 DEF FetchDoes
  <2>3. CalmN'
    BY <1>1, <1>2, <2>1, <2>2 DEF CalmN, CalmNone, RestDev, Free0
  <2> QED
    BY <1>1, <1>3, <2>2, <2>3, PortKeeps DEF PhaseInv, Calm
<1> QED
  BY <1>4, <1>5

LEMMA FetchStart == ASSUME WireInv, FetchDoes, to # <<>>, HeadStart PROVE PhaseInv' /\ PortInv'
<1>1. /\ UNCHANGED <<task, from, addressed, bus, ssda, dev>> /\ eng'.state = eng.state /\ eng'.item = "S"
      /\ Len(to') = Bits + 1 /\ Left' = 3 /\ ~m'.sda /\ ~m'.scl /\ PortInv /\ Sent /\ CalmNone /\ Len(to) = Bits + 2
  BY Bits0 DEF FetchDoes, HeadStart, WireInv
<1>2. m \in Lines /\ bus \in Lines /\ ssda \in BOOLEAN /\ eng.state \in States
  BY DEF WireInv, TypeInv
<1>3. eng.item = None /\ eng.item # "P"
  BY NoneAssumption DEF FetchDoes
<1>4. RestDev /\ ~m.sda /\ (eng.state = "IDLE" => ~ssda /\ bus.sda) /\ (eng.state # "IDLE" => m.scl)
  BY <1>1, <1>3, NoneAssumption DEF CalmNone, Free0, WireInv, EngInv
<1>5. eng.state = "IDLE" \/ Settled
  BY <1>1, <1>3 DEF WireInv, ToInv
<1>6. Settled => (bus.sda <=> ~m.sda /\ ~ssda) /\ (bus.scl <=> ~m.scl)
  BY <1>2, LinesResolved
<1>7. (bus.sda <=> ~ssda) /\ (bus.scl => ~ssda)
  BY <1>4, <1>5, <1>6
<1>8. AddrS'
  BY <1>1, <1>4, <1>7 DEF AddrS, RestDev
<1>9. Sent'
  BY <1>1 DEF Sent
<1>10. PortInv'
  BY <1>1, <1>7, PortKeeps
<1> QED
  BY <1>8, <1>9, <1>10 DEF PhaseInv, Addressing

LEMMA HighNone == ASSUME NEW b \in Byte PROVE High(b, Bits) = {}
  BY Bits0 DEF High, Byte

LEMMA FetchByte == ASSUME WireInv, FetchDoes, to # <<>>, HeadByte PROVE PhaseInv' /\ PortInv'
<1>1. /\ UNCHANGED <<task, from, addressed, bus, ssda, dev>> /\ eng'.state = eng.state /\ PortInv
      /\ Len(to') = Bits /\ task.pc = "write" /\ CalmNone /\ task.byte \in Byte /\ eng.state \in States
  BY Bits0 DEF FetchDoes, HeadByte, WireInv, TypeInv
<1>2. Head(to) = Script(task.byte, Bits) /\ Head(to) \in {"0", "1"}
  BY ScriptIs, Bits0 DEF HeadByte
<1>3. CASE eng.state = "WRITING"
  <2>1. eng'.item = Script(task.byte, Bits) /\ Left' = 3 /\ m' = m
    BY <1>2, <1>3 DEF FetchDoes
  <2>2. dev.state = "WRDATA" /\ dev.i = MSB /\ dev.data = {}
    BY <1>1, <1>3 DEF CalmNone, RestDev
  <2>3. AfterBits(0)'
    <3>1. High(task'.byte, Bits) = {}
      BY <1>1, HighNone
    <3>2. Bits - 0 = Bits /\ MSB - 0 = MSB /\ ~(0 > 0) /\ 0 < Bits /\ 0 # Bits
      BY Bits0
    <3> QED
      BY <1>1, <2>2, <3>1, <3>2 DEF AfterBits
  <2>4. AfterBits(Bits - Len(to))'
    <3>1. Bits - Len(to') = 0
      BY <1>1, Bits0
    <3> QED
      BY <2>3, <3>1 DEF AfterBits
  <2>5. SendBit'
    <3>1. eng'.item = Script(task'.byte, Len(to')) /\ Len(to') \in 1..Bits /\ eng'.state = "WRITING"
      BY <1>1, <1>3, <2>1, Bits0
    <3> QED
      BY <2>1, <2>4, <3>1 DEF SendBit
  <2> QED
    BY <1>1, <2>1, <2>5, PortKeeps DEF PhaseInv, Sending
<1>4. CASE eng.state = "IDLE"
  <2>1. eng' = eng /\ m' = m
    BY <1>2, <1>4 DEF FetchDoes
  <2>2. CalmNone'
    BY <1>1, <1>4, <2>1 DEF CalmNone, RestDev, Free0
  <2>3. Deaf'
    BY <1>1, <1>4, <2>1, <2>2, Bits0 DEF Deaf
  <2> QED
    BY <1>1, <2>1, <2>3, PortKeeps DEF PhaseInv, Sending
<1>5. CASE eng.state = "READING"
  <2>1. eng'.item \in {"0", "1"} /\ m' = m
    BY <1>2, <1>5 DEF FetchDoes
  <2>2. Deaf'
    BY <1>1, <1>5, <2>1, Bits0 DEF Deaf
  <2> QED
    BY <1>1, <2>1, <2>2, PortKeeps DEF PhaseInv, Sending
<1> QED
  BY <1>1, <1>3, <1>4, <1>5 DEF States, CalmNone, RestDev

LEMMA FetchAddr == ASSUME WireInv, FetchDoes, to # <<>>, HeadAddr PROVE PhaseInv' /\ PortInv'
<1>1. /\ UNCHANGED <<task, from, addressed, bus, ssda, dev>> /\ eng'.state = "DEVID" /\ eng.state = "DEVID" /\ PortInv
      /\ Len(to') = Len(to) - 1 /\ Len(to) \in 1..(Bits + 1) /\ Sent /\ AddrNone /\ eng'.rwbit = eng.rwbit
      /\ Head(to) = Script(Addr, Len(to) - 1) /\ eng'.item = Head(to)
  BY Bits0 DEF FetchDoes, HeadAddr, WireInv, AddrNone
<1>2. Sent' /\ Addr' = Addr /\ (Rw' <=> Rw)
  BY <1>1 DEF Sent, Addr, Rw
<1>4. CASE Len(to) = 1
  <2>1. eng'.item = "Z" /\ Left' = 2 /\ m'.scl /\ to' = <<>>
    <3>1. Head(to) = "Z"
      BY <1>1, <1>4, ScriptIs, Bits0
    <3>2. to' \in Seq(Items) /\ Len(to') = 0
      BY <1>1, <1>4 DEF FetchDoes, TypeInv
    <3> QED
      BY <1>1, <3>1, <3>2 DEF FetchDoes
  <2>2. AfterRises(Bits) /\ (eng.rwbit <=> Rw)
    <3>1. AfterRises(Bits)
      <4>1. Bits + 1 - Len(to) = Bits
        BY <1>4, Bits0
      <4> QED
        BY <1>1, <4>1 DEF AddrNone
    <3>2. eng.rwbit <=> Script(Addr, 1) = "1"
      BY <1>1, <1>4, Bits0 DEF AddrNone
    <3>3. Script(Addr, 1) = "1" <=> 0 \in Addr
      BY ScriptIs, Bits0
    <3> QED
      BY <1>1, <3>1, <3>2, <3>3, AddrRw DEF WireInv
  <2>3. AfterRises(Bits)'
    BY <1>1, <1>2, <2>2 DEF AfterRises
  <2>4. AddrZ'
    BY <1>1, <1>2, <2>1, <2>2, <2>3 DEF AddrZ
  <2> QED
    BY <1>1, <1>2, <2>1, <2>4, PortKeeps DEF PhaseInv, Addressing
<1>5. CASE Len(to) > 1
  <2>1. Len(to) - 1 \in 1..Bits /\ Len(to) - 1 \in 0..(Bits + 1)
    BY <1>1, <1>5, Bits0
  <2>2. Head(to) \in {"0", "1"}
    BY <1>1, <2>1, ScriptIs
  <2>3. Left' = 3 /\ m' = m
    BY <1>1, <2>2 DEF FetchDoes
  <2>4. AfterRises(Bits - Len(to))'
    <3>1. Bits + 1 - Len(to) = Bits - Len(to')
      BY <1>1, Bits0
    <3>2. AfterRises(Bits - Len(to'))
      BY <1>1, <3>1 DEF AddrNone
    <3> QED
      BY <1>1, <1>2, <3>2 DEF AfterRises
  <2>5. AddrBit'
    BY <1>1, <1>2, <2>1, <2>3, <2>4 DEF AddrBit
  <2> QED
    BY <1>1, <1>2, <2>3, <2>5, PortKeeps DEF PhaseInv, Addressing
<1> QED
  BY <1>1, <1>4, <1>5

LEMMA FetchSend == ASSUME WireInv, FetchDoes, to # <<>>, HeadSend PROVE PhaseInv' /\ PortInv'
<1>1. /\ UNCHANGED <<task, from, addressed, bus, ssda, dev>> /\ eng'.state = eng.state /\ PortInv
      /\ Len(to') = Len(to) - 1 /\ Len(to) \in 1..Bits /\ task.pc = "write" /\ eng.item = None
      /\ Head(to) = Script(task.byte, Len(to) - 1)
  BY HeadIs, Bits0 DEF FetchDoes, HeadSend, WireInv
<1>2. Len(to) - 1 \in 0..Bits /\ Len(to) - 1 \in 0..(Bits + 1)
  BY <1>1, Bits0
<1>3. Len(to) = 1 => Head(to) = "Z" /\ to' = <<>>
  <2> SUFFICES ASSUME Len(to) = 1 PROVE Head(to) = "Z" /\ to' = <<>>
    OBVIOUS
  <2>1. Head(to) = "Z"
    BY <1>1, <1>2, ScriptIs, Bits0
  <2>2. to' \in Seq(Items) /\ Len(to') = 0
    BY <1>1 DEF FetchDoes, TypeInv
  <2> QED
    BY <2>1, <2>2
<1>4. Len(to) > 1 => Head(to) \in {"0", "1"} /\ Len(to) - 1 \in 1..Bits
  <2> SUFFICES ASSUME Len(to) > 1 PROVE Head(to) \in {"0", "1"} /\ Len(to) - 1 \in 1..Bits
    OBVIOUS
  <2>1. Len(to) - 1 \in 1..Bits
    BY <1>1, Bits0
  <2> QED
    BY <1>1, <1>2, <2>1, ScriptIs
<1>5. CASE SendNone
  <2>1. eng.state = "WRITING" /\ AfterBits(Bits + 1 - Len(to))
    BY <1>5 DEF SendNone
  <2>2. CASE Len(to) = 1
    <3>1. eng'.item = "Z" /\ Left' = 2 /\ m'.scl /\ to' = <<>>
      BY <1>3, <2>1, <2>2 DEF FetchDoes
    <3>2. AfterBits(Bits)'
      <4>1. Bits + 1 - Len(to) = Bits
        BY <2>2, Bits0
      <4>2. AfterBits(Bits)
        BY <2>1, <4>1
      <4> QED
        BY <1>1, <4>2 DEF AfterBits
    <3>3. SendZ'
      BY <1>1, <2>1, <3>1, <3>2 DEF SendZ
    <3> QED
      BY <1>1, <3>1, <3>3, PortKeeps DEF PhaseInv, Sending
  <2>3. CASE Len(to) > 1
    <3>1. eng'.item = Head(to) /\ Left' = 3 /\ m' = m
      BY <1>4, <2>1, <2>3 DEF FetchDoes
    <3>2. AfterBits(Bits - Len(to))'
      <4>1. Bits + 1 - Len(to) = Bits - Len(to')
        BY <1>1, Bits0
      <4>2. AfterBits(Bits - Len(to'))
        BY <2>1, <4>1
      <4> QED
        BY <1>1, <4>2 DEF AfterBits
    <3>3. SendBit'
      BY <1>1, <1>4, <2>1, <2>3, <3>1, <3>2 DEF SendBit
    <3> QED
      BY <1>1, <3>1, <3>3, PortKeeps DEF PhaseInv, Sending
  <2> QED
    BY <1>1, <2>2, <2>3
<1>6. CASE Deaf
  <2>1. Head(to) \in {"Z", "0", "1"}
    BY <1>1, <1>3, <1>4
  <2>2. CASE eng.state = "IDLE"
    <3>1. eng' = eng /\ m' = m
      BY <2>1, <2>2 DEF FetchDoes
    <3>2. CalmNone
      BY <1>1, <1>6, <2>2, NoneAssumption DEF Deaf, CalmZ
    <3>3. CalmNone'
      BY <1>1, <2>2, <3>1, <3>2 DEF CalmNone, RestDev, Free0
    <3>4. Deaf'
      BY <1>1, <2>2, <3>1, <3>3, Bits0 DEF Deaf
    <3> QED
      BY <1>1, <3>1, <3>4, PortKeeps DEF PhaseInv, Sending
  <2>3. CASE eng.state = "READING"
    <3>1. eng'.item = Head(to) /\ (m' = m \/ m'.scl)
      BY <2>1, <2>3 DEF FetchDoes
    <3>2. Head(to) = "Z" => to' = <<>>
      <4>1. Len(to) = 1 \/ Len(to) > 1
        BY <1>1
      <4> QED
        BY <1>3, <1>4, <4>1
    <3>3. Deaf'
      BY <1>1, <2>1, <2>3, <3>1, <3>2, Bits0 DEF Deaf
    <3> QED
      BY <1>1, <3>1, <3>3, PortKeeps DEF PhaseInv, Sending
  <2> QED
    BY <1>6, <2>2, <2>3 DEF Deaf
<1> QED
  BY <1>5, <1>6 DEF HeadSend

LEMMA FetchDeaf == ASSUME WireInv, FetchDoes, to # <<>>, HeadDeaf PROVE PhaseInv' /\ PortInv'
<1>1. /\ UNCHANGED <<task, from, addressed, bus, ssda, dev>> /\ eng'.state = eng.state /\ PortInv
      /\ Len(to') = Bits /\ task.pc = "write" /\ Deaf /\ eng.item = None
  BY Bits0 DEF FetchDoes, HeadDeaf, WireInv
<1>2. Head(to) \in {"0", "1"}
  BY ScriptIs, Bits0 DEF HeadDeaf
<1>4. CASE eng.state = "IDLE"
  <2>1. eng' = eng /\ m' = m
    BY <1>2, <1>4 DEF FetchDoes
  <2>2. CalmNone
    BY <1>1, <1>4, NoneAssumption DEF Deaf, CalmZ
  <2>3. CalmNone'
    BY <1>1, <1>4, <2>1, <2>2 DEF CalmNone, RestDev, Free0
  <2>4. Deaf'
    BY <1>1, <1>4, <2>1, <2>3, Bits0 DEF Deaf
  <2> QED
    BY <1>1, <2>1, <2>4, PortKeeps DEF PhaseInv, Sending
<1>5. CASE eng.state = "READING"
  <2>1. eng'.item \in {"0", "1"} /\ m' = m
    BY <1>2, <1>5 DEF FetchDoes
  <2>2. Deaf'
    BY <1>1, <1>5, <2>1, Bits0 DEF Deaf
  <2> QED
    BY <1>1, <2>1, <2>2, PortKeeps DEF PhaseInv, Sending
<1> QED
  BY <1>1, <1>4, <1>5 DEF Deaf

LEMMA FetchColl == ASSUME WireInv, FetchDoes, to # <<>>, HeadColl PROVE PhaseInv' /\ PortInv'
<1>1. /\ UNCHANGED <<task, from, addressed, bus, ssda, dev>> /\ eng'.state = eng.state /\ PortInv /\ to' = Tail(to)
      /\ task.pc = "collect" /\ eng.state = "READING" /\ task.bit < task.size * Bits /\ CollNone
  BY DEF FetchDoes, HeadColl, WireInv, Collecting
<1>2. CASE to = <<"A", "Z">> /\ Whole(Len(from)) /\ dev.state = "ACKNACK"
  <2>1. Head(to) = "A" /\ to' = <<"Z">>
    BY <1>1, <1>2
  <2>2. eng'.item = "A" /\ Left' = 3 /\ m' = m
    BY <1>1, <2>1 DEF FetchDoes
  <2>3. CollA'
    BY <1>1, <1>2, <2>1, <2>2 DEF CollA
  <2> QED
    BY <1>1, <2>2, <2>3, PortKeeps DEF PhaseInv, Collecting
<1>3. CASE to = <<"Z">> /\ Reads(Len(from))
  <2>1. Head(to) = "Z" /\ to' = <<>>
    BY <1>1, <1>3
  <2>2. eng'.item = "Z" /\ Left' = 2 /\ m'.scl
    BY <1>1, <2>1 DEF FetchDoes
  <2>3. CollZ'
    BY <1>1, <1>3, <2>1, <2>2 DEF CollZ, Reads
  <2> QED
    BY <1>1, <2>2, <2>3, PortKeeps DEF PhaseInv, Collecting
<1> QED
  BY <1>1, <1>2, <1>3 DEF CollNone

LEMMA FetchInv == ASSUME WireInv, Fetch PROVE WireInv'
<1>1. FetchDoes /\ to # <<>> /\ eng.item = None
  BY FetchFacts DEF Fetch
<1>2. TypeInv' /\ EngInv'
  BY <1>1 DEF FetchDoes
<1>3. ToInv' /\ FromInv'
  BY <1>1, FetchToInv, FetchFromInv
<1>4. PhaseInv' /\ PortInv'
  BY <1>1, HeadIs, FetchEarly, FetchStart, FetchByte, FetchAddr, FetchSend, FetchDeaf, FetchColl
<1> QED
  BY <1>2, <1>3, <1>4 DEF WireInv

(***************************************************************************)
(* The end of a wait of the engine.                                        *)
(***************************************************************************)

Sampling == eng.item = "Z" /\ Left = 2

\* What the end of a wait changes, and what it leaves.
ClockDoes ==
  /\ UNCHANGED <<task, to, addressed, bus, ssda, dev>>
  /\ eng.item \in Items /\ eng.item # None /\ Left \in 1..4 /\ Left' = Left - 1 /\ m' \in Lines
  /\ (bus.sda <=> ~m.sda /\ ~ssda) /\ (bus.scl <=> ~m.scl)
  /\ task.pc = "idle" \/ Len(from) <= task.bit
  /\ from' = IF Sampling THEN Append(from, Answer) ELSE from
  /\ eng'.item = IF Left = 1 THEN None ELSE eng.item
  /\ eng'.state = IF Sampling THEN Answered
                  ELSE IF Left # 1 THEN eng.state
                  ELSE IF eng.item = "S" THEN "DEVID"
                  ELSE IF eng.item \in {"P", "N"} THEN "IDLE"
                  ELSE eng.state
  /\ eng.item = "Z" => eng'.rwbit = eng.rwbit
  /\ eng.item \in {"0", "1"} /\ eng.state = "DEVID" /\ Left = 1 => (eng'.rwbit <=> eng.item = "1")
  /\ eng.item = "S" => eng.state # "DEVID" /\ StartDoes
  /\ eng.item = "P" => eng.state # "DEVID" /\ StopDoes
  /\ eng.item = "Z" => SampleDoes
  /\ eng.item \in {"A", "N"} => eng.state = "READING" /\ BitDoes
  /\ eng.item \in {"0", "1"} /\ eng.state # "READING" => eng.state # "IDLE" /\ BitDoes
  /\ eng.item \in {"0", "1"} /\ eng.state = "READING" => Left = 1 /\ m' = m /\ m.scl

LEMMA ClockFacts == ASSUME WireInv, Clock PROVE ClockDoes /\ TypeInv' /\ EngInv'
<1>1. TypeInv /\ EngInv /\ m \in Lines /\ bus \in Lines /\ ssda \in BOOLEAN /\ from \in Seq(Items)
  BY DEF WireInv, TypeInv
<1>2. /\ EngInv' /\ m' \in Lines /\ eng.item \in Items /\ Left \in 1..4 /\ Left' = Left - 1
      /\ eng'.item = IF Left = 1 THEN None ELSE eng.item
      /\ eng'.state = IF eng.item = "Z" /\ Left = 2 THEN Answered
                      ELSE IF Left = 1 THEN Finished(eng.state, eng.item) ELSE eng.state
      /\ eng.item = "S" => eng.state # "DEVID" /\ StartDoes
      /\ eng.item = "P" => eng.state # "DEVID" /\ StopDoes
      /\ eng.item = "Z" => SampleDoes
      /\ eng.item \in {"A", "N"} => eng.state = "READING" /\ BitDoes
      /\ eng.item \in {"0", "1"} /\ eng.state # "READING" => eng.state # "IDLE" /\ BitDoes
      /\ eng.item \in {"0", "1"} /\ eng.state = "READING" => Left = 1 /\ m' = m /\ m.scl
  BY <1>1, ClockStep
<1>3. UNCHANGED <<task, to, addressed, bus, ssda, dev>> /\ eng.item # None /\ Settled /\ ~Woken
  BY DEF Clock, wire, hist, port
<1>4. (bus.sda <=> ~m.sda /\ ~ssda) /\ (bus.scl <=> ~m.scl)
  BY <1>1, <1>3, LinesResolved
<1>5. from' = IF Sampling THEN Append(from, Answer) ELSE from
  BY DEF Clock, Sampling, Left
<1>6. /\ eng.item = "Z" => eng'.rwbit = eng.rwbit
      /\ eng.item \in {"0", "1"} /\ eng.state = "DEVID" /\ Left = 1 => (eng'.rwbit <=> eng.item = "1")
      /\ eng' = [state |-> eng'.state, item |-> eng'.item, wave |-> eng'.wave, rwbit |-> eng'.rwbit]
      /\ eng'.rwbit \in BOOLEAN
  <2>1. PICK it, st, rw : /\ eng' = [item |-> it, wave |-> Tail(eng.wave), state |-> st, rwbit |-> rw]
                          /\ rw = IF Len(eng.wave) = 1 /\ (eng.item \in {"0", "1"} /\ eng.state \in {"DEVID", "WRITING"})
                                  THEN eng.item = "1" ELSE eng.rwbit
    BY DEF Clock
  <2>2. rw \in BOOLEAN
    BY <1>1, <2>1 DEF TypeInv
  <2>3. eng'.rwbit = rw
    BY <2>1
  <2>4. eng.item = "Z" => rw = eng.rwbit
    BY <2>1
  <2>5. eng.item \in {"0", "1"} /\ eng.state = "DEVID" /\ Left = 1 => (rw <=> eng.item = "1")
    BY <2>1 DEF Left
  <2>6. eng' = [state |-> eng'.state, item |-> eng'.item, wave |-> eng'.wave, rwbit |-> eng'.rwbit]
    BY <2>1
  <2> QED
    BY <2>2, <2>3, <2>4, <2>5, <2>6
<1>7. Finished(eng.state, eng.item) = IF eng.item = "S" THEN "DEVID"
                  ELSE IF eng.item \in {"P", "N"} THEN "IDLE"
                  ELSE eng.state
  BY <1>2 DEF Finished
<1>8. task.pc = "idle" \/ Len(from) <= task.bit
  BY <1>1, <1>3 DEF Woken, TypeInv
<1>9. ClockDoes
  <2>1. eng'.state = IF Sampling THEN Answered
                  ELSE IF Left # 1 THEN eng.state
                  ELSE IF eng.item = "S" THEN "DEVID"
                  ELSE IF eng.item \in {"P", "N"} THEN "IDLE"
                  ELSE eng.state
    BY <1>2, <1>7 DEF Sampling
  <2> QED
    BY <1>2, <1>3, <1>4, <1>5, <1>6, <1>8, <2>1 DEF ClockDoes
<1>10. TypeInv'
  <2>1. eng'.state \in States
    BY <1>1, <1>2, <1>7, AnsweredState DEF TypeInv, States
  <2>2. eng'.item \in Items \cup {None}
    BY <1>2
  <2>3. from' \in Seq(Items)
    <3>1. Answer \in Items
      BY <1>1, AnsweredState DEF Items
    <3> QED
      BY <1>1, <1>5, <3>1
  <2>4. /\ task' \in [pc : Calls, byte : Byte, size : Nat, stop : BOOLEAN, bit : Nat] /\ to' \in Seq(Items)
        /\ bus' \in Lines /\ ssda' \in BOOLEAN /\ dev' \in DevType
        /\ addressed' \in [addr : {None} \cup SUBSET (0..(Bits - 2)), ok : BOOLEAN]
    BY <1>1, <1>3 DEF TypeInv
  <2> QED
    BY <1>2, <1>6, <2>1, <2>2, <2>3, <2>4 DEF TypeInv
<1> QED
  BY <1>2, <1>9, <1>10

LEMMA ClockPort == ASSUME WireInv, ClockDoes PROVE PortInv'
<1>1. PortInv /\ UNCHANGED <<bus, ssda, dev>> /\ m \in Lines
  BY DEF WireInv, TypeInv, ClockDoes
<1>2. m.scl /\ ~m'.scl => (m'.sda <=> m.sda)
  <2>1. eng.item = "S" => (m.scl /\ ~m'.scl => (m'.sda <=> m.sda))
    BY DEF ClockDoes, StartDoes
  <2>2. eng.item = "P" => (m.scl /\ ~m'.scl => (m'.sda <=> m.sda))
    BY DEF ClockDoes, StopDoes
  <2>3. eng.item = "Z" => (m.scl /\ ~m'.scl => (m'.sda <=> m.sda))
    BY DEF ClockDoes, SampleDoes
  <2>4. BitDoes => (m.scl /\ ~m'.scl => (m'.sda <=> m.sda))
    BY DEF BitDoes
  <2> QED
    BY <2>1, <2>2, <2>3, <2>4 DEF ClockDoes, Items
<1>3. ~bus.scl /\ ~m'.scl => (bus.sda <=> ~m'.sda /\ ~ssda)
  BY <1>2 DEF ClockDoes
<1> QED
  BY <1>1, <1>3, PortKeeps

\* The engine and the device between the calls.
LEMMA ClockCalm == ASSUME WireInv, ClockDoes, Calm PROVE Calm' /\ ~Sampling
<1>1. /\ UNCHANGED <<bus, ssda, dev>> /\ eng.item # None /\ Left \in 1..4 /\ Left' = Left - 1
      /\ (bus.sda <=> ~m.sda /\ ~ssda) /\ (bus.scl <=> ~m.scl)
      /\ eng'.item = IF Left = 1 THEN None ELSE eng.item
  BY DEF ClockDoes
<1>2. CASE CalmZ
  <2>1. eng.item = "Z" /\ Left = 1 /\ eng.state # "DEVID" /\ (eng.state = "IDLE" => Free0) /\ (bus.scl => RestDev)
    BY <1>2 DEF CalmZ
  <2>2. ~m'.sda /\ bus.scl
    BY <1>1, <2>1 DEF ClockDoes, SampleDoes
  <2>3. eng'.item = None /\ eng'.state = eng.state /\ ~Sampling
    BY <1>1, <2>1 DEF ClockDoes, Sampling
  <2>4. CalmNone'
    BY <1>1, <2>1, <2>2, <2>3 DEF CalmNone, RestDev, Free0
  <2> QED
    BY <2>3, <2>4 DEF Calm
<1>3. CASE CalmN
  <2>1. /\ eng.item = "N" /\ eng.state = "READING" /\ BitDoes /\ ~Sampling /\ Left \in 1..3 /\ ~m'.sda
        /\ Left > 1 => RestDev
        /\ Left = 1 => IF bus.scl THEN dev.state = "IDLE" /\ ~ssda ELSE RestDev
    BY <1>1, <1>3 DEF CalmN, ClockDoes, Sampling, BitDoes, Lows
  <2>2. CASE Left = 3
    BY <1>1, <2>1, <2>2 DEF ClockDoes, Sampling, CalmN, RestDev, Calm
  <2>3. CASE Left = 2
    <3>1. eng'.item = "N" /\ Left' = 1 /\ eng'.state = "READING" /\ ~m.sda /\ ~bus.scl
      BY <1>1, <2>1, <2>3 DEF ClockDoes, Sampling, BitDoes, Lows
    <3> QED
      BY <1>1, <2>1, <2>3, <3>1 DEF CalmN, RestDev, Calm, Still
  <2>4. CASE Left = 1
    <3>1. eng'.item = None /\ eng'.state = "IDLE" /\ ~m.sda /\ bus.scl
      BY <1>1, <2>1, <2>4 DEF ClockDoes, Sampling, BitDoes, Lows
    <3> QED
      BY <1>1, <2>1, <2>4, <3>1 DEF CalmNone, RestDev, Calm, Free0
  <2> QED
    BY <2>1, <2>2, <2>3, <2>4
<1>4. CASE CalmP
  <2>1. eng.item = "P" /\ StopDoes /\ ~Sampling /\ (Left # 1 => eng'.state = eng.state) /\ (Left = 1 => eng'.state = "IDLE")
    BY <1>1, <1>4 DEF CalmP, ClockDoes, Sampling
  <2>2. CASE Left = 4
    <3>1. RestDev /\ (eng.state = "IDLE" => Free0) /\ m'.scl = m.scl /\ (eng.state # "IDLE" => m.scl)
      BY <1>4, <2>1, <2>2 DEF CalmP, StopDoes
    <3> QED
      BY <1>1, <2>1, <2>2, <3>1 DEF CalmP, RestDev, Calm, Free0
  <2>3. CASE Left = 3
    <3>1. IF m.scl THEN RestDev /\ ~bus.scl ELSE bus.scl /\ ~ssda
      BY <1>4, <2>3 DEF CalmP
    <3> QED
      BY <1>1, <2>1, <2>3, <3>1 DEF CalmP, RestDev, Calm
  <2>4. CASE Left = 2
    <3>1. (IF bus.scl THEN ~ssda ELSE RestDev) /\ m.sda /\ ~m.scl
      BY <1>4, <2>1, <2>4 DEF CalmP, StopDoes
    <3> QED
      BY <1>1, <2>1, <2>4, <3>1 DEF CalmP, Calm
  <2>5. CASE Left = 1
    <3>1. bus.scl /\ ~ssda /\ (bus.sda => dev.state = "IDLE") /\ m' = m /\ ~m.sda /\ ~m.scl
      BY <1>4, <2>1, <2>5 DEF CalmP, StopDoes
    <3> QED
      BY <1>1, <2>1, <2>5, <3>1 DEF CalmNone, RestDev, Calm, Free0
  <2> QED
    BY <1>1, <2>2, <2>3, <2>4, <2>5
<1> QED
  BY <1>1, <1>2, <1>3, <1>4 DEF Calm, CalmNone

LEMMA NotWoken ==
  ASSUME WireInv, ClockDoes, task.pc # "idle"
  PROVE  /\ Sent => ~Fresh /\ from = <<>>
         /\ task.pc = "write" /\ eng.state = "WRITING" => ~Fresh /\ from = <<>> /\ task.bit = 0
         /\ task.pc \in {"write", "collect"} => Len(from) = task.bit
<1>1. task.bit \in Nat /\ from \in Seq(Items) /\ Len(from) \in Nat /\ Len(from) <= task.bit
  BY DEF WireInv, TypeInv, ClockDoes
<1>2. Sent => ~Fresh /\ from = <<>>
  <2> SUFFICES ASSUME Sent PROVE ~Fresh /\ from = <<>>
    OBVIOUS
  <2>1. task.bit = 0 /\ from = IF Fresh THEN <<IF addressed.addr = DeviceId THEN "A" ELSE "N">> ELSE <<>>
    BY DEF WireInv, FromInv, ToInv
  <2> QED
    BY <1>1, <2>1
<1>3. task.pc = "write" /\ eng.state = "WRITING" => ~Fresh /\ from = <<>> /\ task.bit = 0
  <2> SUFFICES ASSUME task.pc = "write", eng.state = "WRITING" PROVE ~Fresh /\ from = <<>> /\ task.bit = 0
    OBVIOUS
  <2>1. task.bit = 0 /\ from = IF Fresh THEN <<"A">> ELSE <<>>
    BY DEF WireInv, FromInv
  <2> QED
    BY <1>1, <2>1
<1>4. task.pc \in {"write", "collect"} => Len(from) = task.bit
  BY <1>1 DEF WireInv, FromInv
<1> QED
  BY <1>2, <1>3, <1>4

\* The enables during an item with one clock.
LEMMA ClockBit ==
  ASSUME WireInv, ClockDoes, BitDoes
  PROVE  /\ Left \in 1..3 /\ (m'.sda <=> eng.item \in Lows)
         /\ Left # 3 => (m.sda <=> m'.sda)
         /\ Left = 2 => ~bus.scl /\ Still'
         /\ Left = 1 => bus.scl
<1>1. /\ UNCHANGED <<bus, ssda, dev>> /\ (bus.sda <=> ~m.sda /\ ~ssda) /\ (bus.scl <=> ~m.scl)
  BY DEF ClockDoes
<1> QED
  BY <1>1 DEF BitDoes, Still

LEMMA ClockAddr ==
  ASSUME WireInv, ClockDoes, Addressing
  PROVE  Addressing' /\ (Sampling => to = <<>> /\ eng.state = "DEVID" /\ (bus.sda <=> addressed.addr # DeviceId))
<1>1. /\ UNCHANGED <<task, to, addressed, bus, ssda, dev>> /\ eng.item # None /\ Left \in 1..4 /\ Left' = Left - 1
      /\ (bus.sda <=> ~m.sda /\ ~ssda) /\ (bus.scl <=> ~m.scl)
      /\ eng'.item = IF Left = 1 THEN None ELSE eng.item
  BY DEF ClockDoes
<1>2. Sent /\ Sent' /\ Addr' = Addr /\ (Rw' <=> Rw)
  BY <1>1 DEF Addressing, Sent, Addr, Rw
<1>3. CASE AddrS
  <2>1. Len(to) = Bits + 1 /\ eng.item = "S" /\ StartDoes /\ ~Sampling
    BY <1>3 DEF AddrS, ClockDoes, Sampling
  <2>2. CASE Left = 3
    <3>1. bus.scl /\ ~ssda /\ bus.sda
      BY <1>1, <1>3, <2>1, <2>2 DEF AddrS, StartDoes
    <3>2. AddrS'
      BY <1>1, <2>1, <2>2, <3>1 DEF AddrS
    <3> QED
      BY <1>2, <2>1, <3>2 DEF Addressing
  <2>3. CASE Left = 2
    <3>1. AfterRises(0)
      BY <1>1, <1>3, <2>1, <2>3 DEF AddrS, StartDoes
    <3>2. AfterRises(0)'
      BY <1>1, <1>2, <3>1 DEF AfterRises
    <3>3. AddrS'
      BY <1>1, <2>1, <2>3, <3>2 DEF AddrS
    <3> QED
      BY <1>2, <2>1, <3>3 DEF Addressing
  <2>4. CASE Left = 1
    <3>1. AfterRises(0)
      BY <1>3, <2>4 DEF AddrS
    <3>2. AfterRises(Bits + 1 - Len(to))'
      <4>1. Bits + 1 - Len(to') = 0
        BY <1>1, <2>1, Bits0
      <4> QED
        BY <1>1, <1>2, <3>1, <4>1 DEF AfterRises
    <3>3. eng'.state = "DEVID" /\ eng'.item = None
      BY <1>1, <2>1, <2>4 DEF ClockDoes
    <3>4. AddrNone'
      BY <1>1, <2>1, <3>2, <3>3, Bits0 DEF AddrNone
    <3> QED
      BY <1>2, <2>1, <3>4 DEF Addressing
  <2> QED
    BY <2>1, <2>2, <2>3, <2>4 DEF StartDoes
<1>4. CASE AddrBit
  <2>1. /\ Len(to) \in 1..Bits /\ Len(to) \in 0..(Bits + 1) /\ eng.item = Script(Addr, Len(to)) /\ eng.state = "DEVID"
        /\ Left > 1 => AfterRises(Bits - Len(to))
        /\ Left = 1 /\ bus.scl => AfterRises(Bits + 1 - Len(to))
    BY <1>4, Bits0 DEF AddrBit
  <2>2. eng.item \in {"0", "1"}
    BY <2>1, ScriptIs
  <2>3. BitDoes /\ ~Sampling /\ (Left = 1 => (eng'.rwbit <=> eng.item = "1"))
    BY <2>1, <2>2 DEF ClockDoes, Sampling
  <2>4. eng'.state = "DEVID"
    BY <2>1, <2>2 DEF ClockDoes, Sampling
  <2>5. CASE Left = 3
    <3>1. AfterRises(Bits - Len(to))'
      BY <1>1, <1>2, <2>1, <2>5 DEF AfterRises
    <3>2. AddrBit'
      BY <1>1, <1>2, <2>1, <2>4, <2>5, <3>1 DEF AddrBit
    <3> QED
      BY <1>2, <2>3, <3>2 DEF Addressing
  <2>6. CASE Left = 2
    <3>1. AfterRises(Bits - Len(to))'
      BY <1>1, <1>2, <2>1, <2>6 DEF AfterRises
    <3>2. ~bus.scl /\ Still'
      BY <2>3, <2>6, ClockBit
    <3>3. AddrBit'
      BY <1>1, <1>2, <2>1, <2>4, <2>6, <3>1, <3>2 DEF AddrBit
    <3> QED
      BY <1>2, <2>3, <3>3 DEF Addressing
  <2>7. CASE Left = 1
    <3>1. AfterRises(Bits + 1 - Len(to))
      BY <2>1, <2>3, <2>7, ClockBit
    <3>2. AfterRises(Bits + 1 - Len(to))'
      BY <1>1, <1>2, <3>1 DEF AfterRises
    <3>3. AddrNone'
      BY <1>1, <1>2, <2>1, <2>3, <2>4, <2>7, <3>2, Bits0 DEF AddrNone
    <3> QED
      BY <1>2, <2>3, <3>3 DEF Addressing
  <2> QED
    BY <2>3, <2>5, <2>6, <2>7, ClockBit
<1>5. CASE AddrZ
  <2>1. to = <<>> /\ eng.item = "Z" /\ SampleDoes
    BY <1>5 DEF AddrZ, ClockDoes
  <2>2. CASE Left = 1
    <3>1. Fresh
      BY <2>1, <2>2 DEF Fresh
    <3> QED
      BY <1>2, <3>1, NotWoken DEF Sent
  <2>3. CASE Left = 2
    <3>1. eng.state = "DEVID" /\ AfterRises(Bits) /\ (eng.rwbit <=> Rw) /\ Sampling
      BY <1>5, <2>1, <2>3 DEF AddrZ, Sampling
    <3>2. ~m.sda /\ ~bus.scl /\ ~m'.sda /\ (bus.sda <=> ~ssda)
      BY <1>1, <2>1, <2>3 DEF SampleDoes
    <3>3. dev.state = IF addressed.addr # DeviceId THEN "RETZ" ELSE IF Rw THEN "ACKRD" ELSE "ACKWR"
      BY <3>1 DEF AfterRises
    <3>4. bus.sda <=> addressed.addr # DeviceId
      BY <3>2, <3>3 DEF WireInv, PortInv, Drive
    <3>5. eng'.state = IF addressed.addr # DeviceId THEN "IDLE" ELSE IF Rw THEN "READING" ELSE "WRITING"
      BY <3>1, <3>4 DEF ClockDoes, Answered
    <3>6. Still' /\ Left' = 1 /\ eng'.item = "Z"
      BY <1>1, <2>1, <2>3, <3>2 DEF Still
    <3>7. CASE addressed.addr # DeviceId
      <4>1. CalmZ'
        BY <1>1, <3>2, <3>3, <3>4, <3>5, <3>6, <3>7 DEF CalmZ, Free0
      <4> QED
        BY <1>1, <1>2, <2>1, <3>1, <3>4, <3>5, <3>6, <3>7, <4>1 DEF AddrZ, Addressing
    <3>8. CASE addressed.addr = DeviceId /\ ~Rw
      <4>1. CalmZ'
        BY <1>1, <3>2, <3>3, <3>4, <3>5, <3>6, <3>8 DEF CalmZ, Free0
      <4> QED
        BY <1>1, <1>2, <2>1, <3>1, <3>4, <3>5, <3>6, <3>8, <4>1 DEF AddrZ, Addressing
    <3>9. CASE addressed.addr = DeviceId /\ Rw
      BY <1>1, <1>2, <2>1, <3>1, <3>2, <3>3, <3>4, <3>5, <3>6, <3>9 DEF AddrZ, Addressing
    <3> QED
      BY <3>7, <3>8, <3>9
  <2> QED
    BY <2>1, <2>2, <2>3 DEF SampleDoes
<1> QED
  BY <1>1, <1>3, <1>4, <1>5 DEF Addressing, AddrNone

LEMMA ClockSend ==
  ASSUME WireInv, ClockDoes, Sending
  PROVE  Sending' /\ (Sampling => to = <<>> /\ eng.state \in {"WRITING", "READING"})
<1>1. /\ UNCHANGED <<task, to, addressed, bus, ssda, dev>> /\ eng.item # None /\ Left \in 1..4 /\ Left' = Left - 1
      /\ (bus.sda <=> ~m.sda /\ ~ssda) /\ (bus.scl <=> ~m.scl)
      /\ eng'.item = (IF Left = 1 THEN None ELSE eng.item) /\ task.pc = "write"
  BY DEF ClockDoes, Sending
<1>2. eng.state \in States
  BY DEF WireInv, TypeInv
<1>3. CASE SendBit
  <2>1. /\ Len(to) \in 1..Bits /\ Len(to) \in 0..(Bits + 1) /\ eng.item = Script(task.byte, Len(to)) /\ eng.state = "WRITING"
        /\ Left > 1 => AfterBits(Bits - Len(to))
        /\ Left = 1 => (bus.scl => AfterBits(Bits + 1 - Len(to))) \/ Lost
    BY <1>3, Bits0 DEF SendBit
  <2>2. eng.item \in {"0", "1"} /\ (Lost => eng.item = "1")
    <3>1. eng.item = IF Len(to) - 1 \in task.byte THEN "1" ELSE "0"
      BY <2>1, ScriptIs
    <3> QED
      BY <3>1, Bits0 DEF Lost
  <2>3. BitDoes /\ ~Sampling /\ eng'.state = "WRITING"
    BY <2>1, <2>2 DEF ClockDoes, Sampling
  <2>4. CASE Left = 3
    <3>1. AfterBits(Bits - Len(to))'
      BY <1>1, <2>1, <2>4 DEF AfterBits
    <3>2. SendBit'
      BY <1>1, <2>1, <2>3, <2>4, <3>1 DEF SendBit
    <3> QED
      BY <1>1, <2>3, <3>2 DEF Sending
  <2>5. CASE Left = 2
    <3>1. AfterBits(Bits - Len(to))'
      BY <1>1, <2>1, <2>5 DEF AfterBits
    <3>2. ~bus.scl /\ Still'
      BY <2>3, <2>5, ClockBit
    <3>3. SendBit'
      BY <1>1, <2>1, <2>3, <2>5, <3>1, <3>2 DEF SendBit
    <3> QED
      BY <1>1, <2>3, <3>3 DEF Sending
  <2>6. CASE Left = 1
    <3>0. ~Lost
      <4> SUFFICES ASSUME Lost PROVE FALSE
        OBVIOUS
      <4>1. ~m.sda /\ ~ssda /\ ~bus.sda
        BY <2>2, <2>3, <2>6, ClockBit DEF Lost, Lows
      <4> QED
        BY <1>1, <4>1
    <3>1. AfterBits(Bits + 1 - Len(to))
      BY <2>1, <2>3, <2>6, <3>0, ClockBit
    <3>2. AfterBits(Bits + 1 - Len(to))'
      BY <1>1, <3>1 DEF AfterBits
    <3>3. SendNone'
      BY <1>1, <2>1, <2>3, <2>6, <3>2 DEF SendNone
    <3> QED
      BY <1>1, <2>3, <3>3 DEF Sending
  <2> QED
    BY <2>3, <2>4, <2>5, <2>6, ClockBit
<1>4. CASE SendZ
  <2>1. to = <<>> /\ eng.item = "Z" /\ SampleDoes /\ eng.state = "WRITING"
    BY <1>4 DEF SendZ, ClockDoes
  <2>2. CASE Left = 1
    <3>1. Fresh
      BY <2>1, <2>2 DEF Fresh
    <3> QED
      BY <1>1, <2>1, <3>1, NotWoken
  <2>3. CASE Left = 2
    <3>1. AfterBits(Bits) /\ Sampling
      BY <1>4, <2>1, <2>3 DEF SendZ, Sampling
    <3>2. ~m.sda /\ ~bus.scl /\ ~m'.sda /\ (bus.sda <=> ~ssda)
      BY <1>1, <2>1, <2>3 DEF SampleDoes
    <3>3. Still' /\ Left' = 1 /\ eng'.item = "Z"
      BY <1>1, <2>1, <2>3, <3>2 DEF Still
    <3>4. eng'.state = IF bus.sda THEN "IDLE" ELSE "WRITING"
      <4>1. eng'.state = Answered
        BY <3>1 DEF ClockDoes
      <4> QED
        BY <2>1, <4>1 DEF Answered
    <3>5. CASE dev.state = "IDLE" /\ ~ssda
      <4>1. CalmZ' /\ eng'.state = "IDLE"
        BY <1>1, <3>2, <3>3, <3>4, <3>5 DEF CalmZ, Free0
      <4>2. Deaf'
        <5>1. Len(to') <= Bits + 1
          BY <1>1, <2>1, Bits0
        <5> QED
          BY <4>1, <5>1 DEF Deaf
      <4> QED
        BY <1>1, <2>1, <4>2 DEF Sending
    <3>6. CASE dev.state = "ACKWRD" /\ dev.data = task.byte
      <4>1. ssda
        BY <3>2, <3>6 DEF WireInv, PortInv, Drive
      <4>2. eng'.state = "WRITING"
        BY <3>2, <3>4, <4>1
      <4>3. CalmZ'
        BY <1>1, <3>2, <3>3, <3>6, <4>2 DEF CalmZ
      <4>4. SendZ'
        BY <1>1, <2>1, <3>3, <3>6, <4>2, <4>3 DEF SendZ
      <4> QED
        BY <1>1, <2>1, <4>4 DEF Sending
    <3> QED
      BY <3>1, <3>5, <3>6, Bits0 DEF AfterBits
  <2> QED
    BY <2>1, <2>2, <2>3 DEF SampleDoes
<1>5. CASE Deaf
  <2>1. CASE eng.state = "IDLE"
    <3>1. Calm /\ CalmZ
      BY <1>1, <1>5, <2>1 DEF Deaf, CalmNone, Calm
    <3>2. Calm' /\ ~Sampling
      BY <3>1, ClockCalm
    <3>3. eng'.item = None /\ eng'.state = "IDLE"
      BY <1>1, <2>1, <3>1, <3>2 DEF ClockDoes, CalmZ
    <3>4. CalmNone'
      BY <3>2, <3>3, NoneAssumption DEF Calm, CalmZ, CalmN, CalmP
    <3>5. Deaf'
      BY <1>1, <1>5, <3>3, <3>4 DEF Deaf
    <3> QED
      BY <1>1, <3>2, <3>5 DEF Sending
  <2>2. CASE eng.state = "READING"
    <3>1. eng.item \in {"0", "1", "Z"} /\ (Sampling => to = <<>>)
      BY <1>1, <1>5, <2>2 DEF Deaf, Sampling
    <3>2. eng'.state = "READING"
      <4>1. Answered = "READING"
        BY <2>2 DEF Answered
      <4> QED
        BY <2>2, <3>1, <4>1 DEF ClockDoes
    <3>3. eng.item = "Z" => Left \in 1..2
      BY DEF ClockDoes, SampleDoes
    <3>4. Deaf'
      BY <1>1, <1>5, <3>1, <3>2, <3>3 DEF Deaf
    <3> QED
      BY <1>1, <2>2, <3>1, <3>4 DEF Sending
  <2> QED
    BY <1>5, <2>1, <2>2 DEF Deaf
<1> QED
  BY <1>1, <1>3, <1>4, <1>5 DEF Sending, SendNone

LEMMA ClockColl ==
  ASSUME WireInv, ClockDoes, Collecting
  PROVE  Collecting' /\ (Sampling => to = <<>> /\ eng.state = "READING")
<1>1. /\ UNCHANGED <<task, to, addressed, bus, ssda, dev>> /\ eng.item # None /\ Left \in 1..4 /\ Left' = Left - 1
      /\ (bus.sda <=> ~m.sda /\ ~ssda) /\ (bus.scl <=> ~m.scl)
      /\ eng'.item = (IF Left = 1 THEN None ELSE eng.item)
      /\ task.pc = "collect" /\ eng.state = "READING" /\ task.bit < task.size * Bits
      /\ from \in Seq(Items) /\ Len(from) \in Nat /\ Len(from) = task.bit
  BY NotWoken DEF ClockDoes, Collecting, WireInv, TypeInv
<1>2. CASE CollZ
  <2>1. eng.item = "Z" /\ SampleDoes
    BY <1>2 DEF CollZ, ClockDoes
  <2>2. eng'.state = "READING"
    <3>1. Answered = "READING"
      BY <1>1 DEF Answered
    <3> QED
      BY <1>1, <2>1, <3>1 DEF ClockDoes
  <2>3. CASE Left = 2
    <3>1. to = <<>> /\ Reads(Len(from)) /\ Sampling
      BY <1>2, <2>1, <2>3 DEF CollZ, Sampling
    <3>2. from' = Append(from, Answer) /\ Answer \in Items
      BY <3>1, AnsweredState DEF ClockDoes, WireInv, Items
    <3>3. Len(from') = Len(from) + 1 /\ from' # <<>> /\ Len(from') - 1 = Len(from)
      BY <1>1, <3>2
    <3>4. ~m.sda /\ ~bus.scl /\ ~m'.sda /\ (bus.sda <=> ~ssda)
      BY <1>1, <2>1, <2>3 DEF SampleDoes
    <3>5. Still' /\ Left' = 1 /\ eng'.item = "Z"
      BY <1>1, <2>1, <2>3, <3>4 DEF Still
    <3>6. Reads(Len(from) - 1)'
      BY <1>1, <3>1, <3>3 DEF Reads
    <3>7. CollZ'
      BY <1>1, <3>1, <3>3, <3>4, <3>5, <3>6 DEF CollZ
    <3> QED
      BY <1>1, <2>2, <3>1, <3>7 DEF Collecting
  <2>4. CASE Left = 1
    <3>1. bus.scl /\ ~Sampling /\ eng'.item = None
      BY <1>1, <2>1, <2>4 DEF SampleDoes, Sampling
    <3>2. from' = from
      BY <3>1 DEF ClockDoes
    <3>3. /\ IF Whole(Len(from)) THEN dev.state = "ACKNACK" ELSE Reads(Len(from))
          /\ to = IF Whole(Len(from)) THEN <<"A", "Z">> ELSE <<"Z">>
      BY <1>1, <1>2, <2>4, <3>1 DEF CollZ
    <3>4. CollNone'
      BY <1>1, <3>1, <3>2, <3>3 DEF CollNone, Reads
    <3> QED
      BY <1>1, <2>2, <3>1, <3>4 DEF Collecting
  <2> QED
    BY <2>1, <2>3, <2>4 DEF SampleDoes
<1>3. CASE CollA
  <2>1. eng.item = "A" /\ BitDoes /\ ~Sampling /\ from' = from /\ eng'.state = "READING" /\ to = <<"Z">> /\ Whole(Len(from))
    BY <1>1, <1>3 DEF CollA, ClockDoes, Sampling
  <2>2. CASE Left = 3
    <3>1. CollA'
      BY <1>1, <1>3, <2>1, <2>2 DEF CollA
    <3> QED
      BY <1>1, <2>1, <3>1 DEF Collecting
  <2>3. CASE Left = 2
    <3>1. ~bus.scl /\ Still'
      BY <2>1, <2>3, ClockBit
    <3>2. CollA'
      BY <1>1, <1>3, <2>1, <2>3, <3>1 DEF CollA
    <3> QED
      BY <1>1, <2>1, <3>2 DEF Collecting
  <2>4. CASE Left = 1
    <3>1. bus.scl
      BY <2>1, <2>4, ClockBit
    <3>2. Reads(Len(from))
      BY <1>3, <2>4, <3>1 DEF CollA
    <3>3. CollNone'
      BY <1>1, <2>1, <2>4, <3>2 DEF CollNone, Reads
    <3> QED
      BY <1>1, <2>1, <3>3 DEF Collecting
  <2> QED
    BY <2>1, <2>2, <2>3, <2>4, ClockBit
<1> QED
  BY <1>1, <1>2, <1>3 DEF Collecting, CollNone

LEMMA ClockPhase ==
  ASSUME WireInv, ClockDoes
  PROVE  /\ PhaseInv'
         /\ Ahead /\ task.pc # "write" => Calm /\ Calm' /\ ~Sampling
         /\ Sampling => /\ to = <<>>
                        /\ Sent => eng.state = "DEVID" /\ (bus.sda <=> addressed.addr # DeviceId)
                        /\ task.pc = "write" => eng.state \in {"WRITING", "READING"}
                        /\ task.pc = "collect" => eng.state = "READING"
<1>1. UNCHANGED <<task, to>> /\ PhaseInv /\ Len(to) \in Nat
  BY DEF ClockDoes, WireInv, TypeInv
<1>2. Ahead /\ task.pc # "write" => Calm /\ Calm' /\ ~Sampling
  <2> SUFFICES ASSUME Ahead, task.pc # "write" PROVE Calm /\ Calm' /\ ~Sampling
    OBVIOUS
  <2>1. Calm
    BY <1>1, Bits0 DEF PhaseInv, Ahead, Addressing, Sending, Collecting, Sent, AddrS, AddrNone, AddrBit, AddrZ,
       SendNone, SendBit, SendZ, Deaf, CollZ
  <2> QED
    BY <2>1, ClockCalm
<1>3. CASE Ahead /\ Calm
  <2>1. Ahead'
    BY <1>1, <1>3 DEF Ahead, Sent
  <2>2. Calm' /\ ~Sampling
    BY <1>3, ClockCalm
  <2> QED
    BY <1>2, <1>3, <2>1, <2>2 DEF PhaseInv
<1>4. CASE Addressing
  BY <1>1, <1>2, <1>4, ClockAddr DEF PhaseInv, Addressing, Sent
<1>5. CASE Sending
  BY <1>2, <1>5, ClockSend DEF PhaseInv, Sending, Sent
<1>6. CASE Collecting
  BY <1>2, <1>6, ClockColl DEF PhaseInv, Collecting, Sent
<1> QED
  BY <1>1, <1>3, <1>4, <1>5, <1>6 DEF PhaseInv

LEMMA ClockToInv == ASSUME WireInv, ClockDoes PROVE ToInv'
<1>1. /\ UNCHANGED <<task, to, addressed>> /\ ToInv /\ Len(to) \in Nat /\ eng.item # None
      /\ eng'.item = IF Left = 1 THEN None ELSE eng.item
      /\ Sampling => to = <<>>
  BY ClockPhase DEF ClockDoes, WireInv, TypeInv
<1>2. (Sent' <=> Sent) /\ (Rw' <=> Rw) /\ Addr' = Addr
  BY <1>1 DEF Sent, Rw, Addr
<1>3. ASSUME NEW i \in 1..Len(to), Early(i) PROVE Early(i)'
  <2>1. CASE to[i] = "P"
    BY <1>1, <2>1 DEF Early
  <2>2. CASE to[i] # "P"
    <3>1. i = 1 /\ to[1] = "N" /\ eng.state = "READING" /\ eng.item = "Z"
      BY <1>1, <1>3, <2>2 DEF Early
    <3>2. to # <<>>
      BY <1>3
    <3>3. ~Sampling /\ Left = 1
      BY <1>1, <3>1, <3>2 DEF ClockDoes, SampleDoes, Sampling
    <3>4. eng'.item = None /\ eng'.state = "READING"
      BY <1>1, <3>1, <3>3 DEF ClockDoes
    <3> QED
      BY <1>1, <3>1, <3>4 DEF Early
  <2> QED
    BY <2>1, <2>2
<1>4. Sent /\ Len(to) = Bits + 2 => eng'.item = "P" \/ eng'.state = "IDLE" \/ (eng'.item = None /\ Settled')
  <2> SUFFICES ASSUME Sent, Len(to) = Bits + 2 PROVE eng'.item = "P" \/ eng'.state = "IDLE"
    OBVIOUS
  <2>1. Calm /\ ~Sampling
    BY ClockPhase, Bits0 DEF Ahead, Sent
  <2>2. eng.item = "P" \/ eng.state = "IDLE"
    BY <1>1 DEF ToInv
  <2>3. CASE eng.item = "P"
    BY <1>1, <2>1, <2>3 DEF ClockDoes
  <2>4. CASE eng.item # "P"
    BY <1>1, <2>1, <2>2, <2>4 DEF ClockDoes, Calm, CalmNone, CalmZ, CalmN, CalmP
  <2> QED
    BY <2>3, <2>4
<1>5. /\ task.pc = "idle" => \A i \in 1..Len(to) : Early(i)
      /\ Sent => /\ addressed.addr \in SUBSET (0..(Bits - 2)) /\ task.bit = 0 /\ (Rw => task.size > 0)
                 /\ \A i \in 1..Len(to) : IF Len(to) - i <= Bits + 1 THEN to[i] = Script(Addr, Len(to) - i) ELSE Early(i)
                 /\ Len(to) > Bits + 2 => to[Len(to) - Bits - 2] = "P"
      /\ task.pc = "write" =>
           \A i \in 1..Len(to) : IF Len(to) - i <= Bits THEN to[i] = Script(task.byte, Len(to) - i) ELSE Early(i)
  BY <1>1 DEF ToInv
<1>6. task' = task /\ to' = to /\ addressed' = addressed
  BY <1>1
<1> QED
  BY <1>2, <1>3, <1>4, <1>5, <1>6 DEF ToInv

LEMMA ClockFromInv == ASSUME WireInv, ClockDoes PROVE FromInv'
<1>1. /\ UNCHANGED <<task, to, addressed>> /\ FromInv /\ from \in Seq(Items) /\ Len(from) \in Nat /\ eng.item # None
      /\ from' = (IF Sampling THEN Append(from, Answer) ELSE from)
      /\ Sampling => to = <<>> /\ eng'.state = Answered
      /\ ~Sampling /\ eng.state # "WRITING" => eng'.state # "WRITING"
      /\ bus.sda \in BOOLEAN
  BY ClockPhase DEF ClockDoes, WireInv, TypeInv, Lines
<1>2. Sent' <=> Sent
  BY <1>1 DEF Sent
<1>3. Fresh' <=> Sampling
  BY <1>1, NoneAssumption DEF ClockDoes, Fresh, Sampling
<1>4. eng.state = "READING" => Answer \in Digits /\ Answered = "READING"
  BY DEF Answer, Answered, Digits
<1>5. ASSUME \A z \in DOMAIN from : from[z] \in Digits, Sampling => Answer \in Digits
      PROVE  \A z \in DOMAIN from' : from'[z] \in Digits
  BY <1>1, <1>5 DEF Digits, Items
<1>6. task.pc = "idle" => (\A z \in DOMAIN from' : from'[z] \in Digits) /\ (eng'.state = "WRITING" => from' = <<>>)
  <2> SUFFICES ASSUME task.pc = "idle"
               PROVE  (\A z \in DOMAIN from' : from'[z] \in Digits) /\ (eng'.state = "WRITING" => from' = <<>>)
    OBVIOUS
  <2>1. ~Sampling
    BY ClockPhase DEF Ahead
  <2> QED
    BY <1>1, <2>1 DEF FromInv
<1>7. Sent => from' = IF Fresh' THEN <<IF addressed'.addr = DeviceId THEN "A" ELSE "N">> ELSE <<>>
  <2> SUFFICES ASSUME Sent PROVE from' = IF Sampling THEN <<IF addressed.addr = DeviceId THEN "A" ELSE "N">> ELSE <<>>
    BY <1>1, <1>3
  <2>1. from = <<>>
    BY NotWoken DEF Sent
  <2>2. CASE Sampling
    <3>1. eng.state = "DEVID" /\ (bus.sda <=> addressed.addr # DeviceId)
      BY <2>2, ClockPhase
    <3>2. Answer = IF addressed.addr = DeviceId THEN "A" ELSE "N"
      BY <1>1, <3>1 DEF Answer
    <3> QED
      BY <1>1, <2>1, <2>2, <3>2
  <2> QED
    BY <1>1, <2>1, <2>2
<1>8. task.pc = "write" /\ eng'.state = "WRITING" => task.bit = 0 /\ from' = IF Fresh' THEN <<"A">> ELSE <<>>
  <2> SUFFICES ASSUME task.pc = "write", eng'.state = "WRITING"
               PROVE  task.bit = 0 /\ from' = IF Sampling THEN <<"A">> ELSE <<>>
    BY <1>3
  <2>1. eng.state = "WRITING"
    BY <1>1, <1>4, ClockPhase
  <2>2. from = <<>> /\ task.bit = 0
    BY <2>1, NotWoken
  <2>3. Sampling => Answer = "A"
    BY <1>1, <2>1 DEF Answer, Answered
  <2> QED
    BY <1>1, <2>2, <2>3
<1>9. task.pc = "write" /\ eng'.state # "WRITING" =>
       (\A z \in DOMAIN from' : from'[z] \in Digits) \/ (from' = <<"N">> /\ task.bit = 0)
  <2> SUFFICES ASSUME task.pc = "write", eng'.state # "WRITING"
               PROVE  (\A z \in DOMAIN from' : from'[z] \in Digits) \/ (from' = <<"N">> /\ task.bit = 0)
    OBVIOUS
  <2>1. CASE eng.state = "WRITING"
    <3>1. from = <<>> /\ task.bit = 0
      BY <2>1, NotWoken
    <3>2. Sampling => Answer = "N"
      BY <1>1, <2>1 DEF Answer, Answered
    <3> QED
      BY <1>1, <3>1, <3>2
  <2>2. CASE eng.state # "WRITING"
    <3>1. Len(from) = task.bit
      BY NotWoken
    <3>2. \A z \in DOMAIN from : from[z] \in Digits
      BY <1>1, <2>2, <3>1 DEF FromInv
    <3>3. Sampling => Answer \in Digits
      BY <1>4, <2>2, ClockPhase
    <3> QED
      BY <1>5, <3>2, <3>3
  <2> QED
    BY <2>1, <2>2
<1>10. task.pc = "collect" => (\A z \in DOMAIN from' : from'[z] \in Digits)
  BY <1>1, <1>4, <1>5, ClockPhase DEF FromInv
<1>11. task.pc \in {"write", "collect"} => Len(from') = task.bit \/ (Len(from') = task.bit + 1 /\ Fresh')
  <2>1. Answer \in Items
    BY AnsweredState DEF WireInv, Items
  <2>2. Sampling => Len(from') = Len(from) + 1
    BY <1>1, <2>1
  <2> QED
    BY <1>1, <1>3, <2>2, NotWoken
<1> QED
  BY <1>1, <1>2, <1>6, <1>7, <1>8, <1>9, <1>10, <1>11 DEF FromInv

LEMMA ClockInv == ASSUME WireInv, Clock PROVE WireInv'
<1>1. ClockDoes /\ TypeInv' /\ EngInv'
  BY ClockFacts
<1> QED
  BY <1>1, ClockPort, ClockToInv, ClockFromInv, ClockPhase DEF WireInv

(***************************************************************************)
(* The device: the invariant when it sees a line change.                   *)
(***************************************************************************)

\* The enables while the engine waits, item by item.
BitHeld ==
  /\ Left \in 1..3 /\ (Left > 1 => m.scl)
  /\ Left = 1 => ~m.scl /\ (m.sda <=> eng.item \in Lows)
Held ==
  /\ eng.item = None => IF eng.state = "IDLE" THEN ~m.sda ELSE m.scl
  /\ eng.item = "S" => /\ eng.state # "DEVID" /\ Left \in 1..3
                       /\ Left = 3 => ~m.sda /\ ~m.scl
                       /\ Left = 2 => m.sda /\ ~m.scl
                       /\ Left = 1 => m.sda /\ m.scl
  /\ eng.item = "P" => /\ eng.state # "DEVID" /\ Left \in 1..4
                       /\ Left = 4 => IF eng.state = "IDLE" THEN ~m.sda ELSE m.scl
                       /\ Left = 3 => m.sda
                       /\ Left = 2 => m.sda /\ ~m.scl
                       /\ Left = 1 => ~m.sda /\ ~m.scl
  /\ eng.item = "Z" => /\ Left \in 1..2 /\ ~m.sda
                       /\ Left = 2 => m.scl
                       /\ Left = 1 => ~m.scl
  /\ eng.item \in {"A", "N"} => eng.state = "READING" /\ BitHeld
  /\ eng.item \in {"0", "1"} /\ eng.state # "READING" => eng.state # "IDLE" /\ BitHeld

LEMMA WavesHold ==
  /\ StartWave => /\ Left \in 1..3
                  /\ Left = 3 => ~m.sda /\ ~m.scl
                  /\ Left = 2 => m.sda /\ ~m.scl
                  /\ Left = 1 => m.sda /\ m.scl
  /\ StopWave => /\ Left \in 1..4
                 /\ Left = 4 => IF eng.state = "IDLE" THEN ~m.sda ELSE m.scl
                 /\ Left = 3 => m.sda
                 /\ Left = 2 => m.sda /\ ~m.scl
                 /\ Left = 1 => ~m.sda /\ ~m.scl
  /\ SampleWave => /\ Left \in 1..2 /\ ~m.sda
                   /\ Left = 2 => m.scl
                   /\ Left = 1 => ~m.scl
  /\ BitWave => BitHeld
<1>1. StartWave => /\ Left \in 1..3
                   /\ Left = 3 => ~m.sda /\ ~m.scl
                   /\ Left = 2 => m.sda /\ ~m.scl
                   /\ Left = 1 => m.sda /\ m.scl
  BY Tuple1, Tuple2, Tuple3 DEF StartWave, Left
<1>2. StopWave => /\ Left \in 1..4
                  /\ Left = 4 => IF eng.state = "IDLE" THEN ~m.sda ELSE m.scl
                  /\ Left = 3 => m.sda
                  /\ Left = 2 => m.sda /\ ~m.scl
                  /\ Left = 1 => ~m.sda /\ ~m.scl
  BY Tuple1, Tuple2, Tuple3, Tuple4 DEF StopWave, Left
<1>3. SampleWave => /\ Left \in 1..2 /\ ~m.sda
                    /\ Left = 2 => m.scl
                    /\ Left = 1 => ~m.scl
  BY Tuple1, Tuple2 DEF SampleWave, Left
<1>4. BitWave => BitHeld
  <2>1. ASSUME eng.wave = <<SdaFor(eng.item), SclUp, SclDown>>, m.scl PROVE BitHeld
    BY <2>1, Tuple3 DEF Left, BitHeld
  <2>2. ASSUME eng.wave = <<SclUp, SclDown>>, m.scl PROVE BitHeld
    BY <2>2, Tuple2 DEF Left, BitHeld
  <2>3. ASSUME eng.wave = <<SclDown>>, ~m.scl, m.sda <=> eng.item \in Lows PROVE BitHeld
    BY <2>3, Tuple1 DEF Left, BitHeld
  <2> QED
    BY <2>1, <2>2, <2>3 DEF BitWave
<1> QED
  BY <1>1, <1>2, <1>3, <1>4

LEMMA EngHeld == ASSUME EngInv PROVE Held
<1>1. CASE eng.item = None /\ (IF eng.state = "IDLE" THEN ~m.sda ELSE m.scl)
  BY <1>1, NoneAssumption DEF Held
<1>2. CASE eng.item = "S" /\ eng.state # "DEVID" /\ StartWave
  BY <1>2, WavesHold, NoneAssumption DEF Held
<1>3. CASE eng.item = "P" /\ eng.state # "DEVID" /\ StopWave
  BY <1>3, WavesHold, NoneAssumption DEF Held
<1>4. CASE eng.item = "Z" /\ SampleWave
  BY <1>4, WavesHold, NoneAssumption DEF Held
<1>5. CASE eng.item \in {"0", "1"} /\ eng.state \in {"DEVID", "WRITING"} /\ BitWave
  BY <1>5, WavesHold, NoneAssumption DEF Held
<1>6. CASE eng.item \in {"A", "N"} /\ eng.state = "READING" /\ BitWave
  BY <1>6, WavesHold, NoneAssumption DEF Held
<1>7. CASE eng.item \in {"0", "1"} /\ eng.state = "READING"
  BY <1>7, NoneAssumption DEF Held
<1> QED
  BY <1>1, <1>2, <1>3, <1>4, <1>5, <1>6, <1>7 DEF EngInv

\* What the device does when a line changes, and what it leaves.
Starts ==
  /\ ssda' = ssda /\ dev'.drive = dev.drive
  /\ IF bus'.sda THEN dev'.state = "IDLE" /\ dev'.i = dev.i
     ELSE dev'.state = "DEVID" /\ dev'.i = MSB /\ dev'.devid = {}
DevDoes ==
  /\ UNCHANGED <<task, to, from, addressed, eng, m>>
  /\ ~((bus.sda <=> ~m.sda /\ ~ssda) /\ (bus.scl <=> ~m.scl))
  /\ bus' \in Lines /\ (bus'.sda <=> ~m.sda /\ ~ssda) /\ (bus'.scl <=> ~m.scl)
  /\ dev' \in DevType /\ ssda' \in BOOLEAN
  /\ m.scl => dev' = dev /\ (ssda' <=> Drive)
  /\ ~m.scl /\ ~bus.scl => RiseDoes /\ (bus'.sda <=> bus.sda) /\ (ssda <=> Drive)
  /\ ~m.scl /\ bus.scl => Starts /\ (bus'.sda <=> ~bus.sda)

LEMMA FallStep == ASSUME TypeInv, PortInv, Falling PROVE dev' = dev /\ ssda' \in BOOLEAN /\ (ssda' <=> Drive)
<1>1. dev' = dev /\ bus.scl /\ dev \in DevType /\ ssda \in BOOLEAN
  BY DEF Falling, TypeInv
<1>2. ssda' = CASE dev.state \in {"RETZ", "ACKNACK"}          -> FALSE
               [] dev.state \in {"ACKRD", "ACKWR", "ACKWRD"} -> TRUE
               [] dev.state = "READ"                         -> dev.i \notin dev.data
               [] OTHER                                      -> ssda
  BY DEF Falling
<1>3. CASE dev.state \in {"RETZ", "ACKNACK"}
  <2>1. ssda' = FALSE
    BY <1>2, <1>3
  <2> QED
    BY <1>1, <1>3, <2>1 DEF Drive
<1>4. CASE dev.state \in {"ACKRD", "ACKWR", "ACKWRD"}
  <2>1. ssda' = TRUE
    BY <1>2, <1>4
  <2> QED
    BY <1>1, <1>4, <2>1 DEF Drive
<1>5. CASE dev.state = "READ"
  <2>1. ssda' = (dev.i \notin dev.data)
    BY <1>2, <1>5
  <2> QED
    BY <1>1, <1>5, <2>1 DEF Drive
<1>6. CASE dev.state \in {"IDLE", "DEVID", "WRDATA"}
  <2>1. ssda' = ssda
    BY <1>2, <1>6
  <2> QED
    BY <1>1, <1>6, <2>1 DEF Drive, PortInv
<1> QED
  BY <1>1, <1>3, <1>4, <1>5, <1>6 DEF DevType

LEMMA StartsStep == ASSUME TypeInv, StartStop PROVE Starts /\ dev' \in DevType
<1>1. dev \in DevType /\ MSB \in Int
  BY Bits0 DEF TypeInv
<1>2. ssda' = ssda
  BY DEF StartStop
<1>3. CASE bus'.sda
  <2>1. dev' = [dev EXCEPT !.state = "IDLE"]
    BY <1>3 DEF StartStop
  <2>2. dev' \in DevType /\ dev'.state = "IDLE" /\ dev'.i = dev.i /\ dev'.drive = dev.drive
    BY <1>1, <2>1 DEF DevType
  <2> QED
    BY <1>2, <1>3, <2>2 DEF Starts
<1>4. CASE ~bus'.sda
  <2>1. dev' = [dev EXCEPT !.state = "DEVID", !.i = MSB, !.devid = {}]
    BY <1>4 DEF StartStop
  <2>2. dev' \in DevType /\ dev'.state = "DEVID" /\ dev'.i = MSB /\ dev'.devid = {} /\ dev'.drive = dev.drive
    BY <1>1, <2>1 DEF DevType
  <2> QED
    BY <1>2, <1>4, <2>2 DEF Starts
<1> QED
  BY <1>3, <1>4

LEMMA DevFacts == ASSUME WireInv, i2c_th PROVE DevDoes
<1>1. TypeInv /\ PortInv /\ m \in Lines /\ bus \in Lines /\ ssda \in BOOLEAN /\ dev \in DevType
  BY DEF WireInv, TypeInv
<1>2. /\ Change
      /\ bus' \in Lines /\ (bus'.sda <=> ~m.sda /\ ~ssda) /\ (bus'.scl <=> ~m.scl)
      /\ m.scl /\ bus.scl => Falling
      /\ m.scl /\ ~bus.scl => DataMoves
      /\ ~m.scl /\ ~bus.scl => Rose /\ (bus'.sda <=> bus.sda)
      /\ ~m.scl /\ bus.scl => StartStop /\ (bus'.sda <=> ~bus.sda)
  BY <1>1, Changes
<1>3. UNCHANGED <<task, to, from, eng, m>> /\ ~Settled
  BY <1>2 DEF Change, wire
<1>4. addressed' = addressed
  BY DEF i2c_th, StartStop, DevId, Ignore, AckRead, AckWrite, WriteBit, AckData, ReadBit, AckNack, Falling, DataMoves,
     hist, Sample
<1>5. ~((bus.sda <=> ~m.sda /\ ~ssda) /\ (bus.scl <=> ~m.scl))
  BY <1>1, <1>3, LinesResolved
<1>6. m.scl => dev' = dev /\ dev' \in DevType /\ ssda' \in BOOLEAN /\ (ssda' <=> Drive)
  <2>1. CASE m.scl /\ bus.scl
    BY <1>1, <1>2, <2>1, FallStep
  <2>2. CASE m.scl /\ ~bus.scl
    BY <1>1, <1>2, <2>2 DEF DataMoves, PortInv
  <2> QED
    BY <2>1, <2>2
<1>7. ~m.scl /\ ~bus.scl => RiseDoes /\ (bus'.sda <=> bus.sda) /\ (ssda <=> Drive) /\ dev' \in DevType /\ ssda' \in BOOLEAN
  <2> SUFFICES ASSUME ~m.scl, ~bus.scl
               PROVE  RiseDoes /\ (bus'.sda <=> bus.sda) /\ (ssda <=> Drive) /\ dev' \in DevType /\ ssda' \in BOOLEAN
    OBVIOUS
  <2>1. RiseDoes /\ (bus'.sda <=> bus.sda)
    BY <1>1, <1>2, RiseStep
  <2>2. ssda <=> Drive
    BY <1>1 DEF PortInv
  <2>3. dev' \in DevType
    BY <2>1 DEF RiseDoes
  <2>4. ssda' \in BOOLEAN
    BY <1>1, <2>1 DEF RiseDoes, DevType
  <2> QED
    BY <2>1, <2>2, <2>3, <2>4
<1>8. ~m.scl /\ bus.scl => Starts /\ (bus'.sda <=> ~bus.sda) /\ dev' \in DevType /\ ssda' \in BOOLEAN
  BY <1>1, <1>2, StartsStep DEF Starts
<1> QED
  BY <1>2, <1>3, <1>4, <1>5, <1>6, <1>7, <1>8 DEF DevDoes

LEMMA DevPort == ASSUME WireInv, DevDoes PROVE PortInv'
<1>1. PortInv /\ dev \in DevType /\ ssda \in BOOLEAN /\ ssda' \in BOOLEAN /\ m' = m /\ MSB > 0 /\ MSB \in Int /\ dev.i \in Int
  BY Bits0 DEF WireInv, TypeInv, DevDoes, DevType
<1>2. CASE m.scl
  <2>1. dev' = dev /\ (ssda' <=> Drive) /\ ~bus'.scl
    BY <1>2 DEF DevDoes
  <2> QED
    BY <1>1, <1>2, <2>1 DEF PortInv, Drive
<1>3. CASE ~m.scl /\ ~bus.scl
  <2>1. RiseDoes /\ (ssda <=> Drive) /\ (bus'.sda <=> ~m.sda /\ ~ssda) /\ bus'.scl
    BY <1>3 DEF DevDoes
  <2> DEFINE goal == /\ dev'.i <= MSB /\ (ssda' => ssda)
                     /\ dev'.state = "WRDATA" => (ssda' <=> dev'.i = MSB)
                     /\ dev'.state \in {"IDLE", "DEVID", "RETZ", "ACKRD", "ACKWR", "ACKWRD"} => ~ssda'
  <2>2. dev.i <= MSB /\ dev.i - 1 # MSB
    BY <1>1 DEF PortInv
  <2>3. ASSUME dev.state = "DEVID" PROVE goal
    <3>1. ~Drive
      BY <2>3 DEF Drive
    <3>2. ssda' = ssda /\ dev'.i = dev.i - 1 /\ dev'.state \in {"DEVID", "RETZ", "ACKRD", "ACKWR"}
      BY <2>1, <2>3 DEF RiseDoes
    <3> QED
      BY <1>1, <2>1, <2>2, <3>1, <3>2
  <2>4. ASSUME dev.state \in {"IDLE", "RETZ"} PROVE goal
    <3>1. ~Drive
      BY <2>4 DEF Drive
    <3>2. ssda' = ssda /\ dev'.i = dev.i /\ dev'.state = "IDLE"
      BY <2>1, <2>4 DEF RiseDoes
    <3> QED
      BY <1>1, <2>1, <2>2, <3>1, <3>2
  <2>5. ASSUME dev.state \in {"ACKRD", "ACKWR", "ACKWRD"} PROVE goal
    <3>1. Drive
      BY <2>5 DEF Drive
    <3>2. ssda' = ssda /\ dev'.i = MSB /\ dev'.state \in {"READ", "WRDATA"}
      BY <2>1, <2>5 DEF RiseDoes
    <3> QED
      BY <1>1, <2>1, <2>2, <3>1, <3>2
  <2>6. ASSUME dev.state = "WRDATA" PROVE goal
    <3>1. Drive <=> dev.i = MSB
      BY <2>6 DEF Drive
    <3>2. /\ dev'.state = IF dev.i = 0 THEN "ACKWRD" ELSE "WRDATA"
          /\ dev'.i = IF dev.i = 0 THEN 0 ELSE dev.i - 1
          /\ ssda' = IF dev.i = MSB THEN FALSE ELSE ssda
      BY <2>1, <2>6 DEF RiseDoes
    <3>3. ~ssda' /\ dev'.i # MSB /\ dev'.i <= MSB /\ dev'.state \in {"ACKWRD", "WRDATA"}
      BY <1>1, <2>1, <2>2, <3>1, <3>2
    <3> QED
      BY <1>1, <3>3
  <2>7. ASSUME dev.state = "READ" PROVE goal
    <3>1. ssda' = ssda /\ dev'.state \in {"ACKNACK", "READ"} /\ dev'.i \in {dev.i, dev.i - 1}
      BY <2>1, <2>7 DEF RiseDoes
    <3> QED
      BY <1>1, <2>2, <3>1
  <2>8. ASSUME dev.state = "ACKNACK" PROVE goal
    <3>1. ~Drive
      BY <2>8 DEF Drive
    <3>2. ssda' = ssda /\ dev'.state \in {"IDLE", "READ"} /\ dev'.i \in {dev.i, MSB}
      BY <2>1, <2>8 DEF RiseDoes
    <3> QED
      BY <1>1, <2>1, <2>2, <3>1, <3>2
  <2>9. goal
    BY <1>1, <2>3, <2>4, <2>5, <2>6, <2>7, <2>8 DEF DevType
  <2> QED
    BY <1>1, <1>3, <2>1, <2>9 DEF PortInv
<1>4. CASE ~m.scl /\ bus.scl
  <2>1. Starts /\ (bus'.sda <=> ~bus.sda) /\ (bus'.sda <=> ~m.sda /\ ~ssda) /\ bus'.scl
    BY <1>4 DEF DevDoes
  <2>2. ~ssda
    BY <1>1, <1>4, <2>1 DEF PortInv
  <2>3. ~ssda' /\ dev'.state \in {"IDLE", "DEVID"} /\ dev'.i <= MSB
    BY <1>1, <2>1, <2>2 DEF Starts, PortInv
  <2> QED
    BY <1>1, <1>4, <2>1, <2>3 DEF PortInv
<1> QED
  BY <1>2, <1>3, <1>4

LEMMA DevToFrom == ASSUME WireInv, DevDoes PROVE TypeInv' /\ EngInv' /\ ToInv' /\ FromInv'
<1>1. /\ UNCHANGED <<task, to, from, addressed, eng, m>> /\ TypeInv /\ EngInv /\ ToInv /\ FromInv
      /\ bus' \in Lines /\ dev' \in DevType /\ ssda' \in BOOLEAN /\ m \in Lines /\ bus \in Lines /\ ssda \in BOOLEAN
  BY DEF DevDoes, WireInv, TypeInv
<1>2. TypeInv'
  BY <1>1 DEF TypeInv
<1>3. EngInv'
  BY <1>1 DEF EngInv, StartWave, StopWave, SampleWave, BitWave
<1>4. FromInv'
  BY <1>1 DEF FromInv, Sent, Fresh, Left
<1>5. ~Settled
  BY <1>1, LinesResolved DEF DevDoes
<1>6. (\A i \in 1..Len(to) : Early(i)' <=> Early(i)) /\ (Sent' <=> Sent) /\ (Rw' <=> Rw) /\ Addr' = Addr
  BY <1>1 DEF Early, Sent, Rw, Addr
<1>7. /\ task.pc = "idle" => \A i \in 1..Len(to) : Early(i)
      /\ Sent => /\ addressed.addr \in SUBSET (0..(Bits - 2)) /\ task.bit = 0 /\ (Rw => task.size > 0)
                 /\ \A i \in 1..Len(to) : IF Len(to) - i <= Bits + 1 THEN to[i] = Script(Addr, Len(to) - i) ELSE Early(i)
                 /\ Len(to) > Bits + 2 => to[Len(to) - Bits - 2] = "P"
                 /\ Len(to) = Bits + 2 => eng.item = "P" \/ eng.state = "IDLE"
      /\ task.pc = "write" =>
           \A i \in 1..Len(to) : IF Len(to) - i <= Bits THEN to[i] = Script(task.byte, Len(to) - i) ELSE Early(i)
  BY <1>1, <1>5 DEF ToInv
<1>8. task' = task /\ to' = to /\ addressed' = addressed /\ eng' = eng
  BY <1>1
<1>9. ToInv'
  BY <1>6, <1>7, <1>8 DEF ToInv
<1> QED
  BY <1>2, <1>3, <1>4, <1>9

\* The clock rises while the engine rests at a low line, or after a sample.
LEMMA DevRest ==
  ASSUME WireInv, DevDoes, RestDev, ~m.scl, ~bus.scl
  PROVE  ~ssda' /\ bus'.scl
<1>1. RiseDoes /\ (ssda <=> Drive) /\ bus'.scl /\ eng.state \in {"IDLE", "READING", "WRITING"} /\ ssda \in BOOLEAN
  BY DEF DevDoes, WireInv, TypeInv, States, RestDev
<1>2. dev.state \in {"IDLE", "ACKNACK"} \/ (dev.state = "WRDATA" /\ dev.i = MSB)
  BY <1>1 DEF RestDev
<1>3. CASE dev.state \in {"IDLE", "ACKNACK"}
  <2>1. ~Drive
    BY <1>3 DEF Drive
  <2>2. ssda' = ssda
    BY <1>1, <1>3 DEF RiseDoes
  <2> QED
    BY <1>1, <2>1, <2>2
<1>4. CASE dev.state = "WRDATA" /\ dev.i = MSB
  BY <1>1, <1>4 DEF RiseDoes
<1> QED
  BY <1>2, <1>3, <1>4

\* While the lines are as the engine left them only the clock is still to rise.
LEMMA DevRises ==
  ASSUME WireInv, DevDoes, Still, ~m.scl
  PROVE  ~bus.scl /\ RiseDoes /\ bus'.scl /\ (bus'.sda <=> bus.sda) /\ (ssda <=> Drive) /\ (bus'.sda <=> ~m.sda /\ ~ssda)
<1>1. ~bus.scl
  BY DEF DevDoes, Still
<1> QED
  BY <1>1 DEF DevDoes

LEMMA DevCalmNone == ASSUME WireInv, DevDoes, RestDev, eng.state = "IDLE" => Free0 /\ ~m.sda, eng.state # "IDLE" => m.scl
  PROVE  RestDev' /\ (eng'.state = "IDLE" => Free0')
<1>1. eng' = eng /\ m' = m /\ eng.state # "DEVID"
  BY DEF DevDoes, RestDev
<1>2. CASE eng.state = "IDLE"
  <2>1. dev.state = "IDLE" /\ ~ssda /\ bus.sda /\ ~m.sda /\ ~Drive
    BY <1>2 DEF RestDev, Free0, Drive
  <2>2. CASE m.scl
    BY <1>1, <1>2, <2>1, <2>2 DEF DevDoes, RestDev, Free0
  <2>3. CASE ~m.scl
    <3>1. Still
      BY <2>1 DEF Still
    <3>2. RiseDoes /\ (bus'.sda <=> bus.sda)
      BY <2>3, <3>1, DevRises
    <3>3. dev'.state = "IDLE" /\ ssda' = ssda
      BY <2>1, <3>2 DEF RiseDoes
    <3> QED
      BY <1>1, <1>2, <2>1, <3>2, <3>3 DEF RestDev, Free0
  <2> QED
    BY <2>2, <2>3
<1>3. CASE eng.state # "IDLE"
  <2>1. dev' = dev
    BY <1>3 DEF DevDoes
  <2> QED
    BY <1>1, <1>3, <2>1 DEF RestDev
<1> QED
  BY <1>2, <1>3

LEMMA DevCalmZ == ASSUME WireInv, DevDoes, CalmZ PROVE CalmZ' /\ bus'.scl
<1>1. /\ eng' = eng /\ m' = m /\ Left' = Left /\ eng.item = "Z" /\ Left = 1 /\ Still /\ ~m.sda /\ ~m.scl
      /\ eng.state \in {"IDLE", "READING", "WRITING"}
  BY EngHeld DEF DevDoes, Left, CalmZ, WireInv, Held, TypeInv, States
<1>2. ~bus.scl /\ RiseDoes /\ bus'.scl /\ (bus'.sda <=> bus.sda) /\ (bus'.sda <=> ~m.sda /\ ~ssda)
  BY <1>1, DevRises
<1>3. CASE eng.state = "IDLE"
  <2>1. Free0 /\ dev.state \in {"IDLE", "RETZ"}
    BY <1>3 DEF CalmZ
  <2>2. dev'.state = "IDLE" /\ ssda' = ssda
    BY <1>2, <2>1 DEF RiseDoes
  <2> QED
    BY <1>1, <1>2, <1>3, <2>1, <2>2 DEF CalmZ, Free0, RestDev, Still
<1>4. CASE eng.state = "READING"
  <2>1. dev.state = "READ" /\ dev.i = 0
    BY <1>2, <1>4 DEF CalmZ
  <2>2. dev'.state = "ACKNACK" /\ ssda' = ssda
    BY <1>2, <2>1 DEF RiseDoes
  <2> QED
    BY <1>1, <1>2, <1>4, <2>2 DEF CalmZ, RestDev, Still
<1>5. CASE eng.state = "WRITING"
  <2>1. dev.state \in {"ACKWR", "ACKWRD"}
    BY <1>2, <1>5 DEF CalmZ
  <2>2. dev'.state = "WRDATA" /\ dev'.i = MSB /\ dev'.data = {} /\ ssda' = ssda
    BY <1>2, <2>1 DEF RiseDoes
  <2> QED
    BY <1>1, <1>2, <1>5, <2>2 DEF CalmZ, RestDev, Still
<1> QED
  BY <1>1, <1>3, <1>4, <1>5

LEMMA DevCalm == ASSUME WireInv, DevDoes, Calm PROVE Calm'
<1>1. /\ eng' = eng /\ m' = m /\ Left' = Left /\ Held
      /\ bus'.sda <=> ~m.sda /\ ~ssda
      /\ bus'.scl <=> ~m.scl
  BY EngHeld DEF DevDoes, Left, WireInv
<1>2. CASE CalmNone
  <2>1. RestDev /\ (eng.state = "IDLE" => Free0 /\ ~m.sda) /\ (eng.state # "IDLE" => m.scl) /\ ~m.sda /\ eng.item = None
    BY <1>1, <1>2 DEF CalmNone, Held
  <2>2. RestDev' /\ (eng'.state = "IDLE" => Free0')
    BY <2>1, DevCalmNone
  <2> QED
    BY <1>1, <2>1, <2>2 DEF CalmNone, Calm
<1>3. CASE CalmZ
  BY <1>3, DevCalmZ DEF Calm
<1>4. CASE CalmN
  <2>1. eng.item = "N" /\ eng.state = "READING" /\ BitHeld /\ (Left > 1 => RestDev)
    BY <1>1, <1>4 DEF CalmN, Held
  <2>2. CASE Left > 1
    <3>1. dev' = dev
      BY <2>1, <2>2 DEF DevDoes, BitHeld
    <3> QED
      BY <1>1, <2>1, <2>2, <3>1 DEF CalmN, RestDev, Calm, BitHeld
  <2>3. CASE Left = 1
    <3>1. Still /\ ~m.sda /\ ~m.scl
      BY <1>4, <2>1, <2>3 DEF CalmN, BitHeld, Lows
    <3>2. ~bus.scl /\ RiseDoes /\ bus'.scl /\ (ssda <=> Drive)
      BY <3>1, DevRises
    <3>3. dev.state = "ACKNACK" /\ ~Drive
      BY <1>4, <2>1, <2>3, <3>2 DEF CalmN, RestDev, Drive
    <3>4. bus'.sda
      BY <1>1, <3>1, <3>2, <3>3
    <3>5. dev'.state = "IDLE" /\ ssda' = ssda
      BY <3>2, <3>3, <3>4 DEF RiseDoes
    <3> QED
      BY <1>1, <2>1, <2>3, <3>1, <3>2, <3>3, <3>4, <3>5 DEF CalmN, Calm, Still
  <2> QED
    BY <2>1, <2>2, <2>3 DEF BitHeld
<1>5. CASE CalmP
  <2>1. eng.item = "P" /\ Left \in 1..4
    BY <1>1, <1>5 DEF CalmP, Held
  <2>2. CASE Left = 4
    <3>1. RestDev /\ (eng.state = "IDLE" => Free0 /\ ~m.sda) /\ (eng.state # "IDLE" => m.scl)
      BY <1>1, <1>5, <2>1, <2>2 DEF CalmP, Held
    <3>2. RestDev' /\ (eng'.state = "IDLE" => Free0')
      BY <3>1, DevCalmNone
    <3> QED
      BY <1>1, <2>1, <2>2, <3>2 DEF CalmP, Calm
  <2>3. CASE Left = 3 /\ m.scl
    <3>1. RestDev /\ ~bus.scl /\ dev' = dev
      BY <1>5, <2>3 DEF CalmP, DevDoes
    <3> QED
      BY <1>1, <2>1, <2>3, <3>1 DEF CalmP, Calm, RestDev
  <2>4. CASE Left = 3 /\ ~m.scl
    <3>1. bus.scl /\ ~ssda
      BY <1>5, <2>4 DEF CalmP
    <3>2. ssda' = ssda
      BY <2>4, <3>1 DEF DevDoes, Starts
    <3> QED
      BY <1>1, <2>1, <2>4, <3>1, <3>2 DEF CalmP, Calm
  <2>5. CASE Left = 2
    <3>1. (IF bus.scl THEN ~ssda ELSE RestDev) /\ m.sda /\ ~m.scl
      BY <1>1, <1>5, <2>1, <2>5 DEF CalmP, Held
    <3>2. ~ssda' /\ bus'.scl
      <4>1. CASE bus.scl
        BY <1>1, <3>1, <4>1 DEF DevDoes, Starts
      <4>2. CASE ~bus.scl
        BY <3>1, <4>2, DevRest
      <4> QED
        BY <4>1, <4>2
    <3> QED
      BY <1>1, <2>1, <2>5, <3>2 DEF CalmP, Calm
  <2>6. CASE Left = 1
    <3>1. bus.scl /\ ~ssda /\ ~m.sda /\ ~m.scl
      BY <1>1, <1>5, <2>1, <2>6 DEF CalmP, Held
    <3>2. Starts /\ bus'.sda /\ bus'.scl
      BY <1>1, <3>1 DEF DevDoes
    <3>3. dev'.state = "IDLE" /\ ssda' = ssda
      BY <3>2 DEF Starts
    <3> QED
      BY <1>1, <2>1, <2>6, <3>1, <3>2, <3>3 DEF CalmP, Calm
  <2> QED
    BY <2>1, <2>2, <2>3, <2>4, <2>5, <2>6
<1> QED
  BY <1>2, <1>3, <1>4, <1>5 DEF Calm

\* One more bit of a byte has come in.
LEMMA HighShift ==
  ASSUME NEW b \in Byte, NEW p \in 0..(Bits - 1), bus'.sda <=> p \in b
  PROVE  Next1(High(b, p + 1)) = High(b, p)
<1>1. ASSUME NEW k \in High(b, p) PROVE k \in Next1(High(b, p + 1))
  <2>1. k \in 0..Bits /\ k + p \in b
    BY DEF High
  <2>2. CASE k = 0
    BY <2>1, <2>2, Bits0 DEF Next1
  <2>3. CASE k > 0
    <3>1. k - 1 \in 0..Bits /\ (k - 1) + (p + 1) \in b
      BY <2>1, <2>3, Bits0
    <3>2. k - 1 \in High(b, p + 1) /\ k = (k - 1) + 1
      BY <2>1, <3>1 DEF High
    <3>3. k \in Up(High(b, p + 1))
      BY <3>2 DEF Up
    <3> QED
      BY <3>3 DEF Next1
  <2> QED
    BY <2>1, <2>2, <2>3
<1>2. ASSUME NEW k \in Next1(High(b, p + 1)) PROVE k \in High(b, p)
  <2>1. CASE k \in Up(High(b, p + 1))
    <3>1. PICK h \in High(b, p + 1) : k = h + 1
      BY <2>1 DEF Up
    <3>2. h \in 0..Bits /\ h + (p + 1) \in b /\ h + (p + 1) \in 0..(Bits - 1)
      BY <3>1, Bits0 DEF High, Byte
    <3>3. k \in 0..Bits /\ k + p \in b
      BY <3>1, <3>2, Bits0
    <3> QED
      BY <3>3 DEF High
  <2>2. CASE k = 0 /\ bus'.sda
    BY <2>2, Bits0 DEF High
  <2> QED
    BY <1>2, <2>1, <2>2 DEF Next1
<1> QED
  BY <1>1, <1>2

LEMMA HighAll == ASSUME NEW b \in Byte PROVE High(b, 0) = b
<1>1. b \subseteq 0..(Bits - 1)
  BY DEF Byte
<1>2. \A k \in 0..Bits : k + 0 = k
  BY Bits0
<1>3. \A k \in b : k \in 0..Bits
  BY <1>1, Bits0
<1> QED
  BY <1>2, <1>3 DEF High

LEMMA AddrByte ==
  ASSUME Sent, ToInv
  PROVE  Addr \in Byte /\ (0 \in Addr <=> Rw) /\ High(Addr, 1) = addressed.addr
<1>1. (0 \in Addr <=> Rw) /\ Up(addressed.addr) \subseteq 1..(Bits - 1) /\ addressed.addr \in SUBSET (0..(Bits - 2))
  BY AddrRw DEF ToInv
<1>2. Addr \in Byte
  BY <1>1, Bits0 DEF Addr, Byte, MSB
<1>3. ASSUME NEW k \in addressed.addr PROVE k \in High(Addr, 1)
  <2>1. k \in 0..Bits /\ k + 1 \in Up(addressed.addr)
    BY <1>1, Bits0 DEF Up
  <2> QED
    BY <2>1 DEF High, Addr
<1>4. ASSUME NEW k \in High(Addr, 1) PROVE k \in addressed.addr
  <2>1. k \in 0..Bits /\ k + 1 \in Addr
    BY DEF High
  <2>2. k + 1 \in Up(addressed.addr)
    BY <2>1 DEF Addr
  <2>3. PICK h \in addressed.addr : k + 1 = h + 1
    BY <2>2 DEF Up
  <2>4. h = k
    BY <1>1, <2>1, <2>3
  <2> QED
    BY <2>4
<1> QED
  BY <1>1, <1>2, <1>3, <1>4

\* The device sees one more bit of the address.
LEMMA DevAddrBit ==
  ASSUME WireInv, DevDoes, Sent, AddrBit, Left = 1
  PROVE  AfterRises(Bits + 1 - Len(to))' /\ Still' /\ bus'.scl
<1> DEFINE l == Len(to)  j == Bits - l
<1>1. /\ UNCHANGED <<task, to, addressed, eng, m>> /\ Held /\ l \in 1..Bits /\ l \in 0..(Bits + 1)
      /\ eng.item = Script(Addr, l) /\ eng.state = "DEVID" /\ ssda \in BOOLEAN /\ ToInv
  BY EngHeld, Bits0 DEF DevDoes, WireInv, TypeInv, AddrBit
<1>2. Addr' = Addr /\ (Rw' <=> Rw) /\ l' = l
  BY <1>1 DEF Addr, Rw
<1>3. eng.item = IF l - 1 \in Addr THEN "1" ELSE "0"
  BY <1>1, ScriptIs
<1>4. ~m.scl /\ (m.sda <=> l - 1 \notin Addr)
  BY <1>1, <1>3 DEF Held, BitHeld, Lows
<1>5. Still
  BY DEF AddrBit
<1>6. ~bus.scl /\ RiseDoes /\ bus'.scl /\ (ssda <=> Drive) /\ (bus'.sda <=> ~m.sda /\ ~ssda)
  BY <1>4, <1>5, DevRises
<1>7. AfterRises(j) /\ j \in 0..(Bits - 1) /\ j < Bits
  BY <1>1, <1>6, Bits0 DEF AddrBit
<1>8. dev.state = "DEVID" /\ dev.i = MSB - j /\ dev.devid = High(Addr, Bits - j)
  BY <1>7 DEF AfterRises
<1>9. ~ssda /\ (bus'.sda <=> l - 1 \in Addr)
  BY <1>4, <1>6, <1>8 DEF Drive
<1>10. ssda' = ssda
  BY <1>6, <1>8 DEF RiseDoes
<1>11. Still'
  BY <1>1, <1>6, <1>10 DEF Still
<1>12. Addr \in Byte /\ (0 \in Addr <=> Rw) /\ High(Addr, 1) = addressed.addr
  BY <1>1, AddrByte
<1>13. dev.i = l - 1 /\ Bits - j = l /\ Bits + 1 - l = j + 1 /\ l \in Int
  BY <1>1, <1>8, Bits0
<1>14. CASE l > 1
  <2>1. dev'.state = "DEVID" /\ dev'.devid = Next1(dev.devid) /\ dev'.i = dev.i - 1
    BY <1>6, <1>8, <1>13, <1>14 DEF RiseDoes
  <2>2. Next1(High(Addr, (l - 1) + 1)) = High(Addr, l - 1)
    <3>1. l - 1 \in 0..(Bits - 1)
      BY <1>1, Bits0
    <3> QED
      BY <1>9, <1>12, <3>1, HighShift, Zenon
  <2>3. dev'.devid = High(Addr, l - 1)
    <3>1. (l - 1) + 1 = l
      BY <1>13
    <3>2. dev.devid = High(Addr, (l - 1) + 1)
      BY <1>8, <1>13, <3>1
    <3> QED
      BY <2>1, <2>2, <3>2
  <2>4. Bits + 1 - l < Bits /\ dev'.i = MSB - (Bits + 1 - l) /\ Bits - (Bits + 1 - l) = l - 1
    BY <1>1, <1>13, <1>14, <2>1, Bits0
  <2>5. AfterRises(Bits + 1 - Len(to))'
    <3>1. (Bits + 1 - Len(to))' = Bits + 1 - l /\ Bits + 1 - l # Bits
      BY <1>1, <1>14, Bits0
    <3> QED
      BY <1>2, <2>1, <2>3, <2>4, <3>1 DEF AfterRises
  <2> QED
    BY <1>6, <1>11, <2>5
<1>15. CASE l = 1
  <2>1. dev.devid = addressed.addr
    BY <1>8, <1>12, <1>13, <1>15
  <2>2. dev'.state = IF dev.devid # DeviceId THEN "RETZ" ELSE IF bus'.sda THEN "ACKRD" ELSE "ACKWR"
    BY <1>6, <1>8, <1>13, <1>15 DEF RiseDoes
  <2>3. bus'.sda <=> Rw
    BY <1>9, <1>12, <1>15
  <2>4. dev'.state = IF addressed.addr # DeviceId THEN "RETZ" ELSE IF Rw THEN "ACKRD" ELSE "ACKWR"
    BY <2>1, <2>2, <2>3
  <2>5. Bits + 1 - l = Bits
    BY <1>15, Bits0
  <2>6. AfterRises(Bits + 1 - Len(to))'
    <3>1. (Bits + 1 - Len(to))' = Bits
      BY <1>1, <2>5
    <3>2. addressed'.addr = addressed.addr
      BY <1>1
    <3> QED
      BY <1>2, <2>4, <3>1, <3>2, Bits0 DEF AfterRises
  <2> QED
    BY <1>6, <1>11, <2>6
<1> QED
  BY <1>13, <1>1, <1>14, <1>15, Bits0

LEMMA DevAddr == ASSUME WireInv, DevDoes, Addressing PROVE Addressing'
<1>1. /\ UNCHANGED <<task, to, addressed, eng, m>> /\ Left' = Left /\ Held /\ ssda \in BOOLEAN /\ ToInv
      /\ bus'.sda <=> ~m.sda /\ ~ssda
      /\ bus'.scl <=> ~m.scl
      /\ m.scl => dev' = dev
  BY EngHeld DEF DevDoes, Left, WireInv, TypeInv
<1>2. Sent /\ Sent' /\ Addr' = Addr /\ (Rw' <=> Rw)
  BY <1>1 DEF Addressing, Sent, Addr, Rw
<1>3. ASSUME NEW j, AfterRises(j), m.scl PROVE AfterRises(j)'
  BY <1>1, <1>2, <1>3 DEF AfterRises
<1>4. CASE AddrS
  <2>1. Len(to) = Bits + 1 /\ eng.item = "S" /\ Left \in 1..3
    BY <1>1, <1>4 DEF AddrS, Held
  <2>2. CASE Left = 3
    <3>1. (IF bus.scl THEN ~ssda ELSE RestDev) /\ ~m.scl
      BY <1>1, <1>4, <2>1, <2>2 DEF AddrS, Held
    <3>2. ~ssda' /\ bus'.scl
      <4>1. CASE bus.scl
        BY <1>1, <3>1, <4>1 DEF DevDoes, Starts
      <4>2. CASE ~bus.scl
        BY <3>1, <4>2, DevRest
      <4> QED
        BY <4>1, <4>2
    <3>3. AddrS'
      BY <1>1, <2>1, <2>2, <3>2 DEF AddrS
    <3> QED
      BY <1>2, <3>3 DEF Addressing
  <2>3. CASE Left = 2
    <3>1. bus.scl /\ ~ssda /\ m.sda /\ ~m.scl
      BY <1>1, <1>4, <2>1, <2>3 DEF AddrS, Held
    <3>2. Starts /\ ~bus'.sda /\ bus'.scl
      BY <1>1, <3>1 DEF DevDoes
    <3>3. ssda' = ssda /\ dev'.state = "DEVID" /\ dev'.i = MSB /\ dev'.devid = {}
      BY <3>2 DEF Starts
    <3>4. High(Addr, Bits) = {}
      BY <1>1, <1>2, AddrByte, HighNone
    <3>5. AfterRises(0)'
      <4>1. MSB - 0 = MSB /\ Bits - 0 = Bits /\ 0 < Bits
        BY Bits0
      <4> QED
        BY <1>2, <3>3, <3>4, <4>1 DEF AfterRises
    <3>6. AddrS'
      BY <1>1, <2>1, <2>3, <3>1, <3>2, <3>3, <3>5 DEF AddrS
    <3> QED
      BY <1>2, <3>6 DEF Addressing
  <2>4. CASE Left = 1
    <3>1. AfterRises(0) /\ m.scl
      BY <1>1, <1>4, <2>1, <2>4 DEF AddrS, Held
    <3>2. AfterRises(0)'
      BY <1>3, <3>1
    <3>3. AddrS'
      BY <1>1, <2>1, <2>4, <3>2 DEF AddrS
    <3> QED
      BY <1>2, <3>3 DEF Addressing
  <2> QED
    BY <2>1, <2>2, <2>3, <2>4
<1>5. CASE AddrNone
  <2>1. m.scl /\ AfterRises(Bits + 1 - Len(to))
    BY <1>1, <1>5 DEF AddrNone, Held
  <2>2. AfterRises(Bits + 1 - Len(to))'
    BY <1>1, <1>2, <2>1 DEF AfterRises
  <2>3. AddrNone'
    BY <1>1, <1>2, <1>5, <2>2 DEF AddrNone
  <2> QED
    BY <1>2, <2>3 DEF Addressing
<1>6. CASE AddrBit
  <2>1. /\ Len(to) \in 1..Bits /\ Len(to) \in 0..(Bits + 1) /\ eng.item = Script(Addr, Len(to)) /\ eng.state = "DEVID"
        /\ eng.item \in {"0", "1"}
    BY <1>6, ScriptIs, Bits0 DEF AddrBit
  <2>2. BitHeld
    BY <1>1, <2>1 DEF Held
  <2>3. CASE Left > 1
    <3>1. AfterRises(Bits - Len(to)) /\ m.scl
      BY <1>6, <2>2, <2>3 DEF AddrBit, BitHeld
    <3>2. AfterRises(Bits - Len(to))'
      BY <1>1, <1>2, <3>1 DEF AfterRises
    <3>3. AddrBit'
      BY <1>1, <1>2, <2>1, <2>2, <2>3, <3>2 DEF AddrBit, BitHeld
    <3> QED
      BY <1>2, <3>3 DEF Addressing
  <2>4. CASE Left = 1
    <3>1. AfterRises(Bits + 1 - Len(to))' /\ Still' /\ bus'.scl
      BY <1>2, <1>6, <2>4, DevAddrBit
    <3>2. AddrBit'
      BY <1>1, <1>2, <2>1, <2>4, <3>1 DEF AddrBit
    <3> QED
      BY <1>2, <3>2 DEF Addressing
  <2> QED
    BY <2>2, <2>3, <2>4 DEF BitHeld
<1>7. CASE AddrZ
  <2>1. to = <<>> /\ eng.item = "Z" /\ Left \in 1..2 /\ ~m.sda
    BY <1>1, <1>7 DEF AddrZ, Held
  <2>2. CASE Left = 2
    <3>1. eng.state = "DEVID" /\ AfterRises(Bits) /\ (eng.rwbit <=> Rw) /\ m.scl
      BY <1>1, <1>7, <2>1, <2>2 DEF AddrZ, Held
    <3>2. AfterRises(Bits)'
      BY <1>3, <3>1
    <3>3. AddrZ'
      BY <1>1, <1>2, <2>1, <2>2, <3>1, <3>2 DEF AddrZ
    <3> QED
      BY <1>2, <3>3 DEF Addressing
  <2>3. CASE Left = 1
    <3>1. Still /\ ~m.scl
      BY <1>1, <1>7, <2>1, <2>3 DEF AddrZ, Held
    <3>2. ~bus.scl /\ RiseDoes /\ bus'.scl /\ (bus'.sda <=> bus.sda) /\ (ssda <=> Drive) /\ (bus'.sda <=> ~m.sda /\ ~ssda)
      BY <3>1, DevRises
    <3>3. CASE addressed.addr = DeviceId /\ Rw
      <4>1. eng.state = "READING" /\ dev.state = "ACKRD"
        BY <1>7, <2>3, <3>2, <3>3 DEF AddrZ
      <4>2. dev'.state = "READ" /\ dev'.i = MSB /\ ssda' = ssda
        BY <3>2, <4>1 DEF RiseDoes
      <4>3. Still'
        BY <1>1, <3>2, <4>2 DEF Still
      <4>4. AddrZ'
        BY <1>1, <1>2, <2>1, <2>3, <3>2, <3>3, <4>1, <4>2, <4>3 DEF AddrZ
      <4> QED
        BY <1>2, <4>4 DEF Addressing
    <3>4. CASE ~(addressed.addr = DeviceId /\ Rw)
      <4>1. CalmZ /\ eng.state = IF addressed.addr # DeviceId THEN "IDLE" ELSE "WRITING"
        BY <1>7, <2>3, <3>4 DEF AddrZ
      <4>2. CalmZ'
        BY <4>1, DevCalmZ
      <4>3. Still'
        BY <4>2 DEF CalmZ
      <4>4. AddrZ'
        BY <1>1, <1>2, <2>1, <2>3, <3>2, <3>4, <4>1, <4>2, <4>3 DEF AddrZ
      <4> QED
        BY <1>2, <4>4 DEF Addressing
    <3> QED
      BY <3>3, <3>4
  <2> QED
    BY <2>1, <2>2, <2>3
<1> QED
  BY <1>4, <1>5, <1>6, <1>7 DEF Addressing

\* The device sees one more bit of a byte, or has lost the byte at its first bit.
LEMMA DevSendBit ==
  ASSUME WireInv, DevDoes, SendBit, Left = 1
  PROVE  bus'.scl /\ ((Still' /\ AfterBits(Bits + 1 - Len(to))') \/ Lost')
<1> DEFINE l == Len(to)  j == Bits - l  b == task.byte
<1>1. /\ UNCHANGED <<task, to, addressed, eng, m>> /\ Held /\ l \in 1..Bits /\ l \in 0..(Bits + 1) /\ l \in Int
      /\ eng.item = Script(b, l) /\ eng.state = "WRITING" /\ ssda \in BOOLEAN /\ b \in Byte
      /\ bus'.sda <=> ~m.sda /\ ~ssda
      /\ bus'.scl <=> ~m.scl
  BY EngHeld, Bits0 DEF DevDoes, WireInv, TypeInv, SendBit
<1>2. task'.byte = b /\ (Bits + 1 - Len(to))' = j + 1 /\ Bits + 1 - l = j + 1 /\ j \in 0..(Bits - 1)
      /\ j < Bits /\ Bits - j = l /\ Bits - (j + 1) = l - 1 /\ l - 1 \in 0..(Bits - 1) /\ (l - 1) + 1 = l /\ j + 1 > 0
  BY <1>1, Bits0
<1>3. eng.item = IF l - 1 \in b THEN "1" ELSE "0"
  BY <1>1, ScriptIs
<1>4. ~m.scl /\ (m.sda <=> l - 1 \notin b) /\ bus'.scl
  BY <1>1, <1>3 DEF Held, BitHeld, Lows
<1>5. CASE Lost
  <2>1. l = Bits /\ MSB \in b /\ bus.scl /\ ~ssda /\ l - 1 = MSB
    BY <1>5, Bits0 DEF Lost
  <2>2. bus'.sda /\ Starts
    BY <1>1, <1>4, <2>1 DEF DevDoes
  <2>3. dev'.state = "IDLE" /\ ssda' = ssda
    BY <2>2 DEF Starts
  <2>4. Still' /\ AfterBits(Bits + 1 - Len(to))'
    BY <1>1, <1>2, <2>1, <2>3 DEF Still, AfterBits
  <2> QED
    BY <1>4, <2>4
<1>6. CASE ~Lost
  <2>1. Still
    BY <1>6 DEF SendBit
  <2>2. ~bus.scl /\ RiseDoes /\ (ssda <=> Drive)
    BY <1>4, <2>1, DevRises
  <2>3. AfterBits(j)
    BY <1>1, <1>6, <2>2 DEF SendBit
  <2>4. CASE j > 0 /\ dev.state = "IDLE" /\ ~ssda
    <3>1. dev'.state = "IDLE" /\ ssda' = ssda
      BY <2>2, <2>4 DEF RiseDoes
    <3>2. Still' /\ AfterBits(Bits + 1 - Len(to))'
      BY <1>1, <1>2, <2>4, <3>1 DEF Still, AfterBits
    <3> QED
      BY <1>4, <3>2
  <2>5. CASE ~(j > 0 /\ dev.state = "IDLE" /\ ~ssda)
    <3>1. /\ j > 0 => MSB \notin b
          /\ dev.state = "WRDATA" /\ dev.i = MSB - j /\ dev.data = High(b, l)
      BY <1>2, <2>3, <2>5 DEF AfterBits
    <3>2. /\ dev'.data = Next1(dev.data)
          /\ dev'.state = IF dev.i = 0 THEN "ACKWRD" ELSE "WRDATA"
          /\ dev'.i = IF dev.i = 0 THEN 0 ELSE dev.i - 1
          /\ ssda' = IF dev.i = MSB THEN FALSE ELSE ssda
      BY <2>2, <3>1 DEF RiseDoes
    <3>3. dev.i = l - 1 /\ (dev.i = MSB <=> j = 0) /\ (ssda <=> j = 0)
      BY <1>1, <2>2, <3>1, Bits0 DEF Drive
    <3>4. ~ssda'
      BY <3>2, <3>3
    <3>5. CASE j = 0 /\ MSB \in b
      <4>1. l = Bits /\ l - 1 = MSB /\ dev.i # 0 /\ dev.i = MSB
        BY <1>1, <3>3, <3>5, Bits0
      <4>2. dev'.state = "WRDATA" /\ dev'.i = MSB - 1 /\ ~bus'.sda
        BY <1>1, <3>2, <3>3, <3>5, <4>1
      <4>3. Lost'
        BY <1>1, <1>2, <1>4, <3>4, <3>5, <4>1, <4>2 DEF Lost
      <4> QED
        BY <1>4, <4>3
    <3>6. CASE ~(j = 0 /\ MSB \in b)
      <4>1. MSB \notin b
        BY <1>2, <3>1, <3>6
      <4>2. bus'.sda <=> l - 1 \in b
        <5>1. CASE j = 0
          <6>1. l - 1 = MSB
            BY <1>1, <5>1, Bits0
          <6> QED
            BY <1>1, <3>3, <4>1, <5>1, <6>1
        <5>2. CASE j # 0
          BY <1>1, <1>4, <3>3, <5>2
        <5> QED
          BY <5>1, <5>2
      <4>3. Still'
        <5>1. m.sda => ~bus'.sda
          BY <1>1
        <5>2. ~m.sda => bus'.sda
          BY <1>4, <4>2
        <5> QED
          BY <1>1, <3>4, <5>1, <5>2 DEF Still
      <4>4. Next1(High(b, (l - 1) + 1)) = High(b, l - 1)
        BY <1>1, <1>2, <4>2, HighShift, Zenon
      <4>5. dev'.data = High(b, l - 1)
        <5>1. dev.data = High(b, (l - 1) + 1)
          BY <1>2, <3>1
        <5> QED
          BY <3>2, <4>4, <5>1
      <4>6. CASE l = 1
        <5>1. dev'.state = "ACKWRD" /\ dev'.data = b /\ j + 1 = Bits
          <6>1. High(b, 0) = b
            BY <1>1, HighAll
          <6>2. l - 1 = 0 /\ dev.i = 0
            BY <3>3, <4>6
          <6>3. j + 1 = Bits
            BY <4>6, Bits0
          <6>4. dev'.data = High(b, 0)
            BY <4>5, <6>2
          <6> QED
            BY <3>2, <6>1, <6>2, <6>3, <6>4
        <5>2. AfterBits(Bits + 1 - Len(to))'
          BY <1>1, <1>2, <4>1, <5>1 DEF AfterBits
        <5> QED
          BY <1>4, <4>3, <5>2
      <4>7. CASE l # 1
        <5>1. dev'.state = "WRDATA" /\ dev'.i = MSB - (j + 1) /\ j + 1 # Bits
          <6>1. dev.i = l - 1 /\ l - 1 # 0
            BY <1>1, <3>3, <4>7
          <6>2. dev'.state = "WRDATA" /\ dev'.i = (l - 1) - 1
            BY <3>2, <6>1
          <6>3. (l - 1) - 1 = MSB - (j + 1) /\ j + 1 # Bits
            <7>1. l \in Int /\ l # 1 /\ Bits \in Int /\ MSB = Bits - 1
              BY <1>1, <4>7, Bits0
            <7> HIDE DEF l
            <7> QED
              BY <7>1
          <6> QED
            BY <6>2, <6>3
        <5>2. AfterBits(Bits + 1 - Len(to))'
          <6>1. PICK n : n = Bits + 1 - Len(to') /\ n = j + 1
            BY <1>1, <1>2
          <6>2. dev'.data = High(b, Bits - n) /\ dev'.i = MSB - n /\ n # Bits /\ dev'.state = "WRDATA" /\ MSB \notin task'.byte
            BY <1>2, <4>1, <4>5, <5>1, <6>1
          <6> QED
            BY <1>2, <6>1, <6>2 DEF AfterBits
        <5> QED
          BY <1>4, <4>3, <5>2
      <4> QED
        BY <4>6, <4>7
    <3> QED
      BY <3>5, <3>6
  <2> QED
    BY <2>4, <2>5
<1> QED
  BY <1>5, <1>6

LEMMA DevSend == ASSUME WireInv, DevDoes, Sending PROVE Sending'
<1>1. /\ UNCHANGED <<task, to, addressed, eng, m>> /\ Left' = Left /\ Held /\ ssda \in BOOLEAN /\ task.pc = "write"
      /\ bus'.sda <=> ~m.sda /\ ~ssda
      /\ bus'.scl <=> ~m.scl
      /\ m.scl => dev' = dev /\ (ssda' <=> Drive)
  BY EngHeld DEF DevDoes, Left, WireInv, TypeInv, Sending
<1>2. m.scl /\ dev.state = "IDLE" => ~ssda'
  BY <1>1 DEF Drive
<1>3. CASE SendNone
  <2>1. m.scl /\ AfterBits(Bits + 1 - Len(to))
    BY <1>1, <1>3 DEF SendNone, Held
  <2>2. AfterBits(Bits + 1 - Len(to))'
    BY <1>1, <1>2, <2>1 DEF AfterBits
  <2>3. SendNone'
    BY <1>1, <1>3, <2>2 DEF SendNone
  <2> QED
    BY <1>1, <2>3 DEF Sending
<1>4. CASE SendBit
  <2>1. /\ Len(to) \in 1..Bits /\ Len(to) \in 0..(Bits + 1) /\ eng.item = Script(task.byte, Len(to)) /\ eng.state = "WRITING"
        /\ eng.item \in {"0", "1"}
    BY <1>4, ScriptIs, Bits0 DEF SendBit
  <2>2. BitHeld
    BY <1>1, <2>1 DEF Held
  <2>3. CASE Left > 1
    <3>1. AfterBits(Bits - Len(to)) /\ m.scl
      BY <1>4, <2>2, <2>3 DEF SendBit, BitHeld
    <3>2. AfterBits(Bits - Len(to))'
      BY <1>1, <1>2, <3>1 DEF AfterBits
    <3>3. SendBit'
      BY <1>1, <2>1, <2>2, <2>3, <3>2 DEF SendBit, BitHeld
    <3> QED
      BY <1>1, <3>3 DEF Sending
  <2>4. CASE Left = 1
    <3>1. bus'.scl /\ ((Still' /\ AfterBits(Bits + 1 - Len(to))') \/ Lost')
      BY <1>4, <2>4, DevSendBit
    <3>2. SendBit'
      BY <1>1, <2>1, <2>4, <3>1 DEF SendBit
    <3> QED
      BY <1>1, <3>2 DEF Sending
  <2> QED
    BY <2>2, <2>3, <2>4 DEF BitHeld
<1>5. CASE SendZ
  <2>1. to = <<>> /\ eng.item = "Z" /\ Left \in 1..2 /\ eng.state = "WRITING"
    BY <1>1, <1>5 DEF SendZ, Held
  <2>2. CASE Left = 2
    <3>1. AfterBits(Bits) /\ m.scl
      BY <1>1, <1>5, <2>1, <2>2 DEF SendZ, Held
    <3>2. AfterBits(Bits)'
      BY <1>1, <1>2, <3>1 DEF AfterBits
    <3>3. SendZ'
      BY <1>1, <2>1, <2>2, <3>2 DEF SendZ
    <3> QED
      BY <1>1, <3>3 DEF Sending
  <2>3. CASE Left = 1
    <3>1. CalmZ' /\ bus'.scl
      BY <1>5, <2>3, DevCalmZ DEF SendZ
    <3>2. SendZ'
      BY <1>1, <2>1, <2>3, <3>1 DEF SendZ
    <3> QED
      BY <1>1, <3>2 DEF Sending
  <2> QED
    BY <2>1, <2>2, <2>3
<1>6. CASE Deaf
  <2>1. CASE eng.state = "IDLE"
    <3>1. CalmNone \/ CalmZ
      BY <1>6, <2>1 DEF Deaf
    <3>2. Calm'
      BY <3>1, DevCalm DEF Calm
    <3>3. CalmNone' \/ CalmZ'
      BY <1>1, <3>1, <3>2, NoneAssumption DEF Calm, CalmNone, CalmZ, CalmN, CalmP
    <3>4. Deaf'
      BY <1>1, <1>6, <2>1, <3>3 DEF Deaf
    <3> QED
      BY <1>1, <3>4 DEF Sending
  <2>2. CASE eng.state = "READING"
    <3>1. Deaf'
      BY <1>1, <1>6, <2>2 DEF Deaf
    <3> QED
      BY <1>1, <3>1 DEF Sending
  <2> QED
    BY <1>6, <2>1, <2>2 DEF Deaf
<1> QED
  BY <1>3, <1>4, <1>5, <1>6 DEF Sending

LEMMA DevColl == ASSUME WireInv, DevDoes, Collecting PROVE Collecting'
<1>1. /\ UNCHANGED <<task, to, from, addressed, eng, m>> /\ Left' = Left /\ Held /\ ssda \in BOOLEAN
      /\ task.pc = "collect" /\ eng.state = "READING" /\ task.bit < task.size * Bits
      /\ from \in Seq(Items) /\ Len(from) \in Nat
      /\ bus'.sda <=> ~m.sda /\ ~ssda
      /\ bus'.scl <=> ~m.scl
      /\ m.scl => dev' = dev
  BY EngHeld DEF DevDoes, Left, WireInv, TypeInv, Collecting
<1>2. CASE CollZ
  <2>1. eng.item = "Z" /\ Left \in 1..2 /\ ~m.sda
    BY <1>1, <1>2 DEF CollZ, Held
  <2>2. CASE Left = 2
    <3>1. to = <<>> /\ Reads(Len(from)) /\ m.scl
      BY <1>1, <1>2, <2>1, <2>2 DEF CollZ, Held
    <3>2. CollZ'
      BY <1>1, <2>1, <2>2, <3>1 DEF CollZ, Reads
    <3> QED
      BY <1>1, <3>2 DEF Collecting
  <2>3. CASE Left = 1
    <3>1. Still /\ ~m.scl
      BY <1>1, <1>2, <2>1, <2>3 DEF CollZ, Held
    <3>2. ~bus.scl /\ RiseDoes /\ bus'.scl
      BY <3>1, DevRises
    <3>3. IF from = <<>> THEN dev.state = "ACKRD" ELSE Reads(Len(from) - 1)
      BY <1>2, <2>3, <3>2 DEF CollZ
    <3>4. /\ ssda' = ssda
          /\ IF Whole(Len(from)) THEN dev'.state = "ACKNACK" ELSE dev'.state = "READ" /\ dev'.i = MSB - (Len(from) % Bits)
      <4>1. CASE from = <<>>
        <5>1. Len(from) = 0 /\ 0 % Bits = 0 /\ MSB - 0 = MSB
          BY <4>1, NextBit, Bits0
        <5>2. dev'.state = "READ" /\ dev'.i = MSB /\ ssda' = ssda
          BY <3>2, <3>3, <4>1 DEF RiseDoes
        <5> QED
          BY <5>1, <5>2 DEF Whole
      <4>2. CASE from # <<>>
        <5> DEFINE n == Len(from) - 1
        <5>1. n \in Nat /\ n + 1 = Len(from) /\ n % Bits \in 0..(Bits - 1)
          <6>1. Len(from) \in Nat /\ Len(from) # 0
            BY <1>1, <4>2
          <6>2. n \in Nat /\ n + 1 = Len(from)
            BY <6>1
          <6> QED
            BY <6>2, DivBits
        <5>2. dev.state = "READ" /\ dev.i = MSB - (n % Bits)
          BY <3>3, <4>2 DEF Reads
        <5>3. /\ ssda' = ssda
              /\ IF dev.i = 0 THEN dev'.state = "ACKNACK" ELSE dev'.state = "READ" /\ dev'.i = dev.i - 1
          BY <3>2, <5>2 DEF RiseDoes
        <5>4. /\ n % Bits = Bits - 1 => (n + 1) % Bits = 0
              /\ n % Bits # Bits - 1 => (n + 1) % Bits = (n % Bits) + 1
          BY <5>1, NextBit
        <5>5. dev.i = 0 <=> n % Bits = Bits - 1
          BY <5>1, <5>2, Bits0
        <5>6. CASE n % Bits = Bits - 1
          <6>1. Whole(Len(from))
            BY <5>1, <5>4, <5>6 DEF Whole
          <6>2. dev.i = 0
            BY <5>5, <5>6
          <6>3. ssda' = ssda /\ dev'.state = "ACKNACK"
            BY <5>3, <6>2
          <6> QED
            BY <6>1, <6>3
        <5>7. CASE n % Bits # Bits - 1
          <6>1. Len(from) % Bits = (n % Bits) + 1
            BY <5>1, <5>4, <5>7
          <6>2. ~Whole(Len(from))
            BY <5>1, <6>1 DEF Whole
          <6>3. dev.i - 1 = MSB - (Len(from) % Bits)
            BY <5>1, <5>2, <6>1, Bits0
          <6> QED
            BY <5>3, <5>5, <5>7, <6>2, <6>3
        <5> QED
          BY <5>6, <5>7
      <4> QED
        BY <4>1, <4>2
    <3>5. Still'
      <4>1. bus'.sda <=> ~m.sda /\ ~ssda
        BY <1>1
      <4> QED
        BY <1>1, <3>4, <4>1 DEF Still
    <3>6. to = IF Len(from) > task.bit THEN <<>> ELSE IF Whole(Len(from)) THEN <<"A", "Z">> ELSE <<"Z">>
      BY <1>2, <2>3 DEF CollZ
    <3>7. Whole(Len(from'))  <=> Whole(Len(from))
      BY <1>1
    <3>8. CollZ'
      BY <1>1, <2>1, <2>3, <3>2, <3>4, <3>5, <3>6 DEF CollZ, Reads
    <3> QED
      BY <1>1, <3>8 DEF Collecting
  <2> QED
    BY <2>1, <2>2, <2>3
<1>3. CASE CollNone
  <2>1. m.scl
    BY <1>1, <1>3 DEF CollNone, Held
  <2>2. CollNone'
    BY <1>1, <1>3, <2>1 DEF CollNone, Reads
  <2> QED
    BY <1>1, <2>2 DEF Collecting
<1>4. CASE CollA
  <2>1. eng.item = "A" /\ BitHeld /\ to = <<"Z">> /\ Whole(Len(from))
    BY <1>1, <1>4 DEF CollA, Held
  <2>2. CASE Left > 1
    <3>1. m.scl /\ dev.state = "ACKNACK"
      BY <1>4, <2>1, <2>2 DEF CollA, BitHeld
    <3>2. CollA'
      BY <1>1, <2>1, <2>2, <3>1 DEF CollA, BitHeld
    <3> QED
      BY <1>1, <3>2 DEF Collecting
  <2>3. CASE Left = 1
    <3>1. Still /\ ~m.scl /\ m.sda
      BY <1>4, <2>1, <2>3 DEF CollA, BitHeld, Lows
    <3>2. ~bus.scl /\ RiseDoes /\ bus'.scl
      BY <3>1, DevRises
    <3>3. dev.state = "ACKNACK" /\ ~bus'.sda
      BY <1>1, <1>4, <2>3, <3>1, <3>2 DEF CollA
    <3>4. dev'.state = "READ" /\ dev'.i = MSB /\ ssda' = ssda
      BY <3>2, <3>3 DEF RiseDoes
    <3>5. Reads(Len(from))'
      <4>1. Len(from) % Bits = 0 /\ MSB - 0 = MSB
        BY <2>1, Bits0 DEF Whole
      <4> QED
        BY <1>1, <3>4, <4>1 DEF Reads
    <3>6. Still'
      BY <1>1, <3>1, <3>3, <3>4 DEF Still
    <3>7. CollA'
      BY <1>1, <2>1, <2>3, <3>2, <3>5, <3>6 DEF CollA
    <3> QED
      BY <1>1, <3>7 DEF Collecting
  <2> QED
    BY <2>1, <2>2, <2>3 DEF BitHeld
<1> QED
  BY <1>2, <1>3, <1>4 DEF Collecting

LEMMA DevInv == ASSUME WireInv, i2c_th PROVE WireInv'
<1>1. DevDoes
  BY DevFacts
<1>2. PhaseInv'
  <2>1. CASE Ahead /\ Calm
    <3>1. Ahead'
      BY <1>1, <2>1 DEF DevDoes, Ahead, Sent
    <3> QED
      BY <1>1, <2>1, <3>1, DevCalm DEF PhaseInv
  <2> QED
    BY <1>1, <2>1, DevAddr, DevSend, DevColl DEF PhaseInv, WireInv
<1> QED
  BY <1>1, <1>2, DevPort, DevToFrom DEF WireInv

(***************************************************************************)
(* The invariant holds, and what follows from it.                          *)
(***************************************************************************)

\* Once the address is answered the sketch knows who was addressed.
AnswerInv == ~Sent /\ addressed.addr # None => (addressed.ok <=> addressed.addr = DeviceId)

\* A byte that the engine sends while the device waits for the end of a read.
DeafDev ==
  /\ ~m.sda
  /\ eng.item = "Z" /\ Left = 1 => Still
  /\ \/ dev.state \in {"IDLE", "ACKNACK"}
     \/ dev.state = "READ" /\ dev.i = 0 /\ eng.item = "Z" /\ Left = 1 /\ ~bus.scl

\* The byte is on the port but the sketch does not know it yet.
Arrived == task.pc = "write" /\ eng.state = "WRITING" /\ Fresh /\ bus.scl
Pending == Ahead /\ dev.state = "ACKWRD"

\* Where the last byte is that write returned for.
ByteInv ==
  /\ Arrived => dev.drive = task.byte
  /\ ~Arrived /\ ~Pending => dev.drive = acked
  /\ Pending => dev.data = acked
  /\ eng.item = "P" \/ (~Ahead /\ task.pc # "write") => dev.state # "ACKWRD"
  /\ task.pc = "write" /\ eng.state = "READING" /\ eng.item \in {None, "0", "1", "Z"} => DeafDev

LEMMA WireInit == ASSUME Init PROVE WireInv
<1>1. TypeInv
  <2>1. task \in [pc : Calls, byte : Byte, size : Nat, stop : BOOLEAN, bit : Nat]
    BY DEF Init, Idle, Calls, Byte
  <2>2. to \in Seq(Items) /\ from \in Seq(Items)
    BY DEF Init
  <2>3. m \in Lines /\ bus \in Lines /\ ssda \in BOOLEAN
    BY DEF Init, Lines
  <2>4. dev \in DevType
    BY Bits0 DEF Init, DevType, AllOnes
  <2>5. addressed \in [addr : {None} \cup SUBSET (0..(Bits - 2)), ok : BOOLEAN]
    BY DEF Init
  <2> QED
    BY <2>1, <2>2, <2>3, <2>4, <2>5 DEF Init, TypeInv, States
<1>2. EngInv
  BY DEF Init, EngInv
<1>3. PortInv
  BY Bits0 DEF Init, PortInv
<1>4. ToInv /\ FromInv
  BY DEF Init, ToInv, FromInv, Idle, Sent
<1>5. PhaseInv
  BY DEF Init, PhaseInv, Ahead, Calm, CalmNone, RestDev, Free0, Idle
<1> QED
  BY <1>1, <1>2, <1>3, <1>4, <1>5 DEF WireInv

LEMMA SketchInv == ASSUME WireInv, ~Hasty, Sketch PROVE WireInv'
<1>1. CASE \E a \in Addrs, n \in Sizes, stop \in BOOLEAN : requestFrom(a, n, stop)
  BY <1>1, RequestInv
<1>2. CASE \E a \in Addrs : beginTransmission(a)
  BY <1>2, BeginInv
<1>3. CASE \E stop \in BOOLEAN : endTransmission(stop)
  BY <1>3, EndInv
<1>4. CASE \E b \in Values : write(b)
  BY <1>4, WriteInv
<1>5. CASE flush \/ peek \/ read
  BY <1>5, FlushInv, TakenInv
<1> QED
  BY <1>1, <1>2, <1>3, <1>4, <1>5 DEF Sketch

LEMMA WireNext == ASSUME WireInv, ~Hasty, [Next]_vars PROVE WireInv'
<1>1. CASE Sketch
  BY <1>1, SketchInv
<1>2. CASE Resume
  BY <1>2, AddressInv, BitInv, WrittenInv DEF Resume
<1>3. CASE Fetch
  BY <1>3, FetchInv
<1>4. CASE Clock
  BY <1>4, ClockInv
<1>5. CASE i2c_th
  BY <1>5, DevInv
<1>6. CASE \E v \in Inputs : Pin(v)
  <2>1. UNCHANGED <<task, to, from, addressed, eng, m, bus, ssda, dev>>
    BY <1>6 DEF Pin, wire
  <2> QED
    BY <2>1, Unchanged
<1>7. CASE UNCHANGED vars
  <2>1. UNCHANGED <<task, to, from, addressed, eng, m, bus, ssda, dev>>
    BY <1>7 DEF vars, wire, port, hist
  <2> QED
    BY <2>1, Unchanged
<1> QED
  BY <1>1, <1>2, <1>3, <1>4, <1>5, <1>6, <1>7 DEF Next

LEMMA Released == ASSUME WireInv PROVE BusReleased
<1> SUFFICES ASSUME eng.state = "IDLE", eng.item = None, m = [sda |-> FALSE, scl |-> FALSE], Settled
             PROVE  bus = [sda |-> TRUE, scl |-> TRUE] /\ dev.state = "IDLE" /\ ~ssda
  BY DEF BusReleased
<1>1. Calm
  BY NoneAssumption DEF WireInv, PhaseInv, Addressing, AddrS, AddrNone, AddrBit, AddrZ, Sending, SendNone, SendBit, SendZ, Deaf,
     Collecting, Calm, CalmZ, Script
<1>2. CalmNone
  BY <1>1, NoneAssumption DEF Calm, CalmZ, CalmN, CalmP
<1>3. ~ssda /\ dev.state = "IDLE"
  BY <1>2 DEF CalmNone, RestDev, Free0
<1> QED
  BY <1>3 DEF Settled, Resolved

\* Once the engine has sent a stop and rests, both lines are high and the device
\* has seen the stop, whatever happened before: a refused address, a read that
\* ended with 'N', a byte that nobody took.  The sketch must not be hasty: one
\* that addresses the device again without a stop can leave it in the middle of
\* a read (transfer_th and i2c_th).
THEOREM BusIsReleased == ASSUME ~Hasty PROVE Spec => []BusReleased
<1>1. Init => WireInv
  BY WireInit
<1>2. WireInv /\ [Next]_vars => WireInv'
  BY WireNext
<1>3. WireInv => BusReleased
  BY Released
<1> QED
  BY <1>1, <1>2, <1>3, PTL DEF Spec

\* A step that leaves the call and the address alone.
LEMMA AnswerSame == ASSUME AnswerInv, addressed' = addressed, task'.pc = task.pc \/ ~Sent PROVE AnswerInv'
  BY DEF AnswerInv, Sent

LEMMA AnswerNext == ASSUME WireInv, AnswerInv, [Next]_vars PROVE AnswerInv'
<1>1. ASSUME NEW a \in Addrs, NEW n \in Sizes, NEW stop \in BOOLEAN, requestFrom(a, n, stop) PROVE AnswerInv'
  <2>1. CASE NoRoom(n)
    BY <1>1, <2>1, AnswerSame DEF requestFrom, Report
  <2>2. CASE ~NoRoom(n)
    BY <1>1, <2>2 DEF requestFrom, Idle, AnswerInv, Sent
  <2> QED
    BY <2>1, <2>2
<1>2. ASSUME NEW a \in Addrs, beginTransmission(a) PROVE AnswerInv'
  <2>1. CASE Free(to) < Bits + 2
    BY <1>2, <2>1, AnswerSame DEF beginTransmission, Report
  <2>2. CASE ~(Free(to) < Bits + 2)
    BY <1>2, <2>2 DEF beginTransmission, Idle, AnswerInv, Sent
  <2> QED
    BY <2>1, <2>2
<1>3. ASSUME NEW stop \in BOOLEAN, endTransmission(stop) PROVE AnswerInv'
  BY <1>3, AnswerSame DEF endTransmission, hist
<1>4. ASSUME NEW b \in Values, write(b) PROVE AnswerInv'
  <2>1. addressed' = addressed /\ task.pc = "idle"
    BY <1>4 DEF write, Report
  <2> QED
    BY <2>1, AnswerSame DEF Sent
<1>5. flush \/ peek \/ read => AnswerInv'
  BY AnswerSame DEF flush, peek, read, wire
<1>6. CASE AddressAnswered
  <2>1. task.pc \in {"begin", "request"} /\ Len(from) > task.bit
    BY <1>6 DEF AddressAnswered
  <2>2. PICK ok : ok = (Head(from) = "A") /\ addressed' = [addressed EXCEPT !.ok = ok]
    BY <1>6, Zenon DEF AddressAnswered
  <2>3. from = <<IF addressed.addr = DeviceId THEN "A" ELSE "N">>
    <3>1. Sent /\ task.pc # "idle"
      BY <2>1 DEF Sent
    <3> QED
      BY <2>1, <3>1, Woke
  <2>4. ok <=> addressed.addr = DeviceId
    <3>1. Head(from) = IF addressed.addr = DeviceId THEN "A" ELSE "N"
      BY <2>3
    <3>2. Head(from) = "A" <=> addressed.addr = DeviceId
      BY <3>1
    <3> QED
      BY <2>2, <3>2
  <2>5. addressed \in [addr : {None} \cup SUBSET (0..(Bits - 2)), ok : BOOLEAN]
    BY DEF WireInv, TypeInv
  <2>6. addressed'.addr = addressed.addr /\ addressed'.ok = ok
    BY <2>2, <2>5
  <2> QED
    BY <2>4, <2>6 DEF AnswerInv
<1>7. CASE BitAnswered \/ WriteAnswered
  BY <1>7, AnswerSame DEF BitAnswered, WriteAnswered, hist, Sent
<1>8. CASE Fetch \/ Clock
  BY <1>8, AnswerSame DEF Fetch, Clock, wire, hist
<1>9. CASE i2c_th
  BY <1>9, DevFacts, AnswerSame DEF DevDoes
<1>10. ASSUME NEW v \in Inputs, Pin(v) PROVE AnswerInv'
  BY <1>10, AnswerSame DEF Pin, wire
<1>11. CASE UNCHANGED vars
  BY <1>11, AnswerSame DEF vars, wire, hist
<1> QED
  BY <1>1, <1>2, <1>3, <1>4, <1>5, <1>6, <1>7, <1>8, <1>9, <1>10, <1>11 DEF Next, Sketch, Resume

\* beginTransmission and requestFrom return success exactly when the address is
\* the device's: the character that they take from the FIFO is the answer to
\* their own address, and the device has compared every bit of it.
THEOREM AnswerIsRight == ASSUME ~Hasty PROVE Spec => []AnswerRight
<1>1. Init => WireInv /\ AnswerInv
  <2>1. Init => AnswerInv
    BY DEF Init, AnswerInv
  <2> QED
    BY <2>1, WireInit
<1>2. WireInv /\ AnswerInv /\ [Next]_vars => WireInv' /\ AnswerInv'
  BY WireNext, AnswerNext
<1>3. AnswerInv => AnswerRight
  BY DEF AnswerInv, AnswerRight, Sent
<1> QED
  BY <1>1, <1>2, <1>3, PTL DEF Spec

LEMMA Quiet ==
  ASSUME WireInv, task.pc = "idle" \/ Sent
  PROVE  ~Arrived /\ (task.pc = "idle" => Ahead /\ Calm)
  BY DEF Arrived, Sent, WireInv, PhaseInv, Ahead, Addressing, Sending, Collecting

\* While the engine is ahead of the device's last acknowledge, only the clock is still to rise.
LEMMA PendingZ ==
  ASSUME WireInv, ByteInv, Pending
  PROVE  CalmZ /\ ~bus.scl /\ eng.state = "WRITING"
<1>1. Ahead /\ dev.state = "ACKWRD" /\ eng.item # "P" /\ Len(to) \in Nat /\ eng.state \in States
  BY DEF ByteInv, Pending, WireInv, TypeInv
<1>2. Calm
  <2>1. Calm \/ (task.pc = "write" /\ eng.state = "READING" /\ eng.item \in {None, "0", "1", "Z"})
    BY <1>1, Bits0 DEF WireInv, PhaseInv, Ahead, Addressing, Sending, Collecting, Sent, AddrS, AddrNone, AddrBit, AddrZ,
       SendNone, SendBit, SendZ, Deaf, Calm
  <2>2. DeafDev => dev.state # "ACKWRD"
    BY DEF DeafDev
  <2> QED
    BY <1>1, <2>1, <2>2 DEF ByteInv
<1>3. ~RestDev
  BY <1>1 DEF RestDev, States
<1>4. ~CalmN
  <2> SUFFICES ASSUME CalmN PROVE FALSE
    OBVIOUS
  <2>1. Left \in 1..3
    BY EngHeld DEF CalmN, Held, BitHeld, WireInv
  <2> QED
    BY <1>1, <1>3, <2>1 DEF CalmN
<1>5. CalmZ
  BY <1>1, <1>2, <1>3, <1>4 DEF Calm, CalmNone, CalmP
<1> QED
  BY <1>1, <1>3, <1>5 DEF CalmZ, States

\* A step of the sketch between two calls.
LEMMA BytesKept ==
  ASSUME WireInv, ByteInv, task.pc = "idle", UNCHANGED <<eng, m, bus, ssda, dev, acked>>,
         Ahead', ~Arrived',
         task'.pc = "write" /\ eng.state = "READING" /\ eng.item \in {None, "0", "1", "Z"} => DeafDev
  PROVE  ByteInv'
<1>1. ~Arrived /\ Ahead /\ Calm
  BY Quiet
<1>2. (Pending' <=> Pending) /\ (DeafDev' <=> DeafDev)
  BY <1>1 DEF Pending, DeafDev, Left, Still
<1>3. /\ ~Pending => dev.drive = acked
      /\ Pending => dev.data = acked
      /\ eng.item = "P" => dev.state # "ACKWRD"
  BY <1>1 DEF ByteInv
<1> QED
  BY <1>2, <1>3 DEF ByteInv

LEMMA BytesSketch == ASSUME WireInv, ByteInv, Sketch PROVE ByteInv'
<1>1. ASSUME NEW a \in Addrs, NEW n \in Sizes, NEW stop \in BOOLEAN, requestFrom(a, n, stop) PROVE ByteInv'
  <2>1. task.pc = "idle" /\ UNCHANGED <<eng, m, bus, ssda, dev, acked>>
    BY <1>1 DEF requestFrom, port
  <2>2. CASE NoRoom(n)
    <3>1. task' = task
      BY <1>1, <2>2 DEF requestFrom, Report
    <3> QED
      BY <2>1, <3>1, BytesKept DEF Ahead, Arrived
  <2>3. CASE ~NoRoom(n)
    <3>1. task'.pc = "request" /\ to' = to \o <<"S">> \o writebin(Shift(a, TRUE)) \o <<"Z">>
      BY <1>1, <2>3 DEF requestFrom, Idle
    <3>2. Ahead'
      <4>1. Queued(to, Shift(a, TRUE), 2, to')
        <5>1. to \in Seq(Items)
          BY DEF WireInv, TypeInv
        <5>2. Queued(to, Shift(a, TRUE), 2, to \o <<"S">> \o writebin(Shift(a, TRUE)) \o <<"Z">>)
          BY <5>1, AddressAtEnd, Zenon
        <5> QED
          BY <3>1, <5>2, Zenon
      <4>2. Len(to) \in Nat
        BY DEF WireInv, TypeInv
      <4>3. Len(to') >= Bits + 2
        BY <4>1, <4>2, Bits0 DEF Queued
      <4>4. Sent'
        BY <3>1 DEF Sent
      <4> QED
        BY <4>3, <4>4 DEF Ahead
    <3> QED
      BY <2>1, <3>1, <3>2, BytesKept DEF Arrived
  <2> QED
    BY <2>2, <2>3
<1>2. ASSUME NEW a \in Addrs, beginTransmission(a) PROVE ByteInv'
  <2>1. task.pc = "idle" /\ UNCHANGED <<eng, m, bus, ssda, dev, acked>>
    BY <1>2 DEF beginTransmission, port
  <2>2. CASE Free(to) < Bits + 2
    <3>1. task' = task
      BY <1>2, <2>2 DEF beginTransmission, Report
    <3> QED
      BY <2>1, <3>1, BytesKept DEF Ahead, Arrived
  <2>3. CASE ~(Free(to) < Bits + 2)
    <3>1. task'.pc = "begin" /\ to' = to \o <<"S">> \o writebin(Shift(a, FALSE)) \o <<"Z">>
      BY <1>2, <2>3 DEF beginTransmission, Idle
    <3>2. Ahead'
      <4>1. Queued(to, Shift(a, FALSE), 2, to')
        <5>1. to \in Seq(Items)
          BY DEF WireInv, TypeInv
        <5>2. Queued(to, Shift(a, FALSE), 2, to \o <<"S">> \o writebin(Shift(a, FALSE)) \o <<"Z">>)
          BY <5>1, AddressAtEnd, Zenon
        <5> QED
          BY <3>1, <5>2, Zenon
      <4>2. Len(to) \in Nat
        BY DEF WireInv, TypeInv
      <4>3. Len(to') >= Bits + 2
        BY <4>1, <4>2, Bits0 DEF Queued
      <4>4. Sent'
        BY <3>1 DEF Sent
      <4> QED
        BY <4>3, <4>4 DEF Ahead
    <3> QED
      BY <2>1, <3>1, <3>2, BytesKept DEF Arrived
  <2> QED
    BY <2>2, <2>3
<1>3. ASSUME task.pc = "idle", task' = task, UNCHANGED <<eng, m, bus, ssda, dev, acked>> PROVE ByteInv'
  BY <1>3, BytesKept DEF Ahead, Arrived
<1>4. (\E stop \in BOOLEAN : endTransmission(stop)) \/ flush \/ peek \/ read => ByteInv'
  BY <1>3 DEF endTransmission, flush, peek, read, port, hist, wire
<1>5. ASSUME NEW b \in Values, write(b) PROVE ByteInv'
  <2>1. task.pc = "idle" /\ UNCHANGED <<eng, m, bus, ssda, dev, acked>>
    BY <1>5 DEF write, port
  <2>2. CASE Free(to) < Bits + 1 \/ Free(from) < 1
    <3>1. task' = task
      BY <1>5, <2>2 DEF write, Report
    <3> QED
      BY <1>3, <2>1, <3>1
  <2>3. CASE ~(Free(to) < Bits + 1 \/ Free(from) < 1)
    <3>1. task'.pc = "write" /\ to' = to \o writebin(b) \o <<"Z">>
      BY <1>5, <2>3 DEF write, Idle
    <3>2. Ahead' /\ ~Arrived'
      <4>1. Queued(to, b, 1, to')
        <5>1. to \in Seq(Items)
          BY DEF WireInv, TypeInv
        <5>2. Queued(to, b, 1, to \o writebin(b) \o <<"Z">>)
          BY <5>1, ByteAtEnd, Zenon
        <5> QED
          BY <3>1, <5>2, Zenon
      <4>2. Len(to) \in Nat
        BY DEF WireInv, TypeInv
      <4>3. Len(to') >= Bits + 1
        BY <4>1, <4>2, Bits0 DEF Queued
      <4> QED
        BY <3>1, <4>3, Bits0 DEF Ahead, Arrived, Fresh
    <3>3. eng.state = "READING" /\ eng.item \in {None, "0", "1", "Z"} => DeafDev
      <4> SUFFICES ASSUME eng.state = "READING", eng.item \in {None, "0", "1", "Z"} PROVE DeafDev
        OBVIOUS
      <4>1. CalmNone \/ CalmZ
        BY <2>1, Quiet, NoneAssumption DEF Calm, CalmN, CalmP
      <4>2. CASE CalmNone
        BY <4>2, NoneAssumption DEF CalmNone, RestDev, DeafDev
      <4>3. CASE CalmZ
        <5>1. ~m.sda
          BY <4>3, EngHeld DEF CalmZ, Held, WireInv
        <5> QED
          BY <4>3, <5>1 DEF CalmZ, RestDev, DeafDev
      <4> QED
        BY <4>1, <4>2, <4>3
    <3> QED
      BY <2>1, <3>2, <3>3, BytesKept
  <2> QED
    BY <2>2, <2>3
<1> QED
  BY <1>1, <1>2, <1>4, <1>5 DEF Sketch

\* The port shows what write returned for, and the device does not hold another byte.
LEMMA BytesRest ==
  ASSUME dev'.state # "ACKWRD", dev'.drive = acked', ~Arrived',
         task'.pc = "write" /\ eng'.state = "READING" /\ eng'.item \in {None, "0", "1", "Z"} => DeafDev'
  PROVE  ByteInv'
<1>1. ~Pending'
  BY DEF Pending
<1> QED
  BY <1>1 DEF ByteInv

LEMMA BytesAnswered == ASSUME WireInv, ByteInv, AddressAnswered \/ BitAnswered PROVE ByteInv'
<1>1. task.pc \in {"begin", "request", "collect"} /\ Len(from) > task.bit /\ UNCHANGED <<eng, m, bus, ssda, dev, acked>>
  BY DEF AddressAnswered, BitAnswered, port, hist
<1>2. task'.pc \in {"collect", "idle"}
  <2>1. CASE AddressAnswered
    <3>1. task \in [pc : Calls, byte : Byte, size : Nat, stop : BOOLEAN, bit : Nat]
      BY DEF WireInv, TypeInv
    <3> QED
      BY <2>1, <3>1 DEF AddressAnswered, Idle
  <2>2. CASE BitAnswered
    <3>1. task \in [pc : Calls, byte : Byte, size : Nat, stop : BOOLEAN, bit : Nat]
      BY DEF WireInv, TypeInv
    <3>2. task' = [task EXCEPT !.bit = task.bit + 1] \/ task' = Idle
      BY <2>2, Zenon DEF BitAnswered
    <3>3. task.pc = "collect"
      BY <2>2 DEF BitAnswered
    <3> QED
      BY <3>1, <3>2, <3>3 DEF Idle
  <2> QED
    BY <2>1, <2>2
<1>3. to = <<>> /\ Len(to) = 0
  BY <1>1, Woke
<1>4. ~Ahead
  BY <1>1, <1>3, Bits0 DEF Ahead
<1>5. dev.state # "ACKWRD" /\ dev.drive = acked
  BY <1>1, <1>4 DEF ByteInv, Arrived, Pending
<1>6. ~Arrived'
  BY <1>2 DEF Arrived
<1> QED
  BY <1>1, <1>2, <1>5, <1>6, BytesRest

\* The loop of write ends, or sends the byte again.
LEMMA BytesWritten == ASSUME WireInv, ByteInv, WriteAnswered PROVE ByteInv'
<1>1. task.pc = "write" /\ Len(from) > task.bit /\ UNCHANGED <<eng, m, bus, ssda, dev>> /\ eng.state \in States
  BY DEF WriteAnswered, port, WireInv, TypeInv
<1>2. /\ to = <<>> /\ Len(to) = 0 /\ Fresh /\ eng.item = "Z" /\ Left = 1 /\ eng.item # None
      /\ IF eng.state = "WRITING" THEN Calm /\ from = <<"A">> ELSE Deaf
  BY <1>1, Woke DEF Fresh
<1>3. ~Ahead /\ ~Pending
  BY <1>1, <1>2, Bits0 DEF Ahead, Pending
<1>4. CASE eng.state = "WRITING"
  <2>1. Head(from) = "A"
    BY <1>2, <1>4
  <2>2. task'.pc = "idle" /\ acked' = task.byte
    BY <2>1 DEF WriteAnswered, Idle
  <2>3. SendZ
    BY <1>1, <1>2, <1>3, <1>4, Bits0 DEF WireInv, PhaseInv, Addressing, Sent, Sending, SendNone, SendBit, Deaf, Collecting
  <2>4. CASE bus.scl
    <3>1. Arrived
      BY <1>1, <1>2, <1>4, <2>4 DEF Arrived
    <3>2. dev.drive = task.byte
      BY <3>1 DEF ByteInv
    <3>3. dev.state # "ACKWRD"
      BY <1>2, <1>4, <2>3, <2>4 DEF SendZ, CalmZ, RestDev
    <3> QED
      BY <1>1, <2>2, <3>2, <3>3, BytesRest DEF Arrived
  <2>5. CASE ~bus.scl
    <3>1. dev.data = task.byte /\ dev.state = "ACKWRD"
      BY <1>2, <2>3, <2>5 DEF SendZ
    <3>2. Pending' /\ Ahead' /\ dev'.data = acked'
      BY <1>1, <2>2, <3>1 DEF Pending, Ahead
    <3> QED
      BY <1>1, <1>2, <2>2, <3>2 DEF ByteInv, Arrived
  <2> QED
    BY <2>4, <2>5
<1>5. CASE eng.state # "WRITING"
  <2>1. Deaf
    BY <1>2, <1>5
  <2>2. Head(from) # "A"
    <3>1. (\A z \in DOMAIN from : from[z] \in Digits) \/ from = <<"N">>
      BY <1>1, <1>5 DEF WireInv, FromInv
    <3>2. from \in Seq(Items) /\ Len(from) >= 1 /\ Head(from) = from[1] /\ 1 \in DOMAIN from
      <4>1. from \in Seq(Items) /\ from # <<>>
        BY <1>1, Woke
      <4> QED
        BY <4>1
    <3> QED
      BY <3>1, <3>2 DEF Digits
  <2>3. to' = to \o writebin(task.byte) \o <<"Z">> /\ task' = [task EXCEPT !.bit = Len(from) - 1] /\ acked' = acked
    BY <2>2 DEF WriteAnswered
  <2>4. task'.pc = "write"
    <3>1. task \in [pc : Calls, byte : Byte, size : Nat, stop : BOOLEAN, bit : Nat]
      BY DEF WireInv, TypeInv
    <3> QED
      BY <1>1, <2>3, <3>1
  <2>5. dev.state # "ACKWRD"
    <3>1. CASE eng.state = "IDLE"
      BY <1>2, <2>1, <3>1 DEF Deaf, CalmNone, CalmZ
    <3>2. CASE eng.state = "READING"
      BY <1>1, <1>2, <3>2 DEF ByteInv, DeafDev
    <3> QED
      BY <2>1, <3>1, <3>2 DEF Deaf
  <2>6. dev.drive = acked
    BY <1>3, <1>5 DEF ByteInv, Arrived
  <2>7. eng.state = "READING" => DeafDev
    BY <1>1, <1>2 DEF ByteInv
  <2>8. DeafDev => DeafDev'
    BY <1>1 DEF DeafDev, Left, Still
  <2> QED
    BY <1>1, <1>5, <2>3, <2>5, <2>6, <2>7, <2>8, BytesRest DEF Arrived
<1> QED
  BY <1>4, <1>5

LEMMA BytesFetch == ASSUME WireInv, ByteInv, Fetch PROVE ByteInv'
<1>1. /\ FetchDoes /\ to # <<>> /\ eng.item = None /\ UNCHANGED <<task, bus, ssda, dev, acked>>
      /\ Len(to') = Len(to) - 1 /\ Len(to) \in Nat /\ Len(to) >= 1 /\ eng'.state = eng.state
  BY FetchFacts, HeadIs DEF Fetch, FetchDoes, hist
<1>2. ~Arrived /\ ~Pending
  BY <1>1, PendingZ, NoneAssumption DEF Arrived, Fresh, CalmZ
<1>3. ~(eng'.item = "Z" /\ Left' = 1)
  <2> SUFFICES ASSUME eng'.item = "Z", Left' = 1 PROVE FALSE
    OBVIOUS
  <2>1. eng'.item # eng.item
    BY <1>1, NoneAssumption
  <2>2. Head(to) = "Z" /\ eng.state # "IDLE"
    BY <1>1, <2>1 DEF FetchDoes
  <2> QED
    BY <1>1, <2>2 DEF FetchDoes
<1>4. dev.drive = acked /\ ~Arrived'
  BY <1>2, <1>3 DEF ByteInv, Arrived, Fresh
<1>5. Ahead' => Ahead
  <2>1. Len(to') <= Len(to) /\ Len(to') \in Nat
    BY <1>1
  <2>2. (Len(to') >= Bits + 2 => Len(to) >= Bits + 2) /\ (Len(to') >= Bits + 1 => Len(to) >= Bits + 1)
    BY <1>1, <2>1, Bits0
  <2>3. task' = task
    BY <1>1
  <2> QED
    BY <2>2, <2>3 DEF Ahead, Sent
<1>6. ~Pending'
  BY <1>1, <1>2, <1>5 DEF Pending
<1>7. eng'.item = "P" \/ (~Ahead' /\ task'.pc # "write") => dev'.state # "ACKWRD"
  <2>1. CASE Ahead
    BY <1>1, <1>2, <2>1 DEF Pending
  <2>2. CASE ~Ahead /\ task.pc # "write"
    BY <1>1, <2>2 DEF ByteInv
  <2>3. CASE ~Ahead /\ task.pc = "write"
    <3>1. HeadSend
      BY <1>1, <2>3, HeadIs, Bits0 DEF HeadEarly, HeadStart, HeadByte, HeadAddr, HeadDeaf, HeadColl, Collecting, Ahead, Sent
    <3>2. Head(to) # "P"
      BY <3>1, Bits0 DEF HeadSend, Script
    <3>3. eng'.item # "P"
      BY <1>1, <3>2, NoneAssumption DEF FetchDoes
    <3> QED
      BY <1>1, <2>3, <3>3
  <2> QED
    BY <2>1, <2>2, <2>3
<1>8. task'.pc = "write" /\ eng'.state = "READING" /\ eng'.item \in {None, "0", "1", "Z"} => DeafDev'
  <2> SUFFICES ASSUME task.pc = "write", eng.state = "READING", eng'.item \in {None, "0", "1", "Z"} PROVE DeafDev'
    BY <1>1
  <2>1. ~m.sda /\ dev.state \in {"IDLE", "ACKNACK"}
    BY <1>1, NoneAssumption DEF ByteInv, DeafDev
  <2>2. eng'.item = Head(to)
    BY <1>1 DEF FetchDoes
  <2>3. Head(to) \in Items
    <3>1. to \in Seq(Items)
      BY DEF WireInv, TypeInv
    <3> QED
      BY <1>1, <3>1
  <2>4. Head(to) \in {"0", "1", "Z"}
    BY <2>2, <2>3, NoneAssumption DEF Items
  <2>5. ~m'.sda
    BY <1>1, <2>1, <2>4 DEF FetchDoes
  <2> QED
    BY <1>1, <1>3, <2>1, <2>5 DEF DeafDev
<1> QED
  BY <1>1, <1>4, <1>6, <1>7, <1>8 DEF ByteInv

\* The end of a wait: the device does not move, and no answer is left to be taken.
LEMMA BytesClock == ASSUME WireInv, ByteInv, Clock PROVE ByteInv'
<1>1. /\ ClockDoes /\ UNCHANGED <<task, to, bus, ssda, dev, acked>> /\ eng.item # None /\ Left \in 1..4 /\ Left' = Left - 1
      /\ (bus.sda <=> ~m.sda /\ ~ssda) /\ (bus.scl <=> ~m.scl)
      /\ eng'.item = IF Left = 1 THEN None ELSE eng.item
  BY ClockFacts DEF ClockDoes, Clock, hist
<1>2. Held
  BY EngHeld DEF WireInv
<1>3. ~Arrived
  BY <1>1, NotWoken DEF Arrived
<1>4. ~Arrived'
  <2> SUFFICES ASSUME Arrived' PROVE FALSE
    OBVIOUS
  <2>1. eng'.item = "Z" /\ Left' = 1 /\ bus.scl
    BY <1>1 DEF Arrived, Fresh
  <2>2. eng.item = "Z" /\ Left = 2
    BY <1>1, <2>1, NoneAssumption
  <2> QED
    BY <1>1, <1>2, <2>1, <2>2 DEF Held
<1>5. (Ahead' <=> Ahead) /\ (Pending' <=> Pending)
  BY <1>1 DEF Ahead, Sent, Pending
<1>6. ~Pending' => dev'.drive = acked'
  BY <1>1, <1>3, <1>5 DEF ByteInv
<1>7. Pending' => dev'.data = acked'
  BY <1>1, <1>5 DEF ByteInv
<1>8. eng'.item = "P" \/ (~Ahead' /\ task'.pc # "write") => dev'.state # "ACKWRD"
  <2>1. eng'.item = "P" => eng.item = "P"
    BY <1>1, NoneAssumption
  <2> QED
    BY <1>1, <1>5, <2>1 DEF ByteInv
<1>9. task'.pc = "write" /\ eng'.state = "READING" /\ eng'.item \in {None, "0", "1", "Z"} => DeafDev'
  <2> SUFFICES ASSUME task.pc = "write", eng'.state = "READING", eng'.item \in {None, "0", "1", "Z"} PROVE DeafDev'
    BY <1>1
  <2>1. eng.state = "READING" /\ eng.item \in {"0", "1", "Z", "A"}
    <3>1. ASSUME Ahead /\ Calm PROVE eng.state = "READING" /\ eng.item \in {"0", "1", "Z", "A"}
      <4>1. CalmZ \/ CalmN \/ CalmP
        BY <1>1, <3>1 DEF Calm, CalmNone
      <4>2. ~Sampling
        BY <1>1, <3>1, ClockCalm
      <4> QED
        BY <1>1, <4>1, <4>2, NoneAssumption DEF ClockDoes, CalmZ, CalmN, CalmP
    <3>2. ASSUME SendBit PROVE FALSE
      <4>1. Len(to) \in 1..Bits /\ Len(to) \in 0..(Bits + 1) /\ eng.state = "WRITING"
        BY <3>2, Bits0 DEF SendBit
      <4>2. eng.item \in {"0", "1"}
        BY <3>2, <4>1, ScriptIs DEF SendBit
      <4>3. eng'.state = "WRITING"
        BY <1>1, <4>1, <4>2 DEF ClockDoes, Sampling
      <4> QED
        BY <4>3
    <3>3. ASSUME SendZ PROVE FALSE
      <4>1. eng'.state = IF Sampling THEN Answered ELSE "WRITING"
        BY <1>1, <3>3 DEF SendZ, ClockDoes
      <4>2. Answered # "READING"
        BY <3>3 DEF SendZ, Answered
      <4> QED
        BY <4>1, <4>2
    <3>4. ASSUME Deaf PROVE eng.state = "READING" /\ eng.item \in {"0", "1", "Z", "A"}
      <4>1. CASE eng.state = "IDLE"
        <5>1. CalmZ
          BY <1>1, <3>4, <4>1 DEF Deaf, CalmNone
        <5>2. ~Sampling /\ eng.item = "Z"
          BY <5>1 DEF CalmZ, Sampling
        <5> QED
          BY <1>1, <4>1, <5>2 DEF ClockDoes
      <4>2. CASE eng.state = "READING"
        BY <1>1, <3>4, <4>2 DEF Deaf
      <4> QED
        BY <3>4, <4>1, <4>2 DEF Deaf
    <3> QED
      BY <1>1, <3>1, <3>2, <3>3, <3>4 DEF WireInv, PhaseInv, Addressing, Sent, Sending, SendNone, Collecting
  <2>2. eng.item # "A"
    <3> SUFFICES ASSUME eng.item = "A" PROVE FALSE
      OBVIOUS
    <3>1. ~Calm
      BY NoneAssumption DEF Calm, CalmNone, CalmZ, CalmN, CalmP
    <3>2. ~SendBit
      BY <2>1 DEF SendBit
    <3> QED
      BY <1>1, <3>1, <3>2, <2>1 DEF WireInv, PhaseInv, Addressing, Sent, Sending, SendNone, SendZ, Deaf, Collecting
  <2>3. DeafDev
    BY <2>1, <2>2 DEF ByteInv
  <2>4. CASE eng.item \in {"0", "1"}
    <3>1. m' = m /\ Left = 1 /\ eng'.item = None
      BY <1>1, <2>1, <2>4 DEF ClockDoes
    <3>2. dev.state \in {"IDLE", "ACKNACK"}
      BY <2>3, <2>4 DEF DeafDev
    <3> QED
      BY <1>1, <2>3, <3>1, <3>2, NoneAssumption DEF DeafDev
  <2>5. CASE eng.item = "Z"
    <3>1. SampleDoes /\ Left \in 1..2
      BY <1>1, <1>2, <2>5 DEF ClockDoes, Held
    <3>2. CASE Left = 2
      <4>1. dev.state \in {"IDLE", "ACKNACK"} /\ ~m'.sda /\ ~m.sda
        BY <2>3, <3>1, <3>2 DEF DeafDev, SampleDoes
      <4>2. Still'
        BY <1>1, <4>1 DEF Still
      <4> QED
        BY <1>1, <4>1, <4>2 DEF DeafDev
    <3>3. CASE Left = 1
      <4>1. bus.scl /\ ~m'.sda
        BY <1>1, <1>2, <2>5, <3>1, <3>3 DEF Held, SampleDoes
      <4>2. dev.state \in {"IDLE", "ACKNACK"}
        BY <2>3, <4>1 DEF DeafDev
      <4> QED
        BY <1>1, <3>3, <4>1, <4>2, NoneAssumption DEF DeafDev
    <3> QED
      BY <3>1, <3>2, <3>3
  <2> QED
    BY <2>1, <2>2, <2>4, <2>5
<1> QED
  BY <1>4, <1>6, <1>7, <1>8, <1>9 DEF ByteInv

\* The place before the last bit of a byte.
AtLast == dev.state = "WRDATA" /\ dev.i = 0

\* No clock of the engine is the last one of a byte, but in the middle of a write.
LEMMA RestNotLast == ASSUME WireInv PROVE RestDev => ~AtLast
<1>1. eng.state \in States
  BY DEF WireInv, TypeInv
<1> QED
  BY <1>1, Bits0 DEF RestDev, AtLast, States

LEMMA CalmNotLast == ASSUME WireInv, Calm, ~m.scl, ~bus.scl PROVE ~AtLast
<1>1. Held /\ eng.state \in States
  BY EngHeld DEF WireInv, TypeInv
<1>2. CASE CalmNone
  BY <1>2, RestNotLast DEF CalmNone
<1>3. CASE CalmZ
  BY <1>1, <1>3 DEF CalmZ, AtLast, States
<1>4. CASE CalmN
  <2>1. Left \in 1..3
    BY <1>1, <1>4 DEF CalmN, Held, BitHeld
  <2> QED
    BY <1>4, <2>1, RestNotLast DEF CalmN
<1>5. CASE CalmP
  <2>1. Left \in 1..4
    BY <1>1, <1>5 DEF CalmP, Held
  <2> QED
    BY <1>5, <2>1, RestNotLast DEF CalmP
<1> QED
  BY <1>2, <1>3, <1>4, <1>5 DEF Calm

LEMMA RisesNotLast == ASSUME NEW j \in 0..Bits, AfterRises(j) PROVE ~AtLast
<1>1. j < Bits \/ j = Bits
  BY Bits0
<1> QED
  BY <1>1 DEF AfterRises, AtLast

LEMMA AddrNotLast == ASSUME WireInv, Addressing, ~m.scl, ~bus.scl PROVE ~AtLast
<1>1. Held
  BY EngHeld DEF WireInv
<1>2. CASE AddrS
  <2>1. Left \in 1..3 /\ 0 \in 0..Bits
    BY <1>1, <1>2, Bits0 DEF AddrS, Held
  <2> QED
    BY <1>2, <2>1, RestNotLast, RisesNotLast DEF AddrS
<1>3. CASE AddrNone
  <2>1. Bits + 1 - Len(to) \in 0..Bits /\ AfterRises(Bits + 1 - Len(to))
    BY <1>3, Bits0 DEF AddrNone
  <2> QED
    BY <2>1, RisesNotLast
<1>4. CASE AddrBit
  <2>1. Len(to) \in 1..Bits /\ Len(to) \in 0..(Bits + 1) /\ eng.state = "DEVID"
    BY <1>4, Bits0 DEF AddrBit
  <2>2. eng.item \in {"0", "1"}
    BY <1>4, <2>1, ScriptIs DEF AddrBit
  <2>3. Left = 1
    BY <1>1, <2>1, <2>2 DEF Held, BitHeld
  <2>4. Bits - Len(to) \in 0..Bits /\ AfterRises(Bits - Len(to))
    BY <1>4, <2>1, <2>3, Bits0 DEF AddrBit
  <2> QED
    BY <2>4, RisesNotLast
<1>5. CASE AddrZ
  <2>1. Left = 1
    BY <1>1, <1>5 DEF AddrZ, Held
  <2> QED
    BY <1>5, <2>1, CalmNotLast DEF AddrZ, Calm, AtLast
<1> QED
  BY <1>2, <1>3, <1>4, <1>5 DEF Addressing

LEMMA CollNotLast == ASSUME WireInv, Collecting, ~m.scl, ~bus.scl PROVE ~AtLast
<1>1. Held /\ eng.state = "READING"
  BY EngHeld DEF WireInv, Collecting
<1>2. CASE CollZ
  <2>1. Left = 1
    BY <1>1, <1>2 DEF CollZ, Held
  <2> QED
    BY <1>2, <2>1 DEF CollZ, Reads, AtLast
<1>3. CASE CollNone
  BY <1>1, <1>3 DEF CollNone, Held
<1>4. CASE CollA
  <2>1. Left = 1
    BY <1>1, <1>4 DEF CollA, Held, BitHeld
  <2> QED
    BY <1>4, <2>1 DEF CollA, AtLast
<1> QED
  BY <1>2, <1>3, <1>4 DEF Collecting

\* Whom a read leaves without an ear does not hold a byte.
LEMMA DeafRest ==
  ASSUME WireInv, ByteInv, task.pc = "write", Deaf
  PROVE  dev.state \notin {"WRDATA", "ACKWRD"}
<1>1. CASE eng.state = "IDLE"
  BY <1>1 DEF Deaf, CalmNone, CalmZ, RestDev
<1>2. CASE eng.state = "READING"
  <2>1. DeafDev
    BY <1>2 DEF Deaf, ByteInv
  <2> QED
    BY <2>1 DEF DeafDev
<1> QED
  BY <1>1, <1>2 DEF Deaf

\* The clock is about to rise during a write.
LEMMA SendRise ==
  ASSUME WireInv, ByteInv, task.pc = "write", Sending, ~m.scl, ~bus.scl
  PROVE  \/ Deaf
         \/ SendBit /\ Left = 1 /\ AfterBits(Bits - Len(to)) /\ eng.item \in {"0", "1"}
         \/ SendZ /\ Left = 1
<1>1. Held
  BY EngHeld DEF WireInv
<1>2. ~SendNone
  BY <1>1 DEF SendNone, Held
<1>3. SendZ => Left = 1
  BY <1>1 DEF SendZ, Held
<1>4. SendBit => Left = 1 /\ AfterBits(Bits - Len(to)) /\ eng.item \in {"0", "1"}
  <2> SUFFICES ASSUME SendBit PROVE Left = 1 /\ AfterBits(Bits - Len(to)) /\ eng.item \in {"0", "1"}
    OBVIOUS
  <2>1. Len(to) \in 1..Bits /\ Len(to) \in 0..(Bits + 1) /\ eng.state = "WRITING"
    BY Bits0 DEF SendBit
  <2>2. eng.item \in {"0", "1"}
    BY <2>1, ScriptIs DEF SendBit
  <2>3. Left = 1
    BY <1>1, <2>1, <2>2 DEF Held, BitHeld
  <2> QED
    BY <2>2, <2>3 DEF SendBit, Lost
<1> QED
  BY <1>2, <1>3, <1>4 DEF Sending

\* Only a write completes a byte, and it has the stop still before it.
LEMMA LastOfByte ==
  ASSUME WireInv, ByteInv, AtLast, ~m.scl, ~bus.scl
  PROVE  task.pc = "write" /\ ~Ahead /\ eng.item # "P"
<1>1. Sending /\ task.pc = "write"
  BY CalmNotLast, AddrNotLast, CollNotLast DEF WireInv, PhaseInv, Sending
<1>2. ~Deaf
  BY <1>1, DeafRest DEF AtLast
<1>3. ~SendZ
  <2> SUFFICES ASSUME SendZ PROVE FALSE
    OBVIOUS
  <2>1. Left = 1
    BY EngHeld DEF SendZ, Held, WireInv
  <2>2. Calm
    BY <2>1 DEF SendZ, Calm
  <2> QED
    BY <2>2, CalmNotLast
<1>4. SendBit /\ eng.item \in {"0", "1"}
  BY <1>1, <1>2, <1>3, SendRise
<1>5. ~Ahead
  BY <1>1, <1>4, Bits0 DEF SendBit, Ahead, Sent
<1> QED
  BY <1>1, <1>4, <1>5

\* A byte that the device acknowledges is the one that write waits for, or the one it returned for.
LEMMA AckOfByte ==
  ASSUME WireInv, ByteInv, dev.state = "ACKWRD", ~Pending, ~m.scl, ~bus.scl
  PROVE  task.pc = "write" /\ SendZ /\ Left = 1
<1>1. ~Ahead /\ task.pc = "write"
  BY DEF Pending, ByteInv
<1>2. Sending
  BY <1>1 DEF WireInv, PhaseInv, Addressing, Sent, Collecting
<1>3. ~Deaf
  BY <1>1, DeafRest
<1>4. ~(SendBit /\ AfterBits(Bits - Len(to)))
  <2> SUFFICES ASSUME SendBit, AfterBits(Bits - Len(to)) PROVE FALSE
    OBVIOUS
  <2>1. Bits - Len(to) < Bits /\ Bits - Len(to) # Bits
    BY Bits0 DEF SendBit
  <2> QED
    BY <2>1 DEF AfterBits
<1> QED
  BY <1>1, <1>2, <1>3, <1>4, SendRise

\* The clock rises.
LEMMA BytesRise ==
  ASSUME WireInv, ByteInv, DevDoes, acked' = acked, ~m.scl, ~bus.scl
  PROVE  ByteInv'
<1>1. /\ UNCHANGED <<task, to, from, addressed, eng, m>> /\ Left' = Left
      /\ RiseDoes /\ (bus'.sda <=> bus.sda) /\ (ssda <=> Drive) /\ bus'.scl /\ (bus'.sda <=> ~m.sda /\ ~ssda)
      /\ dev \in DevType /\ dev' \in DevType
  BY DEF DevDoes, Left, WireInv, TypeInv
<1>2. Held
  BY EngHeld DEF WireInv
<1>3. (Ahead' <=> Ahead) /\ (Fresh' <=> Fresh) /\ ~Arrived
  BY <1>1 DEF Ahead, Sent, Fresh, Arrived
<1>4. CASE Pending
  <2>1. dev.state = "ACKWRD" /\ dev.data = acked /\ eng.state = "WRITING" /\ Ahead
    BY <1>4, PendingZ DEF Pending, ByteInv
  <2>2. dev'.drive = acked' /\ dev'.state = "WRDATA"
    BY <1>1, <2>1 DEF RiseDoes
  <2>3. ~Arrived'
    <3> SUFFICES ASSUME Fresh, task.pc = "write" PROVE FALSE
      BY <1>1, <1>3 DEF Arrived
    <3>1. Len(to) = 0
      BY DEF Fresh
    <3> QED
      BY <2>1, <3>1, Bits0 DEF Ahead, Sent
  <2> QED
    BY <1>1, <2>1, <2>2, <2>3, BytesRest
<1>5. CASE ~Pending /\ dev.state = "ACKWRD"
  <2>1. task.pc = "write" /\ SendZ /\ Left = 1
    BY <1>5, AckOfByte
  <2>2. eng.state = "WRITING" /\ dev.data = task.byte /\ Fresh
    BY <2>1 DEF SendZ, Fresh
  <2>3. dev'.drive = task.byte /\ dev'.state = "WRDATA"
    BY <1>1, <1>5, <2>2 DEF RiseDoes
  <2>4. Arrived' /\ ~Pending'
    BY <1>1, <1>3, <2>1, <2>2, <2>3 DEF Arrived, Pending
  <2> QED
    BY <1>1, <2>2, <2>3, <2>4 DEF ByteInv
<1>6. CASE dev.state # "ACKWRD"
  <2>1. dev'.drive = acked'
    <3>1. dev.drive = acked
      BY <1>3, <1>6 DEF ByteInv, Pending
    <3>2. dev'.drive = dev.drive
      BY <1>1, <1>6 DEF RiseDoes, DevType
    <3> QED
      BY <3>1, <3>2
  <2>2. ~Arrived'
    <3> SUFFICES ASSUME task.pc = "write", eng.state = "WRITING", Fresh PROVE FALSE
      BY <1>1, <1>3 DEF Arrived
    <3>1. to = <<>> /\ Len(to) = 0 /\ eng.item = "Z" /\ Left = 1
      BY DEF Fresh
    <3>2. SendZ
      BY <3>1, Bits0 DEF WireInv, PhaseInv, Ahead, Addressing, Sent, Sending, SendNone, SendBit, Deaf, Collecting
    <3> QED
      BY <1>6, <3>1, <3>2 DEF SendZ
  <2>3. dev'.state = "ACKWRD" => task.pc = "write" /\ ~Ahead /\ eng.item # "P"
    <3>1. dev'.state = "ACKWRD" => AtLast
      BY <1>1, <1>6 DEF RiseDoes, DevType, AtLast
    <3> QED
      BY <3>1, LastOfByte
  <2>4. ~Pending'
    BY <1>3, <2>3 DEF Pending
  <2>5. task'.pc = "write" /\ eng'.state = "READING" /\ eng'.item \in {None, "0", "1", "Z"} => DeafDev'
    <3> SUFFICES ASSUME task.pc = "write", eng.state = "READING", eng.item \in {None, "0", "1", "Z"} PROVE DeafDev'
      BY <1>1
    <3>1. DeafDev
      BY DEF ByteInv
    <3>2. eng.item = "Z" /\ Left = 1
      <4>1. eng.item # None
        BY <1>2 DEF Held
      <4>2. eng.item \notin {"0", "1"}
        <5>1. eng.item \in {"0", "1"} => m.scl
          BY NoneAssumption DEF WireInv, EngInv
        <5> QED
          BY <5>1
      <4> QED
        BY <1>2, <4>1, <4>2 DEF Held
    <3>3. ~m.sda /\ Still
      BY <3>1, <3>2 DEF DeafDev
    <3>4. CASE dev.state = "IDLE"
      <4>1. dev'.state = "IDLE" /\ ssda' = ssda
        BY <1>1, <3>4 DEF RiseDoes
      <4> QED
        BY <1>1, <3>3, <4>1 DEF DeafDev, Still
    <3>5. CASE dev.state = "ACKNACK"
      <4>1. ~Drive
        BY <3>5 DEF Drive
      <4>2. bus'.sda
        BY <1>1, <3>3, <4>1
      <4>3. dev'.state = "IDLE" /\ ssda' = ssda
        BY <1>1, <3>5, <4>2 DEF RiseDoes
      <4> QED
        BY <1>1, <3>3, <4>3 DEF DeafDev, Still
    <3>6. CASE dev.state = "READ" /\ dev.i = 0
      <4>1. dev'.state = "ACKNACK" /\ ssda' = ssda
        BY <1>1, <3>6 DEF RiseDoes
      <4> QED
        BY <1>1, <3>3, <4>1 DEF DeafDev, Still
    <3> QED
      BY <3>1, <3>4, <3>5, <3>6 DEF DeafDev
  <2> QED
    BY <1>1, <1>3, <2>1, <2>2, <2>3, <2>4, <2>5 DEF ByteInv
<1> QED
  BY <1>4, <1>5, <1>6

\* The clock is high, or falls.
LEMMA BytesLevel ==
  ASSUME WireInv, ByteInv, DevDoes, acked' = acked, m.scl \/ bus.scl
  PROVE  ByteInv'
<1>1. UNCHANGED <<task, to, from, addressed, eng, m>> /\ Left' = Left /\ Held /\ (bus'.scl <=> ~m.scl)
  BY EngHeld DEF DevDoes, Left, WireInv
<1>2. (Ahead' <=> Ahead) /\ (Fresh' <=> Fresh)
  BY <1>1 DEF Ahead, Sent, Fresh
<1>3. CASE m.scl
  <2>1. dev' = dev
    BY <1>3 DEF DevDoes
  <2>2. ~(eng.item = "Z" /\ Left = 1)
    BY <1>1, <1>3 DEF Held
  <2>3. ~Arrived /\ ~Arrived' /\ (Pending' <=> Pending)
    BY <1>1, <1>2, <2>1, <2>2 DEF Arrived, Fresh, Pending
  <2>4. DeafDev => DeafDev'
    BY <1>1, <2>1, <2>2 DEF DeafDev
  <2> QED
    BY <1>1, <1>2, <2>1, <2>3, <2>4 DEF ByteInv
<1>4. CASE ~m.scl /\ bus.scl
  <2>1. Starts /\ bus'.scl
    BY <1>1, <1>4 DEF DevDoes
  <2>2. dev'.drive = dev.drive /\ dev'.state # "ACKWRD"
    BY <2>1 DEF Starts
  <2>3. ~Pending /\ ~Pending' /\ (Arrived' <=> Arrived)
    BY <1>1, <1>2, <1>4, <2>1, <2>2, PendingZ DEF Pending, Arrived
  <2>4. ~(eng.state = "READING" /\ eng.item \in {None, "0", "1", "Z"} /\ DeafDev)
    <3> SUFFICES ASSUME eng.state = "READING", eng.item \in {None, "0", "1", "Z"}, DeafDev PROVE FALSE
      OBVIOUS
    <3>1. eng.item # None
      BY <1>1, <1>4 DEF Held
    <3>2. eng.item \notin {"0", "1"}
      <4>1. eng.item \in {"0", "1"} => m.scl
        BY NoneAssumption DEF WireInv, EngInv
      <4> QED
        BY <1>4, <4>1
    <3>3. eng.item = "Z" /\ Left = 1
      BY <1>1, <1>4, <3>1, <3>2 DEF Held
    <3>4. Still
      BY <3>3 DEF DeafDev
    <3> QED
      BY <1>4, <3>4 DEF DevDoes, Still
  <2>5. task'.pc = "write" /\ eng'.state = "READING" /\ eng'.item \in {None, "0", "1", "Z"} => DeafDev'
    BY <1>1, <2>4 DEF ByteInv
  <2> QED
    BY <1>1, <2>2, <2>3, <2>5 DEF ByteInv
<1> QED
  BY <1>3, <1>4

LEMMA BytesDev == ASSUME WireInv, ByteInv, i2c_th PROVE ByteInv'
<1>1. DevDoes
  BY DevFacts
<1>2. acked' = acked
  BY DEF i2c_th, StartStop, DevId, Ignore, AckRead, AckWrite, WriteBit, AckData, ReadBit, AckNack, Falling, DataMoves,
     hist, Sample
<1> QED
  BY <1>1, <1>2, BytesRise, BytesLevel

LEMMA BytesSame ==
  ASSUME ByteInv, UNCHANGED <<task, to, eng, m, bus, ssda, dev, acked>>
  PROVE  ByteInv'
<1>1. (Arrived' <=> Arrived) /\ (Pending' <=> Pending) /\ (Ahead' <=> Ahead) /\ (DeafDev' <=> DeafDev)
  BY DEF Arrived, Fresh, Left, Pending, Ahead, Sent, DeafDev, Still
<1> QED
  BY <1>1 DEF ByteInv

LEMMA BytesNext == ASSUME WireInv, ByteInv, [Next]_vars PROVE ByteInv'
<1>1. CASE Sketch
  BY <1>1, BytesSketch
<1>2. CASE Resume
  BY <1>2, BytesAnswered, BytesWritten DEF Resume
<1>3. CASE Fetch
  BY <1>3, BytesFetch
<1>4. CASE Clock
  BY <1>4, BytesClock
<1>5. CASE i2c_th
  BY <1>5, BytesDev
<1>6. ASSUME NEW v \in Inputs, Pin(v) PROVE ByteInv'
  BY <1>6, BytesSame DEF Pin, wire
<1>7. CASE UNCHANGED vars
  BY <1>7, BytesSame DEF vars, wire, port, hist
<1> QED
  BY <1>1, <1>2, <1>3, <1>4, <1>5, <1>6, <1>7 DEF Next

LEMMA BytesInit == ASSUME Init PROVE ByteInv
<1>1. task.pc = "idle" /\ dev.drive = acked /\ dev.state = "IDLE"
  BY DEF Init, Idle
<1> QED
  BY <1>1 DEF ByteInv, Arrived, Pending

\* When the bus rests, no byte waits for its clock.
LEMMA Reached == ASSUME WireInv, ByteInv PROVE WriteReaches
<1> SUFFICES ASSUME task.pc = "idle", Settled PROVE dev.drive = acked
  BY DEF WriteReaches
<1>1. ~Pending
  <2> SUFFICES ASSUME Pending PROVE FALSE
    OBVIOUS
  <2>1. CalmZ /\ ~bus.scl /\ ~m.scl
    BY PendingZ, EngHeld DEF CalmZ, Held, WireInv
  <2>2. bus.scl <=> ~m.scl
    BY LinesResolved DEF WireInv, TypeInv
  <2> QED
    BY <2>1, <2>2
<1> QED
  BY <1>1 DEF ByteInv, Arrived

\* Between calls, when the lines rest, the port of the expander shows the last
\* byte for which write(byte) of TwoWire returned: the byte has arrived whole, and
\* one that was not acknowledged has not arrived at all.
THEOREM WriteHasReached == ASSUME ~Hasty PROVE Spec => []WriteReaches
<1>1. Init => WireInv /\ ByteInv
  BY WireInit, BytesInit
<1>2. WireInv /\ ByteInv /\ [Next]_vars => WireInv' /\ ByteInv'
  BY WireNext, BytesNext
<1>3. WireInv /\ ByteInv => WriteReaches
  BY Reached
<1> QED
  BY <1>1, <1>2, <1>3, PTL DEF Spec

(***************************************************************************)
(* The bytes that the device has sampled, and the bits of them that are on *)
(* their way to the sketch or in its hands.                                *)
(***************************************************************************)

\* The sampled bytes are in `from', as far as it goes.
Bit(k, j) == (k - 1) * Bits + j
Carried ==
  \A k \in 1..Len(samples), j \in 1..Bits :
    Bit(k, j) <= Len(from) => from[Bit(k, j)] = writebin(samples[popped + k])[j]

\* How many bits of the answer the engine had sampled when the clock last rose.
Clocked1 == IF eng.item = "Z" /\ Left = 1 /\ ~bus.scl THEN Len(from) - 1 ELSE Len(from)

\* While the answer comes in: the device stands in the last sampled byte.
Filling ==
  /\ Carried
  /\ dev.state = "READ" => /\ Len(samples) > 0 /\ dev.data = samples[Len(samples)]
                           /\ Len(samples) * Bits = Clocked1 + dev.i + 1
  /\ dev.state = "ACKNACK" => Len(samples) * Bits = Len(from)
  /\ dev.state = "ACKRD" => samples = <<>> /\ from = <<>>

\* The device has taken the first byte, and the sketch has still to see the answer.
Loaded == Fresh /\ dev.state = "READ"

\* The inductive invariant of an answer: the length of `from' and the place of the
\* device in its byte together say how many bits of which sample have come in.
SampleInv ==
  /\ samples \in Seq(SUBSET Int) /\ popped \in Nat
  /\ ReadIsSample
  /\ task.pc = "write" /\ eng.state = "WRITING" => Len(samples) = popped
  /\ Sent => popped = 0 /\ IF Loaded THEN Len(samples) = 1 /\ dev.data = samples[1] ELSE samples = <<>>
  /\ task.pc = "collect" => popped = 0 /\ Filling

(***************************************************************************)
(* What the device samples, and where a bit of a byte has its place in     *)
(* `from'.                                                                 *)
(***************************************************************************)

\* The device takes a sample of the port when the clock rises.
Heard == dev.state = "ACKRD" \/ (dev.state = "ACKNACK" /\ ~bus'.sda)
Hears == ~m.scl /\ ~bus.scl /\ Heard
HearDoes ==
  /\ popped' = popped
  /\ IF Hears /\ eng.item # "P" THEN samples' = Append(samples, dev'.data) /\ dev'.data \in SUBSET Int ELSE samples' = samples
  /\ ~Hears /\ dev'.state = "READ" => dev.state = "READ" /\ dev'.data = dev.data

LEMMA HearStep == ASSUME WireInv, i2c_th PROVE HearDoes
<1>1. TypeInv /\ PortInv /\ dev \in DevType
  BY DEF WireInv, TypeInv
<1>2. /\ m.scl /\ bus.scl => Falling
      /\ m.scl /\ ~bus.scl => DataMoves
      /\ ~m.scl /\ ~bus.scl => Rose
      /\ ~m.scl /\ bus.scl => StartStop
  BY <1>1, Changes
<1>3. popped' = popped
  BY DEF i2c_th, StartStop, DevId, Ignore, AckRead, AckWrite, WriteBit, AckData, ReadBit, AckNack, Falling, DataMoves, hist, Sample
<1>4. CASE m.scl
  BY <1>2, <1>3, <1>4 DEF Falling, DataMoves, hist, HearDoes, Hears
<1>5. CASE ~m.scl /\ bus.scl
  <2>1. samples' = samples
    BY <1>2, <1>5 DEF StartStop, hist
  <2>2. dev'.state # "READ"
    BY <1>1, <1>2, <1>5, StartsStep DEF Starts
  <2> QED
    BY <1>3, <1>5, <2>1, <2>2 DEF HearDoes, Hears
<1>6. CASE ~m.scl /\ ~bus.scl
  <2>1. ASSUME Sample, Heard PROVE HearDoes
    <3>1. dev' = [dev EXCEPT !.state = "READ", !.i = MSB, !.data = Level]
      BY <2>1 DEF Sample
    <3>2. dev'.data = Level /\ Level \in SUBSET Int
      BY <1>1, <3>1 DEF DevType, Level
    <3>3. samples' = IF eng.item = "P" THEN samples ELSE Append(samples, Level)
      BY <2>1 DEF Sample
    <3> QED
      BY <1>3, <1>6, <2>1, <3>2, <3>3 DEF HearDoes, Hears
  <2>2. ASSUME samples' = samples, ~Heard, dev'.state = "READ" => dev.state = "READ" /\ dev'.data = dev.data PROVE HearDoes
    BY <1>3, <2>2 DEF HearDoes, Hears
  <2>3. CASE DevId
    <3>1. dev.state = "DEVID" /\ samples' = samples
      BY <2>3 DEF DevId, hist
    <3>2. RiseDoes
      BY <1>1, <1>2, <1>6, RiseStep
    <3>3. dev'.state # "READ"
      BY <3>1, <3>2 DEF RiseDoes
    <3> QED
      BY <2>2, <3>1, <3>3 DEF Heard
  <2>4. CASE Ignore
    BY <1>1, <2>2, <2>4 DEF Ignore, hist, Heard, DevType
  <2>5. CASE AckRead
    BY <2>1, <2>5 DEF AckRead, Heard
  <2>6. CASE AckWrite
    BY <1>1, <2>2, <2>6 DEF AckWrite, Heard, DevType
  <2>7. CASE WriteBit
    <3>1. dev.state = "WRDATA" /\ samples' = samples
      BY <2>7 DEF WriteBit, hist
    <3>2. RiseDoes
      BY <1>1, <1>2, <1>6, RiseStep
    <3>3. dev'.state # "READ"
      BY <3>1, <3>2 DEF RiseDoes
    <3> QED
      BY <2>2, <3>1, <3>3 DEF Heard
  <2>8. CASE AckData
    BY <1>1, <2>2, <2>8 DEF AckData, hist, Heard, DevType
  <2>9. CASE ReadBit
    <3>1. dev.state = "READ" /\ samples' = samples
      BY <2>9 DEF ReadBit, hist
    <3>2. dev'.data = dev.data
      BY <1>1, <2>9 DEF ReadBit, DevType
    <3> QED
      BY <2>2, <3>1, <3>2 DEF Heard
  <2>10. CASE AckNack
    <3>1. CASE bus'.sda
      <4>1. dev.state = "ACKNACK" /\ samples' = samples /\ dev'.state = "IDLE"
        BY <1>1, <2>10, <3>1 DEF AckNack, hist, DevType
      <4> QED
        BY <2>2, <3>1, <4>1 DEF Heard
    <3>2. CASE ~bus'.sda
      BY <2>1, <2>10, <3>2 DEF AckNack, Heard
    <3> QED
      BY <3>1, <3>2
  <2> QED
    BY <1>2, <1>6, <2>3, <2>4, <2>5, <2>6, <2>7, <2>8, <2>9, <2>10 DEF Rose
<1> QED
  BY <1>4, <1>5, <1>6

\* Bits of bytes.
LEMMA MulLe ==
  ASSUME NEW k \in Int, NEW l \in Int, k <= l
  PROVE  k * Bits \in Int /\ l * Bits \in Int /\ k * Bits <= l * Bits
<1>1. (l - k) * Bits >= 0
  BY Bits0
<1> QED
  BY <1>1, Bits0

LEMMA BitIn ==
  ASSUME NEW n \in Int, NEW k \in 1..n, NEW j \in 1..Bits
  PROVE  Bit(k, j) \in 1..(n * Bits)
<1>1. 0 * Bits <= (k - 1) * Bits /\ (k - 1) * Bits \in Int /\ 0 * Bits = 0
  BY MulLe, Bits0
<1>2. k * Bits <= n * Bits /\ n * Bits \in Int /\ k * Bits \in Int
  BY MulLe
<1>3. k * Bits = (k - 1) * Bits + Bits
  BY Bits0
<1> QED
  BY <1>1, <1>2, <1>3, Bits0 DEF Bit

\* Every bit has one place.
LEMMA BitAt ==
  ASSUME NEW n \in Int, NEW k \in 1..n, NEW j \in 1..Bits, NEW i \in 1..Bits, Bit(k, j) = Bit(n, i)
  PROVE  k = n /\ j = i
<1>1. k = n
  <2> SUFFICES ASSUME k # n PROVE FALSE
    OBVIOUS
  <2>1. Bit(k, j) <= (n - 1) * Bits /\ (n - 1) * Bits \in Int
    <3> DEFINE l == n - 1
    <3>1. k \in 1..l /\ l \in Int /\ l <= l
      OBVIOUS
    <3> HIDE DEF l
    <3>2. Bit(k, j) \in 1..(l * Bits)
      BY <3>1, BitIn, Zenon
    <3>3. l * Bits \in Int
      BY <3>1, MulLe, Zenon
    <3>4. Bit(k, j) <= l * Bits /\ l * Bits \in Int
      BY <3>2, <3>3
    <3> QED
      BY <3>4 DEF l
  <2>2. Bit(n, i) > (n - 1) * Bits
    BY <2>1 DEF Bit
  <2>3. Bit(k, j) \in Int /\ Bit(n, i) \in Int
    BY BitIn
  <2> QED
    BY <2>1, <2>2, <2>3
<1>2. (n - 1) * Bits \in Int
  BY MulLe
<1> QED
  BY <1>1, <1>2 DEF Bit

\* Nothing is sampled while the engine is ahead, but what a stop ends at once.
LEMMA CalmQuiet ==
  ASSUME WireInv, DevDoes, ~m.scl, ~bus.scl, Calm, eng.item # "P"
  PROVE  ~Heard
<1>1. Held /\ eng.state \in States /\ (bus'.sda <=> ~m.sda /\ ~ssda) /\ (ssda <=> Drive)
  BY EngHeld DEF WireInv, TypeInv, DevDoes
<1>2. CASE CalmNone
  BY <1>1, <1>2 DEF CalmNone, RestDev, Held, Heard
<1>3. CASE CalmZ
  BY <1>1, <1>3 DEF CalmZ, States, Heard
<1>4. CASE CalmN
  <2>1. Left = 1 /\ ~m.sda
    BY <1>1, <1>4 DEF CalmN, Held, BitHeld, Lows
  <2>2. dev.state = "ACKNACK"
    BY <1>4, <2>1 DEF CalmN, RestDev
  <2>3. ~Drive
    BY <2>2 DEF Drive
  <2> QED
    BY <1>1, <2>1, <2>2, <2>3 DEF Heard
<1> QED
  BY <1>2, <1>3, <1>4 DEF Calm, CalmP

LEMMA SendQuiet ==
  ASSUME WireInv, ByteInv, DevDoes, ~m.scl, ~bus.scl, Sending
  PROVE  ~Heard
<1>1. task.pc = "write"
  BY DEF Sending
<1>2. ASSUME Deaf PROVE ~Heard
  <2>1. CASE eng.state = "IDLE"
    BY <1>2, <2>1, CalmQuiet, NoneAssumption DEF Deaf, Calm, CalmNone, CalmZ
  <2>2. CASE eng.state = "READING"
    <3>1. DeafDev
      BY <1>1, <1>2, <2>2 DEF Deaf, ByteInv
    <3>2. CASE dev.state = "ACKNACK"
      <4>1. ~Drive
        BY <3>2 DEF Drive
      <4>2. (bus'.sda <=> ~m.sda /\ ~ssda) /\ (ssda <=> Drive) /\ ~m.sda
        BY <3>1 DEF DevDoes, DeafDev
      <4>3. bus'.sda
        BY <4>1, <4>2
      <4> QED
        BY <3>2, <4>3 DEF Heard
    <3>3. CASE dev.state # "ACKNACK"
      BY <3>1, <3>3 DEF DeafDev, Heard
    <3> QED
      BY <3>2, <3>3
  <2> QED
    BY <1>2, <2>1, <2>2 DEF Deaf
<1>3. ASSUME SendBit, AfterBits(Bits - Len(to)) PROVE ~Heard
  <2>1. Bits - Len(to) < Bits /\ Bits - Len(to) # Bits
    BY <1>3, Bits0 DEF SendBit
  <2> QED
    BY <1>3, <2>1 DEF AfterBits, Heard
<1>4. ASSUME SendZ, Left = 1 PROVE ~Heard
  BY <1>4, CalmQuiet DEF SendZ, Calm
<1> QED
  BY <1>1, <1>2, <1>3, <1>4, SendRise

\* The first sample of an answer: with the clock that follows the address.
FirstSample == Fresh /\ Rw /\ dev.state = "ACKRD"

LEMMA AddrQuiet ==
  ASSUME WireInv, DevDoes, ~m.scl, ~bus.scl, Addressing, Heard
  PROVE  FirstSample
<1>1. Held /\ eng.state \in States /\ (bus'.sda <=> ~m.sda /\ ~ssda) /\ (ssda <=> Drive)
  BY EngHeld DEF WireInv, TypeInv, DevDoes
<1>2. CASE AddrS
  <2>1. Left = 3 /\ ~m.sda /\ RestDev /\ eng.state \in {"IDLE", "READING", "WRITING"}
    BY <1>1, <1>2 DEF AddrS, Held, States
  <2>2. dev.state = "ACKNACK" => ~Drive
    BY DEF Drive
  <2> QED
    BY <1>1, <2>1, <2>2 DEF RestDev, Heard
<1>3. CASE AddrNone
  BY <1>1, <1>3 DEF AddrNone, Held
<1>4. CASE AddrBit
  <2>1. Len(to) \in 1..Bits /\ Len(to) \in 0..(Bits + 1) /\ eng.state = "DEVID"
    BY <1>4, Bits0 DEF AddrBit
  <2>2. eng.item \in {"0", "1"}
    BY <1>4, <2>1, ScriptIs DEF AddrBit
  <2>3. Left = 1
    BY <1>1, <2>1, <2>2 DEF Held, BitHeld
  <2>4. Bits - Len(to) < Bits /\ AfterRises(Bits - Len(to))
    BY <1>4, <2>1, <2>3, Bits0 DEF AddrBit
  <2>5. dev.state = "DEVID"
    BY <2>4 DEF AfterRises
  <2> QED
    BY <2>5 DEF Heard
<1>5. CASE AddrZ
  <2>1. Left = 1 /\ eng.item = "Z" /\ to = <<>>
    BY <1>1, <1>5 DEF AddrZ, Held
  <2>2. ~CalmZ
    BY <2>1, CalmQuiet DEF Calm
  <2>3. Rw /\ dev.state = "ACKRD"
    BY <1>5, <2>1, <2>2 DEF AddrZ
  <2> QED
    BY <2>1, <2>3 DEF FirstSample, Fresh
<1> QED
  BY <1>2, <1>3, <1>4, <1>5 DEF Addressing

LEMMA Unheard ==
  ASSUME WireInv, ByteInv, DevDoes, Hears, eng.item # "P"
  PROVE  Collecting \/ (Sent /\ FirstSample)
<1>1. ~m.scl /\ ~bus.scl /\ Heard
  BY DEF Hears
<1> QED
  BY <1>1, CalmQuiet, SendQuiet, AddrQuiet DEF WireInv, PhaseInv, Addressing

\* A command that drops what is left of the last one.
LEMMA SamplesDropped ==
  ASSUME Dump, task'.pc # "collect", Sent' => ~Loaded'
  PROVE  SampleInv'
<1>1. from' = <<>> /\ samples' = <<>> /\ popped' = 0 /\ Len(from') = 0 /\ Len(samples') = 0
  BY DEF Dump
<1>2. (0 - 0) * Bits = 0
  BY Bits0
<1>3. ReadIsSample'
  BY <1>1, <1>2 DEF ReadIsSample
<1> QED
  BY <1>1, <1>3 DEF SampleInv

\* Between two calls, or while a byte is written, when nothing is sampled.
LEMMA SamplesKept ==
  ASSUME SampleInv, task.pc \in {"idle", "write"}, task'.pc = task.pc, UNCHANGED <<samples, popped>>,
         task.pc = "idle" => from' = from,
         task.pc = "write" /\ eng'.state = "WRITING" => eng.state = "WRITING"
  PROVE  SampleInv'
<1>1. ReadIsSample'
  BY DEF SampleInv, ReadIsSample
<1>2. ~Sent' /\ task'.pc # "collect"
  BY DEF Sent
<1> QED
  BY <1>1, <1>2 DEF SampleInv

\* All samples are taken.
LEMMA NoneLeft ==
  ASSUME SampleInv, from' = <<>>, UNCHANGED <<samples, popped>>, Len(samples) = popped
  PROVE  ReadIsSample'
<1>1. Len(samples) - popped = 0 /\ 0 * Bits = 0 /\ Len(from') = 0
  BY Bits0 DEF SampleInv
<1> QED
  BY <1>1 DEF ReadIsSample

\* The sketch takes a byte.
LEMMA ByteTaken ==
  ASSUME WireInv, SampleInv, task.pc = "idle", task' = task, Len(from) >= Bits,
         from' = SubSeq(from, Bits + 1, Len(from)), samples' = samples, popped' = popped + 1
  PROVE  SampleInv'
<1> DEFINE n == Len(samples) - popped
<1>1. from \in Seq(Items) /\ Len(from) \in Nat /\ samples \in Seq(SUBSET Int) /\ popped \in Nat /\ n \in Int
  BY DEF WireInv, TypeInv, SampleInv
<1>2. Len(from) = n * Bits /\ \A k \in 1..n, j \in 1..Bits : from[(k - 1) * Bits + j] = writebin(samples[popped + k])[j]
  BY DEF SampleInv, ReadIsSample
<1>3. Len(from') = Len(from) - Bits /\ \A i \in 1..(Len(from) - Bits) : from'[i] = from[Bits + i]
  BY <1>1, Bits0
<1>4. Len(samples') - popped' = n - 1
  BY <1>1
<1> HIDE DEF n
<1>5. n * Bits \in Int /\ (n - 1) * Bits \in Int /\ (n - 1) * Bits = n * Bits - Bits
  BY <1>1, Bits0
<1>6. Len(from') = (n - 1) * Bits
  BY <1>2, <1>3, <1>5
<1>7. ASSUME NEW k \in 1..(n - 1), NEW j \in 1..Bits
      PROVE  from'[(k - 1) * Bits + j] = writebin(samples'[popped' + k])[j]
  <2>1. k + 1 \in 1..n /\ k \in Int /\ popped + (k + 1) = popped' + k
    BY <1>1
  <2>2. from[(k + 1 - 1) * Bits + j] = writebin(samples[popped + (k + 1)])[j]
    BY <1>2, <2>1
  <2>3. Bit(k, j) \in 1..((n - 1) * Bits)
    BY <1>1, BitIn
  <2>4. (k - 1) * Bits + j \in 1..(Len(from) - Bits)
    BY <1>2, <1>5, <2>3 DEF Bit
  <2>5. from'[(k - 1) * Bits + j] = from[Bits + ((k - 1) * Bits + j)]
    BY <1>3, <2>4
  <2>6. Bits + ((k - 1) * Bits + j) = (k + 1 - 1) * Bits + j
    BY <2>1, Bits0
  <2>7. from'[(k - 1) * Bits + j] = writebin(samples[popped + (k + 1)])[j]
    BY <2>2, <2>5, <2>6
  <2> QED
    BY <2>1, <2>7
<1>8. ReadIsSample'
  BY <1>4, <1>6, <1>7 DEF ReadIsSample
<1> QED
  BY <1>1, <1>8 DEF SampleInv, Sent

LEMMA SamplesSketch == ASSUME WireInv, SampleInv, Sketch PROVE SampleInv'
<1>1. ASSUME NEW a \in Addrs, NEW n \in Sizes, NEW stop \in BOOLEAN, requestFrom(a, n, stop) PROVE SampleInv'
  <2>1. task.pc = "idle" /\ Dump
    BY <1>1 DEF requestFrom
  <2>2. CASE NoRoom(n)
    <3>1. task' = task
      BY <1>1, <2>2 DEF requestFrom, Report
    <3> QED
      BY <2>1, <3>1, SamplesDropped DEF Sent
  <2>3. CASE ~NoRoom(n)
    <3>1. task'.pc = "request" /\ to' = to \o <<"S">> \o writebin(Shift(a, TRUE)) \o <<"Z">>
      BY <1>1, <2>3 DEF requestFrom, Idle
    <3>2. to' # <<>>
      <4>1. Queued(to, Shift(a, TRUE), 2, to')
        <5>1. to \in Seq(Items)
          BY DEF WireInv, TypeInv
        <5>2. Queued(to, Shift(a, TRUE), 2, to \o <<"S">> \o writebin(Shift(a, TRUE)) \o <<"Z">>)
          BY <5>1, AddressAtEnd, Zenon
        <5> QED
          BY <3>1, <5>2, Zenon
      <4>2. Len(to) \in Nat
        BY DEF WireInv, TypeInv
      <4> QED
        BY <4>1, <4>2, Bits0 DEF Queued
    <3> QED
      BY <2>1, <3>1, <3>2, SamplesDropped DEF Loaded, Fresh
  <2> QED
    BY <2>2, <2>3
<1>2. ASSUME NEW a \in Addrs, beginTransmission(a) PROVE SampleInv'
  <2>1. task.pc = "idle" /\ Dump
    BY <1>2 DEF beginTransmission
  <2>2. CASE Free(to) < Bits + 2
    <3>1. task' = task
      BY <1>2, <2>2 DEF beginTransmission, Report
    <3> QED
      BY <2>1, <3>1, SamplesDropped DEF Sent
  <2>3. CASE ~(Free(to) < Bits + 2)
    <3>1. task'.pc = "begin" /\ to' = to \o <<"S">> \o writebin(Shift(a, FALSE)) \o <<"Z">>
      BY <1>2, <2>3 DEF beginTransmission, Idle
    <3>2. to' # <<>>
      <4>1. Queued(to, Shift(a, FALSE), 2, to')
        <5>1. to \in Seq(Items)
          BY DEF WireInv, TypeInv
        <5>2. Queued(to, Shift(a, FALSE), 2, to \o <<"S">> \o writebin(Shift(a, FALSE)) \o <<"Z">>)
          BY <5>1, AddressAtEnd, Zenon
        <5> QED
          BY <3>1, <5>2, Zenon
      <4>2. Len(to) \in Nat
        BY DEF WireInv, TypeInv
      <4> QED
        BY <4>1, <4>2, Bits0 DEF Queued
    <3> QED
      BY <2>1, <3>1, <3>2, SamplesDropped DEF Loaded, Fresh
  <2> QED
    BY <2>2, <2>3
<1>3. ASSUME NEW stop \in BOOLEAN, endTransmission(stop) PROVE SampleInv'
  BY <1>3, SamplesKept DEF endTransmission, hist
<1>4. ASSUME flush PROVE SampleInv'
  BY <1>4, SamplesDropped DEF flush, wire, Sent
<1>5. ASSUME peek \/ read PROVE SampleInv'
  <2>1. task.pc = "idle" /\ task' = task /\ samples' = samples
    BY <1>5 DEF peek, read
  <2>2. CASE from' = from /\ popped' = popped
    BY <2>1, <2>2, SamplesKept
  <2>3. CASE Len(from) >= Bits /\ from' = SubSeq(from, Bits + 1, Len(from)) /\ popped' = popped + 1
    BY <2>1, <2>3, ByteTaken
  <2> QED
    BY <1>5, <2>2, <2>3 DEF peek, read
<1>6. ASSUME NEW b \in Values, write(b) PROVE SampleInv'
  <2>1. task.pc = "idle" /\ UNCHANGED <<from, eng, samples, popped>>
    BY <1>6 DEF write
  <2>2. CASE Free(to) < Bits + 1 \/ Free(from) < 1
    <3>1. task' = task
      BY <1>6, <2>2 DEF write, Report
    <3> QED
      BY <2>1, <3>1, SamplesKept
  <2>3. CASE ~(Free(to) < Bits + 1 \/ Free(from) < 1)
    <3>1. task'.pc = "write"
      BY <1>6, <2>3 DEF write, Idle
    <3>2. samples \in Seq(SUBSET Int) /\ popped \in Nat /\ Len(samples) \in Nat
      BY DEF SampleInv
    <3>3. eng.state = "WRITING" => Len(samples) = popped
      <4> SUFFICES ASSUME eng.state = "WRITING" PROVE Len(samples) = popped
        OBVIOUS
      <4>1. Len(from) = 0
        BY <2>1, AtRest
      <4>2. (Len(samples) - popped) * Bits = 0
        BY <2>1, <4>1 DEF SampleInv, ReadIsSample
      <4> QED
        BY <3>2, <4>2, Bits0
    <3> QED
      BY <2>1, <3>1, <3>2, <3>3 DEF SampleInv, ReadIsSample, Sent
  <2> QED
    BY <2>2, <2>3
<1> QED
  BY <1>1, <1>2, <1>3, <1>4, <1>5, <1>6 DEF Sketch

(***************************************************************************)
(* The invariant of the sampled bytes when the sketch goes on, the engine  *)
(* takes an item and a wait ends.                                          *)
(***************************************************************************)

\* All the bits of the answer are in `from'.
LEMMA AllCarried ==
  ASSUME SampleInv, Carried, popped = 0, Len(samples) * Bits = Len(from),
         UNCHANGED <<from, samples, popped>>
  PROVE  ReadIsSample'
<1>1. Len(samples) \in Nat /\ Len(samples) - popped = Len(samples)
  BY DEF SampleInv
<1>2. Len(from) = (Len(samples) - popped) * Bits
  BY <1>1
<1>3. ASSUME NEW k \in 1..(Len(samples) - popped), NEW j \in 1..Bits
      PROVE  from[(k - 1) * Bits + j] = writebin(samples[popped + k])[j]
  <2>1. k \in 1..Len(samples)
    BY <1>1
  <2>2. Bit(k, j) <= Len(from)
    BY <1>1, <2>1, BitIn
  <2>3. from[Bit(k, j)] = writebin(samples[popped + k])[j]
    BY <2>1, <2>2 DEF Carried
  <2> QED
    BY <2>3 DEF Bit
<1> QED
  BY <1>2, <1>3 DEF ReadIsSample

\* A byte without any bit in `from'.
LEMMA NoneCarried == ASSUME from' = <<>>, Len(samples') \in {0, 1} PROVE Carried'
<1> SUFFICES ASSUME NEW k \in 1..Len(samples'), NEW j \in 1..Bits PROVE ~(Bit(k, j) <= Len(from'))
  BY DEF Carried, Bit
<1>1. Bit(k, j) \in 1..(Len(samples') * Bits)
  BY BitIn
<1> QED
  BY <1>1

LEMMA SamplesAddressed == ASSUME WireInv, SampleInv, AddressAnswered PROVE SampleInv'
<1>1. /\ task.pc \in {"begin", "request"} /\ Len(from) > task.bit
      /\ from' = Tail(from)
      /\ IF task.pc = "request" /\ Head(from) = "A"
         THEN task' = [task EXCEPT !.pc = "collect"] ELSE task' = Idle
      /\ UNCHANGED <<eng, m, bus, ssda, dev, samples, popped>>
  BY DEF AddressAnswered, port
<1>2. Sent /\ Fresh /\ AddrZ /\ from = <<IF addressed.addr = DeviceId THEN "A" ELSE "N">>
  BY <1>1, Woke DEF Sent
<1>3. task \in [pc : Calls, byte : Byte, size : Nat, stop : BOOLEAN, bit : Nat]
  BY DEF WireInv, TypeInv
<1>4. from' = <<>> /\ (Head(from) = "A" <=> addressed.addr = DeviceId) /\ Len(from') = 0
  BY <1>1, <1>2
<1>5. eng.item = "Z" /\ Left = 1
  BY <1>2 DEF Fresh
<1>6. popped = 0 /\ (IF Loaded THEN Len(samples) = 1 /\ dev.data = samples[1] ELSE samples = <<>>)
      /\ samples \in Seq(SUBSET Int)
  BY <1>2 DEF SampleInv
<1>7. CASE task.pc = "request" /\ addressed.addr = DeviceId
  <2>1. task'.pc = "collect"
    BY <1>1, <1>3, <1>4, <1>7
  <2>2. IF bus.scl THEN dev.state = "READ" /\ dev.i = MSB ELSE dev.state = "ACKRD"
    BY <1>2, <1>5, <1>7 DEF AddrZ, Rw
  <2>3. Loaded <=> bus.scl
    BY <1>2, <2>2 DEF Loaded
  <2>4. Len(samples) \in {0, 1}
    BY <1>6
  <2>5. Carried'
    BY <1>1, <1>4, <2>4, NoneCarried
  <2>6. Filling'
    <3>1. CASE bus.scl
      <4>1. Len(samples) = 1 /\ dev.data = samples[1] /\ dev.state = "READ" /\ dev.i = MSB
        BY <1>6, <2>2, <2>3, <3>1
      <4>2. Clocked1' = 0
        BY <1>1, <1>4, <3>1 DEF Clocked1
      <4>3. 1 * Bits = 0 + MSB + 1
        BY Bits0
      <4> QED
        BY <1>1, <2>5, <4>1, <4>2, <4>3 DEF Filling
    <3>2. CASE ~bus.scl
      <4>1. samples = <<>> /\ dev.state = "ACKRD"
        BY <1>6, <2>2, <2>3, <3>2
      <4> QED
        BY <1>1, <1>4, <2>5, <4>1 DEF Filling
    <3> QED
      BY <3>1, <3>2
  <2> QED
    BY <1>1, <1>6, <2>1, <2>6 DEF SampleInv, ReadIsSample, Sent
<1>8. CASE ~(task.pc = "request" /\ addressed.addr = DeviceId)
  <2>1. task'.pc = "idle"
    BY <1>1, <1>4, <1>8 DEF Idle
  <2>2. dev.state # "READ"
    <3>1. CalmZ /\ eng.state \in {"IDLE", "WRITING"}
      BY <1>1, <1>2, <1>5, <1>8 DEF AddrZ, Rw
    <3> QED
      BY <3>1 DEF CalmZ, RestDev
  <2>3. samples = <<>> /\ Len(samples) = popped
    BY <1>6, <2>2 DEF Loaded
  <2>4. ReadIsSample'
    BY <1>1, <1>4, <2>3, NoneLeft
  <2> QED
    BY <1>1, <1>6, <2>1, <2>4 DEF SampleInv, Sent
<1> QED
  BY <1>7, <1>8

\* The last bit of the answer ends the last sampled byte.
LEMMA AnswerWhole ==
  ASSUME WireInv, SampleInv, task.pc = "collect", Len(from) > task.bit, Len(from) % Bits = 0
  PROVE  Len(samples) * Bits = Len(from)
<1>1. Fresh /\ CollZ /\ from # <<>> /\ from \in Seq(Items) /\ Len(from) = task.bit + 1 /\ task.bit \in Nat /\ Filling
  BY Woke DEF WireInv, TypeInv, SampleInv
<1>2. eng.item = "Z" /\ Left = 1 /\ Len(from) > 0 /\ Len(from) \in Nat /\ Len(from) - 1 = task.bit
  BY <1>1 DEF Fresh
<1>3. CASE bus.scl
  BY <1>1, <1>2, <1>3 DEF CollZ, Filling, Whole
<1>4. CASE ~bus.scl
  <2>1. dev.state = "READ" /\ dev.i = MSB - (task.bit % Bits)
    BY <1>1, <1>2, <1>4 DEF CollZ, Reads
  <2>2. task.bit % Bits = Bits - 1
    <3>1. task.bit % Bits # Bits - 1 => (task.bit + 1) % Bits = (task.bit % Bits) + 1
      BY <1>1, NextBit
    <3>2. task.bit % Bits \in 0..(Bits - 1)
      BY <1>1, DivBits
    <3> QED
      BY <1>1, <3>1, <3>2
  <2>3. dev.i = 0
    BY <2>1, <2>2, Bits0
  <2>4. Clocked1 = Len(from) - 1
    BY <1>2, <1>4 DEF Clocked1
  <2>5. Len(samples) * Bits = Clocked1 + dev.i + 1
    BY <1>1, <2>1 DEF Filling
  <2> QED
    BY <1>2, <2>3, <2>4, <2>5
<1> QED
  BY <1>3, <1>4

LEMMA SamplesBit == ASSUME WireInv, SampleInv, BitAnswered PROVE SampleInv'
<1>1. /\ task.pc = "collect" /\ Len(from) > task.bit
      /\ UNCHANGED <<from, eng, m, bus, dev, samples, popped>>
      /\ IF task.bit + 1 < task.size * Bits THEN task' = [task EXCEPT !.bit = task.bit + 1] ELSE task' = Idle
  BY Zenon DEF BitAnswered, port, hist
<1>2. task \in [pc : Calls, byte : Byte, size : Nat, stop : BOOLEAN, bit : Nat]
  BY DEF WireInv, TypeInv
<1>3. popped = 0 /\ Filling /\ samples \in Seq(SUBSET Int)
  BY <1>1 DEF SampleInv
<1>4. CASE task.bit + 1 < task.size * Bits
  <2>1. task'.pc = "collect"
    BY <1>1, <1>2, <1>4
  <2>2. Filling'
    BY <1>1, <1>3 DEF Filling, Carried, Bit, Clocked1, Left
  <2> QED
    BY <1>1, <1>3, <2>1, <2>2 DEF SampleInv, ReadIsSample, Sent
<1>5. CASE ~(task.bit + 1 < task.size * Bits)
  <2>1. task'.pc = "idle"
    BY <1>1, <1>5 DEF Idle
  <2>2. task.bit < task.size * Bits /\ Len(from) = task.bit + 1 /\ task.bit \in Nat /\ task.size \in Nat /\ task.size * Bits \in Int
    BY <1>1, <1>2, Woke, Bits0
  <2>3. Len(from) = task.size * Bits /\ Len(from) \in Nat
    BY <1>5, <2>2
  <2>4. Len(from) % Bits = 0
    BY <2>2, <2>3, LastBit
  <2>5. Len(samples) * Bits = Len(from)
    BY <1>1, <2>4, AnswerWhole
  <2>6. ReadIsSample'
    BY <1>1, <1>3, <2>5, AllCarried DEF Filling
  <2> QED
    BY <1>1, <1>3, <2>1, <2>6 DEF SampleInv, Sent
<1> QED
  BY <1>4, <1>5

LEMMA SamplesWritten == ASSUME WireInv, SampleInv, WriteAnswered PROVE SampleInv'
<1>1. task.pc = "write" /\ Len(from) > task.bit /\ UNCHANGED <<eng, samples, popped>> /\ from' = Tail(from)
  BY DEF WriteAnswered
<1>2. IF eng.state = "WRITING" THEN from = <<"A">> ELSE Deaf
  BY <1>1, Woke
<1>3. samples \in Seq(SUBSET Int) /\ popped \in Nat
  BY DEF SampleInv
<1>4. CASE eng.state = "WRITING"
  <2>1. Head(from) = "A" /\ from' = <<>>
    BY <1>1, <1>2, <1>4
  <2>2. task'.pc = "idle"
    BY <2>1 DEF WriteAnswered, Idle
  <2>3. Len(samples) = popped
    BY <1>1, <1>4 DEF SampleInv
  <2>4. ReadIsSample'
    BY <1>1, <2>1, <2>3, NoneLeft
  <2> QED
    BY <1>1, <1>3, <2>2, <2>4 DEF SampleInv, Sent
<1>5. CASE eng.state # "WRITING"
  <2>1. Head(from) # "A"
    <3>1. (\A z \in DOMAIN from : from[z] \in Digits) \/ from = <<"N">>
      BY <1>1, <1>5 DEF WireInv, FromInv
    <3>2. from \in Seq(Items) /\ Len(from) >= 1 /\ Head(from) = from[1] /\ 1 \in DOMAIN from
      <4>1. from \in Seq(Items) /\ from # <<>>
        BY <1>1, Woke
      <4> QED
        BY <4>1
    <3> QED
      BY <3>1, <3>2 DEF Digits
  <2>2. task' = [task EXCEPT !.bit = Len(from) - 1]
    BY <2>1 DEF WriteAnswered
  <2>3. task'.pc = "write"
    <3>1. task \in [pc : Calls, byte : Byte, size : Nat, stop : BOOLEAN, bit : Nat]
      BY DEF WireInv, TypeInv
    <3> QED
      BY <1>1, <2>2, <3>1
  <2> QED
    BY <1>1, <1>5, <2>3, SamplesKept
<1> QED
  BY <1>4, <1>5

LEMMA SamplesFetch == ASSUME WireInv, SampleInv, Fetch PROVE SampleInv'
<1>1. FetchDoes /\ eng.item = None /\ UNCHANGED <<task, from, bus, dev, samples, popped>> /\ eng'.state = eng.state
  BY FetchFacts DEF FetchDoes, Fetch, hist
<1>2. ~(eng.item = "Z") /\ ~(eng'.item = "Z" /\ Left' = 1)
  <2> SUFFICES ASSUME eng'.item = "Z", Left' = 1 PROVE FALSE
    BY <1>1, NoneAssumption
  <2>1. eng'.item # eng.item
    BY <1>1, NoneAssumption
  <2>2. Head(to) = "Z" /\ eng.state # "IDLE"
    BY <1>1, <2>1 DEF FetchDoes
  <2> QED
    BY <1>1, <2>2 DEF FetchDoes
<1>3. ~Loaded /\ ~Loaded' /\ Clocked1' = Clocked1
  BY <1>1, <1>2 DEF Loaded, Fresh, Clocked1
<1>4. Filling => Filling'
  BY <1>1, <1>3 DEF Filling, Carried, Bit
<1> QED
  BY <1>1, <1>3, <1>4 DEF SampleInv, ReadIsSample, Sent

\* The bit that the engine samples is the one where the device stands.
LEMMA SampledBit ==
  ASSUME WireInv, SampleInv, ClockDoes, Sampling, Collecting, UNCHANGED <<samples, popped>>
  PROVE  Filling'
<1>1. /\ UNCHANGED <<task, bus, ssda, dev>> /\ Left' = 1 /\ Left = 2 /\ eng.item = "Z" /\ eng'.item = "Z"
      /\ (bus.sda <=> ~m.sda /\ ~ssda) /\ (bus.scl <=> ~m.scl) /\ from' = Append(from, Answer)
  BY DEF ClockDoes, Sampling
<1>2. CollZ /\ eng.state = "READING" /\ ~m.sda /\ m.scl
  BY <1>1, NoneAssumption DEF Collecting, CollNone, CollA, ClockDoes, SampleDoes
<1>3. from \in Seq(Items) /\ Len(from) \in Nat /\ Answer \in Items /\ Filling /\ samples \in Seq(SUBSET Int)
  BY AnsweredState DEF WireInv, TypeInv, SampleInv, Items, Collecting
<1>4. Reads(Len(from)) /\ dev.state = "READ" /\ dev.i = MSB - (Len(from) % Bits)
  BY <1>1, <1>2 DEF CollZ, Reads
<1>5. dev.i \in 0..(Bits - 1)
  <2>1. PICK r : r = Len(from) % Bits
    OBVIOUS
  <2>2. r \in 0..(Bits - 1)
    BY <1>3, <2>1, DivBits
  <2>3. dev.i = MSB - r
    BY <1>4, <2>1
  <2> QED
    BY <2>2, <2>3, Bits0
<1>6. Clocked1 = Len(from)
  BY <1>1 DEF Clocked1
<1>7. /\ Len(samples) \in Nat /\ Len(samples) > 0 /\ dev.data = samples[Len(samples)]
      /\ Len(samples) * Bits = Len(from) + dev.i + 1
  BY <1>3, <1>4, <1>6 DEF Filling
<1>8. /\ Len(from') = Len(from) + 1 /\ from'[Len(from) + 1] = Answer
      /\ \A i \in 1..Len(from) : from'[i] = from[i]
  BY <1>1, <1>3
<1>9. Answer = IF dev.i \in dev.data THEN "1" ELSE "0"
  <2>1. ssda <=> Drive
    BY <1>1, <1>2 DEF WireInv, PortInv
  <2>2. Drive <=> dev.i \notin dev.data
    BY <1>4 DEF Drive
  <2>3. bus.sda <=> dev.i \in dev.data
    BY <1>1, <1>2, <2>1, <2>2
  <2> QED
    BY <1>2, <2>3 DEF Answer
<1>10. PICK n \in Nat : n = Len(samples)
  BY <1>7
<1>11. PICK i \in 1..Bits : i = Bits - dev.i
  BY <1>5, Bits0
<1>12. Bit(n, i) = Len(from) + 1
  <2>1. n * Bits \in Int /\ (n - 1) * Bits = n * Bits - Bits
    BY <1>10, Bits0
  <2>2. n * Bits = Len(from) + dev.i + 1
    BY <1>7, <1>10
  <2>3. PICK b \in Int, a \in Int : b = n * Bits /\ a = (n - 1) * Bits
    BY <2>1, Bits0
  <2>4. Bit(n, i) = a + i
    BY <2>3 DEF Bit
  <2>5. PICK d \in Int, l \in Int : d = dev.i /\ l = Len(from)
    BY <1>3, <1>5, Bits0
  <2>6. a = b - Bits /\ b = l + d + 1 /\ i = Bits - d
    BY <1>11, <2>1, <2>2, <2>3, <2>5
  <2>7. a + i = l + 1
    BY <2>6, Bits0
  <2> QED
    BY <2>4, <2>5, <2>7
<1>13. popped = 0
  BY DEF SampleInv, Collecting
<1>14. writebin(samples[n])[i] = Answer
  <2>1. writebin(samples[n])[i] = IF Bits - i \in samples[n] THEN "1" ELSE "0"
    BY WriteBin
  <2>2. Bits - i = dev.i
    BY <1>5, <1>11, Bits0
  <2> QED
    BY <1>7, <1>9, <1>10, <2>1, <2>2
<1>15. Carried'
  <2> SUFFICES ASSUME NEW k \in 1..Len(samples), NEW j \in 1..Bits, Bit(k, j) <= Len(from')
               PROVE  from'[Bit(k, j)] = writebin(samples[popped + k])[j]
    BY DEF Carried, Bit
  <2>1. k \in 1..n /\ Bit(k, j) \in Int /\ Bit(k, j) >= 1
    BY <1>10, BitIn
  <2>2. CASE Bit(k, j) = Len(from) + 1
    <3>1. k = n /\ j = i
      <4>1. n \in Int /\ Bit(k, j) = Bit(n, i)
        BY <1>12, <2>2
      <4> QED
        BY <2>1, <4>1, BitAt
    <3>2. popped + k = n
      BY <1>13, <3>1
    <3> QED
      BY <1>8, <1>14, <2>2, <3>1, <3>2
  <2>3. CASE Bit(k, j) # Len(from) + 1
    <3>1. Bit(k, j) <= Len(from) /\ Bit(k, j) \in 1..Len(from)
      BY <1>3, <1>8, <2>1, <2>3
    <3>2. from[Bit(k, j)] = writebin(samples[popped + k])[j]
      BY <1>3, <3>1 DEF Filling, Carried
    <3> QED
      BY <1>8, <3>1, <3>2
  <2> QED
    BY <2>2, <2>3
<1>16. Clocked1' = Len(from)
  BY <1>1, <1>2, <1>3, <1>8 DEF Clocked1
<1> QED
  BY <1>1, <1>4, <1>7, <1>15, <1>16 DEF Filling

LEMMA SamplesClock == ASSUME WireInv, SampleInv, Clock PROVE SampleInv'
<1>1. /\ ClockDoes /\ UNCHANGED <<task, to, bus, ssda, dev, samples, popped>> /\ eng.item # None /\ Left \in 1..4 /\ Left' = Left - 1
      /\ (bus.scl <=> ~m.scl)
      /\ eng'.item = IF Left = 1 THEN None ELSE eng.item
  BY ClockFacts DEF ClockDoes, Clock, hist
<1>2. Held /\ (eng.item = "Z" => SampleDoes)
  BY <1>1, EngHeld DEF WireInv, ClockDoes
<1>3. ~Sampling => from' = from
  BY <1>1 DEF ClockDoes
<1>4. Calm => ~Sampling
  BY <1>1, ClockCalm
<1>5. eng'.item = "Z" => eng.item = "Z" /\ Left # 1
  BY <1>1, NoneAssumption
<1>6. CASE task.pc = "idle"
  <2>1. Calm
    BY <1>6, Quiet
  <2> QED
    BY <1>1, <1>3, <1>4, <1>6, <2>1, SamplesKept
<1>7. CASE task.pc = "write"
  <2>1. eng'.state = "WRITING" => eng.state = "WRITING"
    <3>1. CASE Sampling
      <4>1. eng.state \in {"WRITING", "READING"}
        BY <1>1, <1>4, <1>7, <3>1, ClockSend DEF WireInv, PhaseInv, Addressing, Sent, Collecting
      <4>2. eng'.state = Answered
        BY <1>1, <3>1 DEF ClockDoes
      <4> QED
        BY <4>1, <4>2 DEF Answered
    <3>2. CASE ~Sampling
      BY <1>1, <3>2 DEF ClockDoes
    <3> QED
      BY <3>1, <3>2
  <2> QED
    BY <1>1, <1>7, <2>1, SamplesKept
<1>8. CASE Sent
  <2>1. ~Loaded
    BY <1>1, <1>8, NotWoken DEF Loaded, Sent
  <2>2. ~Loaded'
    <3> SUFFICES ASSUME Loaded' PROVE FALSE
      OBVIOUS
    <3>1. Sampling /\ dev.state = "READ"
      BY <1>1, <1>5 DEF Loaded, Fresh, Sampling
    <3>2. AddrZ
      BY <1>1, <1>4, <1>8, <3>1, ClockAddr, Bits0 DEF WireInv, PhaseInv, Addressing, Sent, Sending, Collecting, Sampling,
         AddrS, AddrNone, AddrBit
    <3>3. AfterRises(Bits)
      BY <3>1, <3>2 DEF AddrZ, Sampling
    <3> QED
      BY <3>1, <3>3, Bits0 DEF AfterRises
  <2>3. task' = task /\ task.pc # "idle" /\ task.pc # "write" /\ task.pc # "collect"
    BY <1>1, <1>8 DEF Sent
  <2> QED
    BY <1>1, <1>8, <2>1, <2>2, <2>3 DEF SampleInv, ReadIsSample, Sent
<1>9. CASE task.pc = "collect"
  <2>1. Filling'
    <3>1. CASE Sampling
      <4>1. Collecting
        BY <1>4, <1>9, <3>1 DEF WireInv, PhaseInv, Addressing, Sent, Sending
      <4> QED
        BY <1>1, <3>1, <4>1, SampledBit
    <3>2. CASE ~Sampling
      <4>1. from' = from /\ Filling
        BY <1>3, <1>9, <3>2 DEF SampleInv
      <4>2. Clocked1' = Clocked1
        <5>1. Clocked1 = Len(from)
          BY <1>1, <1>2, <3>2 DEF Clocked1, Sampling, SampleDoes
        <5>2. ~(eng'.item = "Z" /\ Left' = 1)
          BY <1>1, <1>5, <3>2 DEF Sampling
        <5> QED
          BY <4>1, <5>1, <5>2 DEF Clocked1
      <4>3. Carried'
        BY <1>1, <4>1 DEF Filling, Carried, Bit
      <4> QED
        BY <1>1, <4>1, <4>2, <4>3 DEF Filling
    <3> QED
      BY <3>1, <3>2
  <2> QED
    BY <1>1, <1>9, <2>1 DEF SampleInv, ReadIsSample, Sent
<1>10. task.pc \in Calls
  BY DEF WireInv, TypeInv
<1> QED
  BY <1>6, <1>7, <1>8, <1>9, <1>10 DEF Calls, Sent

(***************************************************************************)
(* The same when the device sees a line change.                            *)
(***************************************************************************)

\* The next byte of an answer has none of its bits in `from'.
LEMMA NextSampled ==
  ASSUME Carried, samples \in Seq(SUBSET Int), NEW x, samples' = Append(samples, x), x \in SUBSET Int,
         popped = 0, popped' = 0, from' = from, Len(from) \in Nat, Len(from) = Len(samples) * Bits
  PROVE  Carried' /\ Len(samples') = Len(samples) + 1 /\ samples'[Len(samples) + 1] = x /\ samples' \in Seq(SUBSET Int)
<1>1. /\ Len(samples') = Len(samples) + 1 /\ samples'[Len(samples) + 1] = x /\ samples' \in Seq(SUBSET Int)
      /\ Len(samples) \in Nat /\ \A k \in 1..Len(samples) : samples'[k] = samples[k]
  OBVIOUS
<1>2. Carried'
  <2> SUFFICES ASSUME NEW k \in 1..Len(samples'), NEW j \in 1..Bits, Bit(k, j) <= Len(from)
               PROVE  from[Bit(k, j)] = writebin(samples'[popped' + k])[j]
    BY DEF Carried, Bit
  <2>1. k \in 1..Len(samples)
    <3> SUFFICES ASSUME k = Len(samples) + 1 PROVE FALSE
      BY <1>1
    <3>1. PICK l \in Int : l = Len(samples) * Bits
      BY <1>1, Bits0
    <3>2. k - 1 = Len(samples)
      BY <1>1
    <3>3. Bit(k, j) = l + j
      BY <3>1, <3>2 DEF Bit
    <3>4. l = Len(from)
      BY <3>1
    <3> QED
      BY <3>1, <3>3, <3>4
  <2>2. from[Bit(k, j)] = writebin(samples[popped + k])[j]
    BY <2>1 DEF Carried
  <2>3. popped + k = k /\ popped' + k = k
    OBVIOUS
  <2> QED
    BY <1>1, <2>1, <2>2, <2>3
<1> QED
  BY <1>1, <1>2

\* While the answer comes in, the device takes a sample with the clock after the
\* address and after every acknowledged byte, and else moves to the next bit.
LEMMA FillingDev == ASSUME WireInv, SampleInv, DevDoes, HearDoes, Collecting PROVE Filling' /\ samples' \in Seq(SUBSET Int)
<1>1. /\ UNCHANGED <<task, to, from, eng, m>> /\ Left' = Left /\ Held
      /\ from \in Seq(Items) /\ Len(from) \in Nat
      /\ bus'.scl <=> ~m.scl
      /\ m.scl => dev' = dev
      /\ m \in Lines /\ bus \in Lines
  BY EngHeld DEF DevDoes, Left, WireInv, TypeInv
<1>2. popped = 0 /\ popped' = 0 /\ Filling /\ samples \in Seq(SUBSET Int) /\ Carried
  BY DEF SampleInv, Collecting, HearDoes, Filling
<1>3. ASSUME samples' = samples PROVE Carried' /\ samples' \in Seq(SUBSET Int)
  BY <1>1, <1>2, <1>3 DEF Carried, Bit
<1>4. ASSUME m.scl, eng.item # "Z" \/ Left = 2 PROVE Filling' /\ samples' \in Seq(SUBSET Int)
  <2>1. samples' = samples
    BY <1>4 DEF HearDoes, Hears
  <2>2. Clocked1 = Len(from) /\ Clocked1' = Len(from)
    BY <1>1, <1>4 DEF Clocked1
  <2> QED
    BY <1>1, <1>2, <1>3, <1>4, <2>1, <2>2 DEF Filling
<1>5. CASE CollZ
  <2>1. eng.item = "Z" /\ Left \in 1..2 /\ ~m.sda
    BY <1>1, <1>5 DEF CollZ, Held
  <2>2. CASE Left = 2
    BY <1>1, <1>4, <2>1, <2>2 DEF Held
  <2>3. CASE Left = 1
    <3>1. Still /\ ~m.scl
      BY <1>1, <1>5, <2>1, <2>3 DEF CollZ, Held
    <3>2. ~bus.scl /\ RiseDoes /\ bus'.scl
      BY <3>1, DevRises
    <3>3. IF from = <<>> THEN dev.state = "ACKRD" ELSE Reads(Len(from) - 1)
      BY <1>5, <2>3, <3>2 DEF CollZ
    <3>4. Clocked1' = Len(from) /\ Clocked1 = Len(from) - 1
      BY <1>1, <2>1, <2>3, <3>2 DEF Clocked1
    <3>5. CASE from = <<>>
      <4>1. dev.state = "ACKRD" /\ samples = <<>> /\ Len(from) = 0 /\ Len(samples) = 0
        BY <1>2, <3>3, <3>5 DEF Filling
      <4>2. Hears /\ eng.item # "P"
        BY <2>1, <3>1, <3>2, <4>1 DEF Hears, Heard
      <4>3. PICK x : x = dev'.data /\ x \in SUBSET Int /\ samples' = Append(samples, x)
        BY <4>2 DEF HearDoes
      <4>4. dev'.state = "READ" /\ dev'.i = MSB
        BY <3>2, <4>1 DEF RiseDoes
      <4>5. 0 * Bits = 0 /\ 1 * Bits = 0 + MSB + 1
        BY Bits0
      <4>6. Len(from) = Len(samples) * Bits
        BY <4>1, <4>5
      <4>7. Carried' /\ Len(samples') = 1 /\ samples'[1] = x /\ samples' \in Seq(SUBSET Int)
        BY <1>1, <1>2, <4>1, <4>3, <4>6, NextSampled
      <4> QED
        BY <3>4, <4>1, <4>3, <4>4, <4>5, <4>7 DEF Filling
    <3>6. CASE from # <<>>
      <4>1. dev.state = "READ"
        BY <3>3, <3>6 DEF Reads
      <4>2. samples' = samples
        BY <4>1 DEF HearDoes, Hears, Heard
      <4>3. /\ Len(samples) > 0 /\ dev.data = samples[Len(samples)]
            /\ Len(samples) * Bits = Len(from) - 1 + dev.i + 1 /\ dev.i \in Int
        BY <1>2, <3>4, <4>1 DEF Filling, WireInv, TypeInv, DevType
      <4>4. IF dev.i = 0 THEN dev'.state = "ACKNACK" ELSE dev'.state = "READ" /\ dev'.i = dev.i - 1
        BY <3>2, <4>1 DEF RiseDoes
      <4>5. dev'.state = "READ" => dev'.data = dev.data
        BY <4>1 DEF HearDoes, Hears, Heard
      <4>6. Len(samples) * Bits = Len(from) + dev.i
        BY <1>1, <4>3
      <4>7. CASE dev.i = 0
        <5>1. dev'.state = "ACKNACK" /\ Len(samples') * Bits = Len(from')
          BY <1>1, <4>2, <4>4, <4>6, <4>7
        <5> QED
          BY <1>3, <4>2, <5>1 DEF Filling
      <4>8. CASE dev.i # 0
        <5>1. dev'.state = "READ" /\ dev'.i = dev.i - 1 /\ dev'.data = dev.data
          BY <4>4, <4>5, <4>8
        <5>2. Len(samples') * Bits = Clocked1' + dev'.i + 1
          BY <1>1, <3>4, <4>2, <4>3, <4>6, <5>1
        <5> QED
          BY <1>3, <4>2, <4>3, <5>1, <5>2 DEF Filling
      <4> QED
        BY <4>7, <4>8
    <3> QED
      BY <3>5, <3>6
  <2> QED
    BY <2>1, <2>2, <2>3
<1>6. CASE CollNone
  <2>1. m.scl /\ eng.item # "Z"
    BY <1>1, <1>6, NoneAssumption DEF CollNone, Held, Collecting
  <2> QED
    BY <1>4, <2>1
<1>7. CASE CollA
  <2>1. eng.item = "A" /\ BitHeld
    BY <1>1, <1>7 DEF CollA, Held
  <2>2. CASE Left > 1
    BY <1>4, <2>1, <2>2 DEF BitHeld
  <2>3. CASE Left = 1
    <3>1. Still /\ ~m.scl /\ m.sda
      BY <1>7, <2>1, <2>3 DEF CollA, BitHeld, Lows
    <3>2. ~bus.scl /\ RiseDoes /\ bus'.scl /\ (bus'.sda <=> ~m.sda /\ ~ssda)
      BY <3>1, DevRises
    <3>3. dev.state = "ACKNACK" /\ ~bus'.sda
      BY <1>7, <2>3, <3>1, <3>2 DEF CollA
    <3>4. dev'.state = "READ" /\ dev'.i = MSB
      BY <3>2, <3>3 DEF RiseDoes
    <3>5. Hears /\ eng.item # "P"
      BY <2>1, <3>1, <3>2, <3>3 DEF Hears, Heard
    <3>6. PICK x : x = dev'.data /\ x \in SUBSET Int /\ samples' = Append(samples, x)
      BY <3>5 DEF HearDoes
    <3>7. Len(from) = Len(samples) * Bits
      BY <1>2, <3>3 DEF Filling
    <3>8. Carried' /\ Len(samples') = Len(samples) + 1 /\ samples'[Len(samples) + 1] = x /\ samples' \in Seq(SUBSET Int)
      BY <1>1, <1>2, <3>6, <3>7, NextSampled
    <3>9. Clocked1' = Len(from)
      BY <1>1, <2>1 DEF Clocked1
    <3>10. Len(samples') * Bits = Clocked1' + MSB + 1
      <4>1. PICK l \in Nat : l = Len(samples)
        BY <1>2
      <4>2. (l + 1) * Bits = l * Bits + Bits
        BY Bits0
      <4>3. PICK b \in Int : b = l * Bits
        BY Bits0
      <4>4. b + Bits = Len(from) + MSB + 1
        BY <1>1, <3>7, <4>1, <4>3, Bits0
      <4> QED
        BY <3>8, <3>9, <4>1, <4>2, <4>3, <4>4
    <3> QED
      BY <1>2, <3>4, <3>6, <3>8, <3>10 DEF Filling
  <2> QED
    BY <2>1, <2>2, <2>3 DEF BitHeld
<1> QED
  BY <1>5, <1>6, <1>7 DEF Collecting

LEMMA SamplesDev == ASSUME WireInv, ByteInv, SampleInv, i2c_th PROVE SampleInv'
<1>1. DevDoes /\ HearDoes
  BY DevFacts, HearStep
<1>2. UNCHANGED <<task, to, from, eng, m>> /\ Left' = Left /\ popped' = popped /\ (Fresh' <=> Fresh)
  BY <1>1 DEF DevDoes, HearDoes, Left, Fresh
<1>3. Hears /\ eng.item # "P" => Collecting \/ (Sent /\ FirstSample)
  BY <1>1, Unheard
<1>4. CASE task.pc \in {"idle", "write"}
  <2>1. samples' = samples
    BY <1>1, <1>3, <1>4 DEF HearDoes, Collecting, Sent
  <2> QED
    BY <1>2, <1>4, <2>1, SamplesKept
<1>5. CASE Sent
  <2>1. samples \in Seq(SUBSET Int) /\ popped = 0 /\ (IF Loaded THEN Len(samples) = 1 /\ dev.data = samples[1] ELSE samples = <<>>)
    BY <1>5 DEF SampleInv
  <2>2. ~Loaded
    <3> SUFFICES ASSUME Loaded PROVE FALSE
      OBVIOUS
    <3>1. Fresh /\ dev.state = "READ" /\ to = <<>> /\ Len(to) = 0 /\ eng.item = "Z" /\ Left = 1
      BY DEF Loaded, Fresh
    <3>2. AddrZ
      BY <1>5, <3>1, NoneAssumption, Bits0 DEF WireInv, PhaseInv, Ahead, Addressing, Sent, Sending, Collecting, AddrS, AddrNone, AddrBit
    <3>3. ~CalmZ \/ eng.state = "READING"
      BY <3>1 DEF CalmZ, RestDev, WireInv, TypeInv, States
    <3>4. Still /\ bus.scl /\ ~m.scl
      BY <3>1, <3>2, <3>3, EngHeld DEF AddrZ, Held, WireInv
    <3>5. ~bus.scl
      BY <1>1, <3>4, DevRises
    <3> QED
      BY <3>4, <3>5
  <2>3. samples = <<>>
    BY <2>1, <2>2
  <2>4. task'.pc # "idle" /\ task'.pc # "write" /\ task'.pc # "collect"
    BY <1>2, <1>5 DEF Sent
  <2>5. CASE Hears /\ eng.item # "P"
    <3>1. Fresh /\ dev.state = "ACKRD" /\ ~m.scl /\ ~bus.scl
      BY <1>3, <1>5, <2>5 DEF Collecting, Sent, FirstSample, Hears
    <3>2. PICK x : x = dev'.data /\ x \in SUBSET Int /\ samples' = Append(samples, x)
      BY <1>1, <2>5 DEF HearDoes
    <3>3. dev'.state = "READ"
      BY <1>1, <3>1 DEF DevDoes, RiseDoes
    <3>4. Loaded' /\ Len(samples') = 1 /\ samples'[1] = x /\ samples' \in Seq(SUBSET Int)
      BY <1>2, <2>1, <2>3, <3>1, <3>2, <3>3 DEF Loaded
    <3> QED
      BY <1>2, <2>1, <2>4, <3>2, <3>4 DEF SampleInv, ReadIsSample
  <2>6. CASE ~(Hears /\ eng.item # "P")
    <3>1. samples' = samples
      BY <1>1, <2>6 DEF HearDoes
    <3>2. ~Loaded'
      <4> SUFFICES ASSUME Loaded' PROVE FALSE
        OBVIOUS
      <4>1. Fresh /\ dev'.state = "READ" /\ ~Hears
        BY <1>2, <2>6 DEF Loaded, Fresh
      <4>2. dev.state = "READ"
        BY <1>1, <4>1 DEF HearDoes
      <4> QED
        BY <2>2, <4>1, <4>2 DEF Loaded
    <3> QED
      BY <1>2, <2>1, <2>3, <2>4, <3>1, <3>2 DEF SampleInv, ReadIsSample
  <2> QED
    BY <2>5, <2>6
<1>6. CASE task.pc = "collect"
  <2>1. CASE Collecting
    <3>1. Filling' /\ samples' \in Seq(SUBSET Int)
      BY <1>1, <2>1, FillingDev
    <3> QED
      BY <1>2, <1>6, <3>1 DEF SampleInv, ReadIsSample, Sent
  <2>2. CASE ~Collecting
    BY <1>6, <2>2 DEF WireInv, PhaseInv, Ahead, Addressing, Sent, Sending
  <2> QED
    BY <2>1, <2>2
<1>7. task.pc \in Calls
  BY DEF WireInv, TypeInv
<1> QED
  BY <1>4, <1>5, <1>6, <1>7 DEF Calls, Sent

LEMMA SamplesSame ==
  ASSUME SampleInv, UNCHANGED <<task, to, from, eng, bus, dev, samples, popped>>
  PROVE  SampleInv'
<1>1. (ReadIsSample' <=> ReadIsSample) /\ (Sent' <=> Sent) /\ (Loaded' <=> Loaded) /\ Clocked1' = Clocked1
  BY DEF ReadIsSample, Sent, Loaded, Fresh, Left, Clocked1
<1>2. Filling => Filling'
  BY <1>1 DEF Filling, Carried, Bit
<1> QED
  BY <1>1, <1>2 DEF SampleInv

LEMMA SamplesNext == ASSUME WireInv, ByteInv, SampleInv, [Next]_vars PROVE SampleInv'
<1>1. CASE Sketch
  BY <1>1, SamplesSketch
<1>2. CASE Resume
  BY <1>2, SamplesAddressed, SamplesBit, SamplesWritten DEF Resume
<1>3. CASE Fetch
  BY <1>3, SamplesFetch
<1>4. CASE Clock
  BY <1>4, SamplesClock
<1>5. CASE i2c_th
  BY <1>5, SamplesDev
<1>6. ASSUME NEW v \in Inputs, Pin(v) PROVE SampleInv'
  BY <1>6, SamplesSame DEF Pin, wire
<1>7. CASE UNCHANGED vars
  BY <1>7, SamplesSame DEF vars, wire, port, hist
<1> QED
  BY <1>1, <1>2, <1>3, <1>4, <1>5, <1>6, <1>7 DEF Next

LEMMA SamplesInit == ASSUME Init PROVE SampleInv
<1>1. task.pc = "idle" /\ from = <<>> /\ samples = <<>> /\ popped = 0 /\ Len(from) = 0 /\ Len(samples) - popped = 0 /\ 0 * Bits = 0
  BY Bits0 DEF Init, Idle
<1>2. ReadIsSample
  BY <1>1 DEF ReadIsSample
<1> QED
  BY <1>1, <1>2 DEF SampleInv, Sent

\* Between calls `from' holds exactly the bits of the bytes that the device took
\* from its port for the last requestFrom, in order, less the bytes that peek and
\* read have taken: no answer of an earlier call is left in front of them, no bit
\* is lost, doubled or read at the wrong clock.
THEOREM ReadsTheSamples == ASSUME ~Hasty PROVE Spec => []ReadIsSample
<1>1. Init => WireInv /\ ByteInv /\ SampleInv
  BY WireInit, BytesInit, SamplesInit
<1>2. WireInv /\ ByteInv /\ SampleInv /\ [Next]_vars => WireInv' /\ ByteInv' /\ SampleInv'
  BY WireNext, BytesNext, SamplesNext
<1>3. SampleInv => ReadIsSample
  BY DEF SampleInv
<1> QED
  BY <1>1, <1>2, <1>3, PTL DEF Spec
============================================================================
