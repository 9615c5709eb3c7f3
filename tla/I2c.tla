-------------------------------- MODULE I2c --------------------------------
(***************************************************************************)
(* An I2C transfer from end to end: the Arduino class TwoWire              *)
(* (src/libraries/Wire/Wire.cpp) as one sketch uses it, the bit engine     *)
(* i2c::transfer_th (src/modules/i2c.cpp) behind two FIFOs of characters,  *)
(* the open-drain bus, and the port expander pcf8574                       *)
(* (src/tbintf/pcf8574.cpp) as the device.                                 *)
(*                                                                         *)
(* Bytes are sets of bit positions, of Bits positions instead of 8, and an *)
(* address has one bit less, as in the code.  A line of the bus is low     *)
(* when somebody pulls it low; the pull-ups are the board's.               *)
(***************************************************************************)
EXTENDS Integers, Sequences, SequencesExt

CONSTANTS
  Bits,        \* bits of a byte, 8 in the code
  Fifo,        \* items of the FIFOs `to' and `from', 256 in the code
  DeviceId,    \* device_id
  Addrs,       \* the addresses that the sketch uses
  Values,      \* the bytes that the sketch writes
  Sizes,       \* the number of bytes that the sketch asks for
  Inputs,      \* what the outside may drive on the port
  Hasty,       \* the sketch starts a transfer right after an answer, without a stop
  None

Byte == SUBSET (0..(Bits - 1))
MSB  == Bits - 1
AllOnes == 0..MSB

ASSUME BitsAssumption == Bits \in Nat /\ Bits > 1
ASSUME FifoAssumption == Fifo \in Nat /\ Fifo >= Bits + 2
ASSUME AddrAssumption == DeviceId \in SUBSET (0..(Bits - 2))
ASSUME UseAssumption ==
  /\ Addrs \subseteq SUBSET (0..(Bits - 2))
  /\ Values \subseteq Byte /\ Inputs \subseteq Byte
  /\ Sizes \subseteq Nat \ {0}
ASSUME NoneAssumption == None \notin {"S", "P", "Z", "A", "N", "0", "1"}

VARIABLES
  task,      \* the call in progress; bit: the length of `from' when it last waited
  to, from,  \* the FIFOs
  transmitting, peeked,   \* of TwoWire; peeked is `waiting' if `taken'
  stopped,   \* an error report has stopped the simulation
  eng,       \* transfer_th: its state, its item and what is left to do of it
  m,         \* sda_en_o and scl_en_o: TRUE pulls the line low
  bus,       \* the lines as the device last saw them, TRUE is high
  ssda,      \* the device pulls SDA low
  dev,       \* i2c_th
  ext, intr, \* what the outside drives on the port, and the interrupt line
  \* history: the last address sent and whether it was answered, the last byte
  \* acknowledged to the sketch, the bytes sampled for the last request and how
  \* many of them the sketch has taken, and the last byte told since a write
  addressed, acked, samples, popped, told

wire == <<task, transmitting, peeked, stopped>>
hist == <<addressed, acked, samples, popped, told>>
port == <<bus, ssda, dev, ext, intr>>
vars == <<wire, to, from, eng, m, port, hist>>

\* One shift of a register: (x << 1) + b
Shift(x, b) == {k + 1 : k \in x} \cup (IF b THEN {0} ELSE {})

\* The characters for the bits of a byte, the highest bit first.
writebin(b) == [j \in 1..Bits |-> IF Bits - j \in b THEN "1" ELSE "0"]

Idle == [pc |-> "idle", byte |-> {}, size |-> 0, stop |-> FALSE, bit |-> 0]

Init ==
  /\ task = Idle
  /\ to = <<>> /\ from = <<>>
  /\ transmitting = FALSE /\ peeked = None /\ stopped = FALSE
  /\ eng = [state |-> "IDLE", item |-> None, wave |-> <<>>, rwbit |-> FALSE]
  /\ m = [sda |-> FALSE, scl |-> FALSE]
  /\ bus = [sda |-> TRUE, scl |-> TRUE]
  /\ ssda = FALSE
  /\ dev = [state |-> "IDLE", i |-> 0, devid |-> {}, data |-> {}, drive |-> AllOnes]
  /\ ext \in Inputs
  /\ intr = "Z"
  /\ addressed = [addr |-> None, ok |-> FALSE]
  /\ acked = AllOnes /\ samples = <<>> /\ popped = 0 /\ told = None

\* The lines as they will be: open drain.
Resolved == [sda |-> ~(m.sda \/ ssda), scl |-> ~m.scl]
Settled  == bus = Resolved

(***************************************************************************)
(* The sketch.  A call runs until it waits for a character in `from'.      *)
(***************************************************************************)
Free(q) == Fifo - Len(q)

\* A new command drops what is left of the last one.
Dump == from' = <<>> /\ samples' = <<>> /\ popped' = 0

\* Unless it is hasty, the sketch sends a stop before it addresses a device, or
\* takes its time until the engine has finished the last item.
Paced ==
  \/ Hasty
  \/ to # <<>> /\ Last(to) = "P"
  \/ to = <<>> /\ (eng.item = "P" \/ eng.state = "IDLE" \/ (eng.item = None /\ Settled))

Report == stopped' = TRUE /\ UNCHANGED <<task, to, addressed>>

\* The test at the start of requestFrom (`from' is empty by then).
NoRoom(n) == Fifo < n * Bits \/ Free(to) < Bits + 2 \/ Free(to) < n * Bits

\* requestFrom up to its first wait
requestFrom(a, n, stop) ==
  /\ task.pc = "idle" /\ Paced
  /\ Dump
  /\ IF NoRoom(n)
       THEN Report
       ELSE /\ to' = to \o <<"S">> \o writebin(Shift(a, TRUE)) \o <<"Z">>
            /\ task' = [Idle EXCEPT !.pc = "request", !.size = n, !.stop = stop]
            /\ addressed' = [addr |-> a, ok |-> FALSE]
            /\ UNCHANGED stopped
  /\ UNCHANGED <<transmitting, peeked, eng, m, port, acked, told>>

beginTransmission(a) ==
  /\ task.pc = "idle" /\ Paced
  /\ Dump
  /\ IF Free(to) < Bits + 2
       THEN Report
       ELSE /\ to' = to \o <<"S">> \o writebin(Shift(a, FALSE)) \o <<"Z">>
            /\ task' = [Idle EXCEPT !.pc = "begin"]
            /\ addressed' = [addr |-> a, ok |-> FALSE]
            /\ UNCHANGED stopped
  /\ UNCHANGED <<transmitting, peeked, eng, m, port, acked, told>>

endTransmission(stop) ==
  /\ task.pc = "idle"
  /\ Len(to) < Fifo
  /\ to' = IF stop THEN Append(to, "P") ELSE to
  /\ transmitting' = FALSE
  /\ UNCHANGED <<task, peeked, stopped, from, eng, m, port, hist>>

\* write(byte): the test of `transmitting' and the first round of the loop
write(b) ==
  /\ task.pc = "idle" /\ transmitting
  /\ IF Free(to) < Bits + 1 \/ Free(from) < 1
       THEN Report
       ELSE /\ to' = to \o writebin(b) \o <<"Z">>
            /\ task' = [Idle EXCEPT !.pc = "write", !.byte = b, !.bit = Len(from)]
            /\ UNCHANGED <<stopped, addressed>>
  /\ UNCHANGED <<transmitting, peeked, from, eng, m, port, acked, samples, popped, told>>

\* flush() of TwoWire
flush ==
  /\ task.pc = "idle"
  /\ Dump
  /\ to' = <<>>
  /\ UNCHANGED <<wire, eng, m, port, addressed, acked, told>>

\* peek(), and read(), which takes the peeked byte first
Taken == {k \in 0..MSB : from[Bits - k] = "1"}
peek ==
  /\ task.pc = "idle"
  /\ peeked = None /\ Len(from) >= Bits
  /\ peeked' = Taken
  /\ from' = SubSeq(from, Bits + 1, Len(from))
  /\ popped' = popped + 1
  /\ UNCHANGED <<task, transmitting, stopped, to, eng, m, port, addressed, acked, samples, told>>

read ==
  /\ task.pc = "idle"
  /\ IF peeked # None
       THEN peeked' = None /\ UNCHANGED <<from, popped>>
       ELSE /\ Len(from) >= Bits
            /\ from' = SubSeq(from, Bits + 1, Len(from))
            /\ popped' = popped + 1
            /\ UNCHANGED peeked
  /\ UNCHANGED <<task, transmitting, stopped, to, eng, m, port, addressed, acked, samples, told>>

\* The address was answered: beginTransmission ends, requestFrom goes on.
AddressAnswered ==
  /\ task.pc \in {"begin", "request"} /\ Len(from) > task.bit
  /\ from' = Tail(from)
  /\ addressed' = [addressed EXCEPT !.ok = Head(from) = "A"]
  /\ IF task.pc = "request" /\ Head(from) = "A"
       THEN task' = [task EXCEPT !.pc = "collect"] /\ to' = Append(to, "Z")
       ELSE task' = Idle /\ UNCHANGED to
  /\ transmitting' = IF task.pc = "begin" THEN Head(from) = "A" ELSE transmitting
  /\ UNCHANGED <<peeked, stopped, eng, m, port, acked, samples, popped, told>>

\* Mutant: an acknowledge after the last byte too.
AfterByte_AckLast(n) == <<"A">>

\* What requestFrom queues after the n-th byte.
AfterByte(n) == IF n # task.size THEN <<"A">> ELSE <<>>

\* The next bit of the answer has come in.
BitAnswered ==
  /\ task.pc = "collect" /\ Len(from) > task.bit
  /\ LET n    == task.bit + 1
         more == IF n % Bits = 0 THEN AfterByte(n \div Bits) ELSE <<>>
     IN IF n < task.size * Bits
          THEN to' = to \o more \o <<"Z">> /\ task' = [task EXCEPT !.bit = n]
          ELSE /\ to' = to \o more \o (IF task.stop THEN <<"N", "P">> ELSE <<>>)
               /\ task' = Idle
  /\ UNCHANGED <<transmitting, peeked, stopped, from, eng, m, port, hist>>

\* Mutant: the byte counts as written whatever the answer is.
WriteAnswered_NoCheck ==
  /\ task.pc = "write" /\ Len(from) > task.bit
  /\ from' = Tail(from)
  /\ task' = Idle /\ acked' = task.byte /\ UNCHANGED to
  /\ UNCHANGED <<transmitting, peeked, stopped, eng, m, port, addressed, samples, popped, told>>

\* The loop of write(byte): again until the answer is 'A'.
WriteAnswered ==
  /\ task.pc = "write" /\ Len(from) > task.bit
  /\ from' = Tail(from)
  /\ IF Head(from) = "A"
       THEN task' = Idle /\ acked' = task.byte /\ UNCHANGED to
       ELSE /\ to' = to \o writebin(task.byte) \o <<"Z">>
            /\ task' = [task EXCEPT !.bit = Len(from) - 1]
            /\ UNCHANGED acked
  /\ UNCHANGED <<transmitting, peeked, stopped, eng, m, port, addressed, samples, popped, told>>

(***************************************************************************)
(* The bit engine.  An item is a waveform: what transfer_th writes to its  *)
(* two enables when it takes the item, and after each of its waits.        *)
(***************************************************************************)
Nothing == <<>>
Sda(low) == [sda |-> low]
Scl(low) == [scl |-> low]
Clocked(first) == <<Nothing, first, Scl(FALSE), Scl(TRUE)>>

\* The enables after a write to some of them.
Written(w) == [l \in {"sda", "scl"} |-> IF l \in DOMAIN w THEN w[l] ELSE m[l]]

Wave(st, p) ==
  CASE p = "S" -> <<[sda |-> FALSE, scl |-> FALSE], Sda(TRUE), Scl(TRUE), Nothing>>
    [] p = "P" -> <<Nothing, Sda(TRUE), Scl(FALSE), Sda(FALSE), Nothing>>
    [] p = "Z" -> <<Sda(FALSE), Scl(FALSE), Scl(TRUE)>>
    [] p \in {"0", "1"} /\ st \in {"DEVID", "WRITING"} -> Clocked(Sda(p = "0"))
    [] p \in {"A", "N"} /\ st = "READING"              -> Clocked(Sda(p = "A"))
    [] OTHER -> <<Nothing, Nothing>>

\* The engine reads an item.  When idle it drops what is not 'S' or 'P'.
Fetch ==
  /\ eng.item = None /\ to # <<>>
  /\ to' = Tail(to)
  /\ LET p == Head(to)
         w == Wave(eng.state, p)
     IN IF eng.state = "IDLE" /\ p \notin {"S", "P"}
          THEN UNCHANGED <<eng, m>>
          ELSE /\ eng' = [eng EXCEPT !.item = p, !.wave = Tail(w)]
               /\ m' = Written(Head(w))
  /\ UNCHANGED <<wire, from, port, hist>>

\* Mutant: a start bit that does not start anything.
Finished_NoStart(st, p) ==
  IF p = "P" \/ (p = "N" /\ st = "READING") THEN "IDLE" ELSE st

\* The state after the last wait of an item.
Finished(st, p) ==
  CASE p = "S" -> "DEVID"
    [] p = "P" -> "IDLE"
    [] p = "N" /\ st = "READING" -> "IDLE"
    [] OTHER -> st

\* Answers go to the sketch at once, before time moves.
Woken == task.pc # "idle" /\ Len(from) > task.bit

\* SDA is sampled after 'Z', before the clock that is written with it rises.
Answer ==
  IF eng.state = "READING" THEN IF bus.sda THEN "1" ELSE "0"
                           ELSE IF bus.sda THEN "N" ELSE "A"
Answered ==
  IF eng.state = "READING" THEN "READING"
  ELSE IF bus.sda THEN "IDLE"
  ELSE IF eng.state = "WRITING" \/ ~eng.rwbit THEN "WRITING" ELSE "READING"

\* The end of one wait of the engine.
Clock ==
  /\ eng.item # None /\ Settled /\ ~Woken
  /\ m' = Written(Head(eng.wave))
  /\ LET last    == Len(eng.wave) = 1
         sample == eng.item = "Z" /\ Len(eng.wave) = 2
         bit     == eng.item \in {"0", "1"} /\ eng.state \in {"DEVID", "WRITING"}
     IN /\ from' = IF sample THEN Append(from, Answer) ELSE from
        /\ eng' = [item  |-> IF last THEN None ELSE eng.item,
                   wave  |-> Tail(eng.wave),
                   state |-> IF sample THEN Answered
                             ELSE IF last THEN Finished(eng.state, eng.item)
                             ELSE eng.state,
                   rwbit |-> IF last /\ bit THEN eng.item = "1" ELSE eng.rwbit]
  /\ UNCHANGED <<wire, to, port, hist>>

(***************************************************************************)
(* The device.  i2c_th runs when a line changes; what it writes to SDA is  *)
(* a change of its own.                                                    *)
(***************************************************************************)
Level == dev.drive \cap ext

\* What intr_th does when clearintr_ev is notified.
ClearIntr == intr' = "Z"

Change == ~Settled /\ bus' = Resolved /\ UNCHANGED <<wire, to, from, eng, m, ext>>

\* SDA moves while SCL is high.
StartStop ==
  /\ Change
  /\ bus'.scl /\ bus'.sda # bus.sda
  /\ dev' = IF bus'.sda THEN [dev EXCEPT !.state = "IDLE"]
            ELSE [dev EXCEPT !.state = "DEVID", !.i = MSB, !.devid = {}]
  /\ UNCHANGED <<ssda, intr, hist>>

Rising == Change /\ bus'.scl /\ ~bus.scl /\ bus'.sda = bus.sda

\* Mutant: the address is compared without its first bit.
DevId_Short ==
  /\ Rising /\ dev.state = "DEVID"
  /\ dev' = IF dev.i > 0
              THEN [dev EXCEPT !.devid = Shift(dev.devid, bus'.sda), !.i = dev.i - 1]
              ELSE [dev EXCEPT !.i = dev.i - 1,
                      !.state = IF dev.devid \ {Bits - 2} # DeviceId \ {Bits - 2} THEN "RETZ"
                                ELSE IF bus'.sda THEN "ACKRD" ELSE "ACKWR"]
  /\ UNCHANGED <<ssda, intr, hist>>

\* A bit of the address, or the read/write bit after it.
DevId ==
  /\ Rising /\ dev.state = "DEVID"
  /\ dev' = IF dev.i > 0
              THEN [dev EXCEPT !.devid = Shift(dev.devid, bus'.sda), !.i = dev.i - 1]
              ELSE [dev EXCEPT !.i = dev.i - 1,
                      !.state = IF dev.devid # DeviceId THEN "RETZ"
                                ELSE IF bus'.sda THEN "ACKRD" ELSE "ACKWR"]
  /\ UNCHANGED <<ssda, intr, hist>>

\* The device is not involved.
Ignore ==
  /\ Rising /\ dev.state \in {"IDLE", "RETZ"}
  /\ dev' = [dev EXCEPT !.state = "IDLE"]
  /\ UNCHANGED <<ssda, intr, hist>>

Sample ==
  /\ samples' = IF eng.item = "P" THEN samples ELSE Append(samples, Level)
  /\ told' = Level
  /\ dev' = [dev EXCEPT !.state = "READ", !.i = MSB, !.data = Level]
  /\ UNCHANGED <<addressed, acked, popped>>

AckRead ==
  /\ Rising /\ dev.state = "ACKRD"
  /\ Sample /\ ClearIntr
  /\ UNCHANGED ssda

AckWrite ==
  /\ Rising /\ dev.state = "ACKWR"
  /\ dev' = [dev EXCEPT !.state = "WRDATA", !.i = MSB, !.data = {}]
  /\ ClearIntr
  /\ told' = None
  /\ UNCHANGED <<ssda, addressed, acked, samples, popped>>

\* Mutant: SDA is not released for the master's data.
WriteBit_Held ==
  /\ Rising /\ dev.state = "WRDATA"
  /\ dev' = [dev EXCEPT !.data = Shift(dev.data, bus'.sda),
                        !.state = IF dev.i = 0 THEN "ACKWRD" ELSE "WRDATA",
                        !.i = IF dev.i = 0 THEN 0 ELSE dev.i - 1]
  /\ UNCHANGED <<ssda, intr, hist>>

\* A bit of data.  With the first one SDA, low since the acknowledge, is released.
WriteBit ==
  /\ Rising /\ dev.state = "WRDATA"
  /\ ssda' = IF dev.i = MSB THEN FALSE ELSE ssda
  /\ dev' = [dev EXCEPT !.data = Shift(dev.data, bus'.sda),
                        !.state = IF dev.i = 0 THEN "ACKWRD" ELSE "WRDATA",
                        !.i = IF dev.i = 0 THEN 0 ELSE dev.i - 1]
  /\ UNCHANGED <<intr, hist>>

AckData ==
  /\ Rising /\ dev.state = "ACKWRD"
  /\ dev' = [dev EXCEPT !.drive = dev.data, !.data = {}, !.i = MSB, !.state = "WRDATA"]
  /\ ClearIntr
  /\ UNCHANGED <<ssda, hist>>

ReadBit ==
  /\ Rising /\ dev.state = "READ"
  /\ dev' = IF dev.i = 0 THEN [dev EXCEPT !.state = "ACKNACK"] ELSE [dev EXCEPT !.i = @ - 1]
  /\ UNCHANGED <<ssda, intr, hist>>

AckNack ==
  /\ Rising /\ dev.state = "ACKNACK"
  /\ IF bus'.sda THEN dev' = [dev EXCEPT !.state = "IDLE"] /\ UNCHANGED hist
                 ELSE Sample
  /\ UNCHANGED <<ssda, intr>>

\* The clock drops: the device drives or releases SDA.
Falling ==
  /\ Change /\ ~bus'.scl /\ bus.scl
  /\ ssda' = CASE dev.state \in {"RETZ", "ACKNACK"}          -> FALSE
               [] dev.state \in {"ACKRD", "ACKWR", "ACKWRD"} -> TRUE
               [] dev.state = "READ"                         -> dev.i \notin dev.data
               [] OTHER                                      -> ssda
  /\ UNCHANGED <<dev, intr, hist>>

\* SDA moves while SCL is low: nothing to do.
DataMoves ==
  /\ Change /\ ~bus'.scl /\ ~bus.scl
  /\ UNCHANGED <<ssda, dev, intr, hist>>

i2c_th ==
  \/ StartStop \/ DevId \/ Ignore \/ AckRead \/ AckWrite \/ WriteBit
  \/ AckData \/ ReadBit \/ AckNack \/ Falling \/ DataMoves

Writing == dev.state \in {"WRDATA", "ACKWRD", "ACKWR"}

\* Mutant: no interrupt during a read either.
Pin_NotInRead(v) ==
  /\ ext' = v /\ v # ext
  /\ intr' = IF dev.drive \cap v # Level /\ ~Writing /\ dev.state # "READ"
               THEN "0" ELSE intr
  /\ told' = IF Writing THEN None ELSE told
  /\ UNCHANGED <<wire, to, from, eng, m, bus, ssda, dev, addressed, acked, samples, popped>>

\* The outside changes the port, and intr_th runs if a signal of it changes.
Pin(v) ==
  /\ ext' = v /\ v # ext
  /\ intr' = IF dev.drive \cap v # Level /\ ~Writing THEN "0" ELSE intr
  /\ told' = IF Writing THEN None ELSE told
  /\ UNCHANGED <<wire, to, from, eng, m, bus, ssda, dev, addressed, acked, samples, popped>>

Sketch ==
  \/ \E a \in Addrs, n \in Sizes, stop \in BOOLEAN : requestFrom(a, n, stop)
  \/ \E a \in Addrs : beginTransmission(a)
  \/ \E stop \in BOOLEAN : endTransmission(stop)
  \/ \E b \in Values : write(b)
  \/ flush \/ peek \/ read

Resume == AddressAnswered \/ BitAnswered \/ WriteAnswered

Next ==
  /\ ~stopped
  /\ Sketch \/ Resume \/ Fetch \/ Clock \/ i2c_th \/ \E v \in Inputs : Pin(v)

\* The simulation runs as long as it is not stopped.
Fairness == WF_vars(~stopped /\ Resume) /\ WF_vars(~stopped /\ Fetch)
            /\ WF_vars(~stopped /\ Clock) /\ WF_vars(~stopped /\ i2c_th)

Spec == Init /\ [][Next]_vars /\ Fairness

(***************************************************************************)
(* Properties.                                                             *)
(***************************************************************************)
\* The FIFOs never overflow and the shift registers keep to their width.
TypeOK ==
  /\ task.pc \in {"idle", "request", "collect", "begin", "write"}
  /\ to \in Seq({"S", "P", "Z", "A", "N", "0", "1"}) /\ Len(to) <= Fifo
  /\ from \in Seq({"A", "N", "0", "1"}) /\ Len(from) <= Fifo
  /\ peeked \in Byte \cup {None}
  /\ eng.state \in {"IDLE", "DEVID", "READING", "WRITING"}
  /\ eng.item = None <=> eng.wave = <<>>
  /\ m \in [{"sda", "scl"} -> BOOLEAN] /\ bus \in [{"sda", "scl"} -> BOOLEAN]
  /\ dev.i \in -1..MSB
  /\ dev.data \in Byte /\ dev.drive \in Byte
  /\ dev.devid \in SUBSET (0..(Bits - 2))

\* Between calls `from' holds the bytes that the device sampled for the last
\* request, bit for bit, less those the sketch has taken: no answer of one call
\* is left for another and no bit is lost between port and sketch.
ReadIsSample ==
  task.pc = "idle" =>
    /\ Len(from) = (Len(samples) - popped) * Bits
    /\ \A k \in 1..(Len(samples) - popped), j \in 1..Bits :
         from[(k - 1) * Bits + j] = writebin(samples[popped + k])[j]

\* Between calls, when the bus has settled, the port shows the last byte for which write returned: an
\* acknowledged byte has arrived whole, and one that was not never does.
WriteReaches == task.pc = "idle" /\ Settled => dev.drive = acked

\* An address is acknowledged exactly when it is the device's.
AnswerRight ==
  task.pc = "idle" /\ addressed.addr # None =>
    (addressed.ok <=> addressed.addr = DeviceId)

\* When the engine has sent a stop and rests, the device has seen it and both
\* lines are free.
BusReleased ==
  /\ eng.state = "IDLE" /\ eng.item = None /\ m = [sda |-> FALSE, scl |-> FALSE] /\ Settled
  => bus = [sda |-> TRUE, scl |-> TRUE] /\ dev.state = "IDLE" /\ ~ssda

\* While no interrupt is signalled and nothing was written, the port is as the
\* master was last told.
IntrTellsChange == intr = "Z" /\ told # None /\ ~Writing => Level = told

\* beginTransmission and requestFrom return.  Only these two: write() sends its byte
\* again until it is acknowledged and hangs on a device that never does (Wire.cpp:252).
CallsReturn == task.pc \in {"begin", "request", "collect"} ~> task.pc = "idle" \/ stopped
============================================================================
