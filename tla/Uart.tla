-------------------------------- MODULE Uart --------------------------------
(***************************************************************************)
(* A serial line between two UARTs: the thread outtake of the sending one, *)
(* the thread intake of the receiving one (src/modules/uart.cpp), and the  *)
(* tasks at both ends, which use the FIFOs through TestSerial              *)
(* (src/intf/TestSerial.cpp).  The two directions of a connection share    *)
(* nothing but the rate, so one direction is modelled.                     *)
(*                                                                         *)
(* Time is counted in halves of the bit period of 115200 baud and moves    *)
(* only when no process can run, to the end of the next timed wait.  The   *)
(* few APB clocks that each call of TestSerial waits are far below one     *)
(* unit: they are steps without duration.  A byte is the set of its bits   *)
(* that are 1.  The detection of the rate is not modelled.                 *)
(***************************************************************************)
EXTENDS Integers, Sequences, FiniteSets

CONSTANTS
  Bits,       \* bits of a byte, 8 in the code
  Bytes,      \* the bytes that are sent
  Rates,      \* the arguments of set_baud
  StopBits,   \* 1, 2 (one and a half) or 3 (two)
  ToSize, FromSize, \* the FIFOs, 64 in the code
  Dead,       \* deadtime
  Timeouts,   \* of the reads with a timeout
  MaxSent,    \* bound: bytes written in a run
  None

\* The rate whose bit is the unit of time
BaseRate == 115200

ASSUME SizeAssumption == Bits \in Nat \ {0} /\ ToSize \in Nat \ {0} /\ FromSize \in Nat \ {0}
ASSUME BytesAssumption == Bytes \subseteq SUBSET (0..(Bits - 1))
ASSUME NoneAssumption == \A b \in SUBSET (0..(Bits - 1)) : b # None
ASSUME RatesAssumption == \A r \in Rates : r \in 1..BaseRate
ASSUME StopAssumption == StopBits \subseteq 0..3
ASSUME TimeAssumption == Dead \in Nat /\ \A x \in Timeouts : x \in Nat \ {0}

VARIABLES
  period,     \* baudperiod of both ends
  stop,       \* stopbits of the sender
  to, from,   \* the FIFOs
  line,       \* the signal from tx to rx
  out, in,    \* outtake and intake: where they are, the byte and the next bit
  writer,     \* the task that writes: the byte it has in hand
  reader,     \* the task that reads: where it is and what it called
  taken,      \* TestSerial: taken and waiting, the byte of a peek
  left,       \* what is left of the timed waits; -1 when a thread waits for an event
  sent, heard, kept, given \* history: bytes written, assembled by intake, put into
                           \* from and not flushed, returned by reads

vars == <<period, stop, to, from, line, out, in, writer, reader, taken, left,
          sent, heard, kept, given>>
hist == <<sent, heard, kept, given>>

Threads == {"out", "in", "reader"}
Untimed == -1

\* set_baud, in units of the bit of BaseRate
Period(rate) == BaseRate \div rate

Init ==
  /\ \E r \in Rates : period = 2 * Period(r)
  /\ stop \in StopBits
  /\ to = <<>> /\ from = <<>>
  /\ line = FALSE
  /\ out = [pc |-> "begin", msg |-> {}, cnt |-> 0]
  /\ in = [pc |-> "rise", msg |-> {}, cnt |-> 0]
  /\ writer = None
  /\ reader = [pc |-> "idle", op |-> None]
  /\ taken = None
  /\ left = [x \in Threads |-> Untimed]
  /\ sent = <<>> /\ heard = <<>> /\ kept = <<>> /\ given = <<>>

Waits(x, n) == left' = [left EXCEPT ![x] = n]
Ready(x) == left[x] = 0

(***************************************************************************)
(* outtake                                                                 *)
(***************************************************************************)
OutBegin ==
  /\ out.pc = "begin"
  /\ line' = TRUE
  /\ out' = [out EXCEPT !.pc = "fetch"]
  /\ UNCHANGED <<period, stop, to, from, in, writer, reader, taken, left, hist>>

\* A byte is taken from the FIFO and its start bit begins.
OutStart ==
  /\ out.pc = "fetch" /\ to # <<>>
  /\ out' = [pc |-> "bits", msg |-> Head(to), cnt |-> 0]
  /\ to' = Tail(to)
  /\ line' = FALSE
  /\ Waits("out", period)
  /\ UNCHANGED <<period, stop, from, in, writer, reader, taken, hist>>

OutBit ==
  /\ out.pc = "bits" /\ Ready("out") /\ out.cnt < Bits
  /\ line' = (out.cnt \in out.msg)
  /\ out' = [out EXCEPT !.cnt = @ + 1]
  /\ Waits("out", period)
  /\ UNCHANGED <<period, stop, to, from, in, writer, reader, taken, hist>>

StopTime == IF stop < 2 THEN period ELSE IF stop = 2 THEN period + (period \div 2) ELSE 2 * period

OutStop ==
  /\ out.pc = "bits" /\ Ready("out") /\ out.cnt = Bits
  /\ line' = TRUE
  /\ out' = [out EXCEPT !.pc = "stop"]
  /\ Waits("out", StopTime)
  /\ UNCHANGED <<period, stop, to, from, in, writer, reader, taken, hist>>

OutNext ==
  /\ out.pc = "stop" /\ Ready("out")
  /\ out' = [out EXCEPT !.pc = "fetch"]
  /\ Waits("out", Untimed)
  /\ UNCHANGED <<period, stop, to, from, line, in, writer, reader, taken, hist>>

(***************************************************************************)
(* intake                                                                  *)
(***************************************************************************)
\* The line has risen; the dead time follows.
InRise ==
  /\ in.pc = "rise" /\ line
  /\ in' = [in EXCEPT !.pc = "dead"]
  /\ Waits("in", Dead)
  /\ UNCHANGED <<period, stop, to, from, line, out, writer, reader, taken, hist>>

InListen ==
  /\ in.pc = "dead" /\ Ready("in")
  /\ in' = [in EXCEPT !.pc = "edge"]
  /\ Waits("in", Untimed)
  /\ UNCHANGED <<period, stop, to, from, line, out, writer, reader, taken, hist>>

\* Mutant: the first bit is read at its edge.
ToFirstBit_Edge == period

\* Half of the start bit and one period more
ToFirstBit == (period \div 2) + period

\* The wait for a falling edge: the line was high when it began.
InStart ==
  /\ in.pc = "edge" /\ ~line
  /\ in' = [pc |-> "bits", msg |-> {}, cnt |-> 0]
  /\ Waits("in", ToFirstBit)
  /\ UNCHANGED <<period, stop, to, from, line, out, writer, reader, taken, hist>>

InBit ==
  /\ in.pc = "bits" /\ Ready("in") /\ in.cnt < Bits
  /\ in' = [in EXCEPT !.msg = IF line THEN @ \cup {in.cnt} ELSE @, !.cnt = @ + 1]
  /\ Waits("in", period)
  /\ UNCHANGED <<period, stop, to, from, line, out, writer, reader, taken, hist>>

\* The byte goes to the FIFO, or is dropped when there is no room.
InByte ==
  /\ in.pc = "bits" /\ Ready("in") /\ in.cnt = Bits
  /\ in' = [in EXCEPT !.pc = "edge"]
  /\ Waits("in", Untimed)
  /\ heard' = Append(heard, in.msg)
  /\ LET room == Len(from) < FromSize
     IN /\ from' = IF room THEN Append(from, in.msg) ELSE from
        /\ kept' = IF room THEN Append(kept, in.msg) ELSE kept
  /\ UNCHANGED <<period, stop, to, line, out, writer, reader, taken, sent, given>>

(***************************************************************************)
(* The tasks                                                               *)
(***************************************************************************)
\* TestSerial::write: the byte is in hand until the FIFO has room.  The program of
\* the sender begins after the dead time of the receiver.
write(b) ==
  /\ writer = None /\ Len(sent) < MaxSent
  /\ in.pc \notin {"rise", "dead"}
  /\ writer' = b
  /\ sent' = Append(sent, b)
  /\ UNCHANGED <<period, stop, to, from, line, out, in, reader, taken, left, heard, kept, given>>

WriteDone ==
  /\ writer # None /\ Len(to) < ToSize
  /\ to' = Append(to, writer)
  /\ writer' = None
  /\ UNCHANGED <<period, stop, from, line, out, in, reader, taken, left, hist>>

\* A byte is returned: a read gives it away, a peek keeps it.
Gives(op, b, rest) ==
  /\ from' = rest
  /\ IF op = "read" THEN taken' = None /\ given' = Append(given, b)
                    ELSE taken' = b /\ UNCHANGED given
  /\ UNCHANGED <<sent, heard, kept>>

\* Mutant: a read takes from the FIFO although a byte was peeked.
Take_NoTaken(op) == from # <<>> /\ Gives(op, Head(from), Tail(from))

\* The byte of an earlier peek comes first, then the FIFO.
Take(op) ==
  \/ taken # None /\ Gives(op, taken, from)
  \/ taken = None /\ from # <<>> /\ Gives(op, Head(from), Tail(from))

\* read() and peek(), and the others when there is something to return
Immediate(op) ==
  /\ reader.pc = "idle"
  /\ Take(op)
  /\ UNCHANGED <<period, stop, to, line, out, in, writer, reader, left>>

\* bl_read and bl_peek find nothing: the wait for data_written_event begins, with
\* the timeout n or without one.
Blocks(op, n) ==
  /\ reader.pc = "idle" /\ taken = None /\ from = <<>>
  /\ reader' = [pc |-> "wait", op |-> op]
  /\ Waits("reader", n)
  /\ UNCHANGED <<period, stop, to, from, line, out, in, writer, taken, hist>>

\* Mutant: the end of the timeout is not noticed.
Wakes_NoTimeout == from # <<>>

Wakes == from # <<>> \/ Ready("reader")

\* The wait ends, by a byte or by the timeout; available() is asked again.
Woken ==
  /\ reader.pc = "wait" /\ Wakes
  /\ reader' = [reader EXCEPT !.pc = "recheck"]
  /\ Waits("reader", Untimed)
  /\ UNCHANGED <<period, stop, to, from, line, out, in, writer, taken, hist>>

Recheck ==
  /\ reader.pc = "recheck"
  /\ reader' = [pc |-> "idle", op |-> None]
  /\ IF from = <<>> THEN UNCHANGED <<from, taken, hist>> ELSE Take(reader.op)
  /\ UNCHANGED <<period, stop, to, line, out, in, writer, left>>

Flushed == None

flush ==
  /\ reader.pc = "idle"
  /\ taken' = Flushed /\ from' = <<>>
  /\ kept' = given
  /\ UNCHANGED <<period, stop, to, line, out, in, writer, reader, left, sent, heard, given>>

(***************************************************************************)
(* Time                                                                    *)
(***************************************************************************)
Outtake == OutBegin \/ OutStart \/ OutBit \/ OutStop \/ OutNext
Intake == InRise \/ InListen \/ InStart \/ InBit \/ InByte
ReaderStep == Woken \/ Recheck

Quiet ==
  /\ \A x \in Threads : ~Ready(x)
  /\ out.pc # "begin" /\ (out.pc = "fetch" => to = <<>>)
  /\ (in.pc = "rise" => ~line) /\ (in.pc = "edge" => line)
  /\ reader.pc # "recheck" /\ (reader.pc = "wait" => from = <<>>)
  /\ (writer # None => Len(to) = ToSize)

Timed == {left[x] : x \in {y \in Threads : left[y] > 0}}

Tick ==
  /\ Quiet /\ Timed # {}
  /\ LET d == CHOOSE n \in Timed : \A m \in Timed : n <= m
     IN left' = [x \in Threads |-> IF left[x] > 0 THEN left[x] - d ELSE left[x]]
  /\ UNCHANGED <<period, stop, to, from, line, out, in, writer, reader, taken, hist>>

Next ==
  \/ Outtake \/ Intake \/ Tick
  \/ (\E b \in Bytes : write(b)) \/ WriteDone
  \/ \E op \in {"read", "peek"} : Immediate(op) \/ \E n \in Timeouts \cup {Untimed} : Blocks(op, n)
  \/ ReaderStep \/ flush

\* The SystemC kernel runs every process that can run, and then moves time.
Fairness == WF_vars(Outtake) /\ WF_vars(Intake) /\ WF_vars(Tick)
            /\ WF_vars(WriteDone) /\ WF_vars(ReaderStep)

Spec == Init /\ [][Next]_vars /\ Fairness

(***************************************************************************)
(* Properties                                                              *)
(***************************************************************************)
\* Types, and the limits of the FIFOs.
TypeOK ==
  /\ \A s \in {to, from, sent, heard, kept, given} : s \in Seq(SUBSET (0..(Bits - 1)))
  /\ Len(to) <= ToSize /\ Len(from) <= FromSize
  /\ line \in BOOLEAN
  /\ out.pc \in {"begin", "fetch", "bits", "stop"} /\ out.cnt \in 0..Bits
  /\ in.pc \in {"rise", "dead", "edge", "bits"} /\ in.cnt \in 0..Bits
  /\ reader.pc \in {"idle", "wait", "recheck"} /\ reader.op \in {"read", "peek", None}
  /\ left \in [Threads -> Nat \cup {Untimed}]

\* Every byte that intake assembles is the next byte that was written, whatever the
\* bytes before it, the gaps between them, the rate and the length of the stop bit:
\* the receiver samples by its own clock from the edge of the start bit.
FramingExact == /\ Len(heard) <= Len(sent)
                /\ \A k \in 1..Len(heard) : heard[k] = sent[k]

\* A byte that found room in the FIFO is returned by reads exactly once and in
\* order, across peeks, timeouts and flush.
NothingLost == kept = given \o (IF taken = None THEN <<>> ELSE <<taken>>) \o from

\* What is written arrives at the far end, whether somebody reads there or not: a
\* full FIFO there does not hold up the line, and the write returns.
Arrives == Len(heard) < Len(sent) ~> Len(heard) = Len(sent)

\* A read or a peek with a timeout returns.
TimeoutReturns == (reader.pc = "wait" /\ left["reader"] > 0) ~> reader.pc = "idle"

\* Nobody waits for ever: neither for the line nor beyond a timeout.
NobodyStuck == Arrives /\ TimeoutReturns
============================================================================
