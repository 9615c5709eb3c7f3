---------------------------- MODULE UartProofs -----------------------------
(***************************************************************************)
(* Proof that TestSerial hands out every byte once and in order, for bytes *)
(* of any length, FIFOs of any size and any timeouts.                      *)
(***************************************************************************)
EXTENDS Uart, SequenceTheorems, TLAPS

AnyByte == SUBSET (0..(Bits - 1))
Peeked == IF taken = None THEN <<>> ELSE <<taken>>

\* Inductive invariant: NothingLost and the types that the laws of sequences need.
ReadInv ==
  /\ from \in Seq(AnyByte) /\ kept \in Seq(AnyByte) /\ given \in Seq(AnyByte)
  /\ taken \in AnyByte \cup {None}
  /\ in \in [pc: {"rise", "dead", "edge", "bits"}, msg: AnyByte, cnt: 0..Bits]
  /\ NothingLost

(***************************************************************************)
(* Laws of sequences                                                       *)
(***************************************************************************)
\* A byte behind the last one
LEMMA PutBehind ==
  ASSUME NEW g \in Seq(AnyByte), NEW m \in Seq(AnyByte), NEW f \in Seq(AnyByte), NEW b \in AnyByte
  PROVE  Append((g \o m) \o f, b) = (g \o m) \o Append(f, b)
<1>1. g \o m \in Seq(AnyByte) /\ <<b>> \in Seq(AnyByte)
  BY ConcatProperties
<1>2. (g \o m) \o f \in Seq(AnyByte)
  BY <1>1, ConcatProperties
<1>3. Append((g \o m) \o f, b) = ((g \o m) \o f) \o <<b>> /\ Append(f, b) = f \o <<b>>
  BY <1>2, AppendIsConcat
<1>4. ((g \o m) \o f) \o <<b>> = (g \o m) \o (f \o <<b>>)
  BY <1>1, ConcatAssociative
<1> QED
  BY <1>3, <1>4

\* The first byte of the FIFO is set apart by a peek.
LEMMA SetApart ==
  ASSUME NEW S, NEW g \in Seq(S), NEW f \in Seq(S), f # <<>>
  PROVE  (g \o <<>>) \o f = (g \o <<Head(f)>>) \o Tail(f)
<1>1. Head(f) \in S /\ Tail(f) \in Seq(S) /\ <<Head(f)>> \in Seq(S)
  BY HeadTailProperties
<1>2. <<Head(f)>> \o Tail(f) \in Seq(S) /\ Len(<<Head(f)>> \o Tail(f)) = Len(f)
  BY <1>1, ConcatProperties, HeadTailProperties
<1>3. ASSUME NEW i \in 1..Len(f) PROVE (<<Head(f)>> \o Tail(f))[i] = f[i]
  <2>1. CASE i = 1
    BY <1>1, <2>1
  <2>2. CASE i # 1
    BY <1>1, <2>2, HeadTailProperties, ConcatProperties
  <2> QED
    BY <2>1, <2>2
<1>4. <<Head(f)>> \o Tail(f) = f
  BY <1>2, <1>3
<1> QED
  BY <1>1, <1>4, ConcatAssociative, ConcatEmptySeq

\* The byte that was set apart is given away.
LEMMA GiveAway ==
  ASSUME NEW S, NEW g \in Seq(S), NEW f \in Seq(S), NEW b \in S
  PROVE  (g \o <<b>>) \o f = (Append(g, b) \o <<>>) \o f
<1>1. Append(g, b) \in Seq(S) /\ Append(g, b) = g \o <<b>>
  BY AppendIsConcat, AppendProperties
<1> QED
  BY <1>1, ConcatEmptySeq

(***************************************************************************)
(* The invariant                                                           *)
(***************************************************************************)
LEMMA ReadInit == Init => ReadInv
<1>1. <<>> \in Seq(AnyByte) /\ <<>> = (<<>> \o <<>>) \o <<>> /\ {} \in AnyByte
  BY ConcatEmptySeq DEF AnyByte
<1>2. 0 \in 0..Bits
  BY SizeAssumption
<1> QED
  BY <1>1, <1>2 DEF Init, ReadInv, NothingLost

\* A read or a peek that finds a byte
LEMMA TakeKeeps ==
  ASSUME ReadInv, NEW op, Take(op), UNCHANGED in
  PROVE  ReadInv'
<1>0. from \in Seq(AnyByte) /\ given \in Seq(AnyByte)
  BY DEF ReadInv
<1>1. CASE taken # None /\ Gives(op, taken, from)
  <2>1. taken \in AnyByte
    BY <1>1 DEF ReadInv
  <2>2. Append(given, taken) \in Seq(AnyByte)
    BY <2>1, AppendProperties DEF ReadInv
  <2>3. (given \o <<taken>>) \o from = (Append(given, taken) \o <<>>) \o from
    BY <2>1, GiveAway DEF ReadInv
  <2> QED
    BY <1>1, <2>1, <2>2, <2>3 DEF ReadInv, NothingLost, Gives
<1>2. CASE taken = None /\ from # <<>> /\ Gives(op, Head(from), Tail(from))
  <2>1. Head(from) \in AnyByte /\ Tail(from) \in Seq(AnyByte) /\ Head(from) # None
    BY <1>2, HeadTailProperties, NoneAssumption DEF ReadInv, AnyByte
  <2>2. Append(given, Head(from)) \in Seq(AnyByte)
    BY <2>1, AppendProperties DEF ReadInv
  <2>3. kept = (given \o <<Head(from)>>) \o Tail(from)
    BY <1>2, SetApart DEF ReadInv, NothingLost
  <2>4. (given \o <<Head(from)>>) \o Tail(from) = (Append(given, Head(from)) \o <<>>) \o Tail(from)
    BY <1>0, <2>1, GiveAway
  <2>5. CASE op = "read"
    BY <1>2, <2>1, <2>2, <2>3, <2>4, <2>5 DEF ReadInv, NothingLost, Gives
  <2>6. CASE op # "read"
    BY <1>2, <2>1, <2>3, <2>6 DEF ReadInv, NothingLost, Gives
  <2> QED
    BY <2>5, <2>6
<1> QED
  BY <1>1, <1>2 DEF Take

\* intake stores a byte or drops it.
LEMMA InByteKeeps ==
  ASSUME ReadInv, InByte
  PROVE  ReadInv'
<1>0. from \in Seq(AnyByte) /\ given \in Seq(AnyByte)
  BY DEF ReadInv
<1>1. in.msg \in AnyByte /\ in' \in [pc: {"rise", "dead", "edge", "bits"}, msg: AnyByte, cnt: 0..Bits]
  BY DEF ReadInv, InByte
<1>2. CASE Len(from) < FromSize
  <2>1. Peeked \in Seq(AnyByte)
    BY DEF ReadInv, Peeked
  <2>2. Append((given \o Peeked) \o from, in.msg) = (given \o Peeked) \o Append(from, in.msg)
    BY <1>0, <1>1, <2>1, PutBehind
  <2>3. Append(kept, in.msg) \in Seq(AnyByte) /\ Append(from, in.msg) \in Seq(AnyByte)
    BY <1>1, AppendProperties DEF ReadInv
  <2> QED
    BY <1>1, <1>2, <2>2, <2>3 DEF ReadInv, NothingLost, InByte, Peeked
<1>3. CASE ~(Len(from) < FromSize)
  BY <1>1, <1>3 DEF ReadInv, NothingLost, InByte
<1> QED
  BY <1>2, <1>3

LEMMA ReadStep == ReadInv /\ [Next]_vars => ReadInv'
<1> SUFFICES ASSUME ReadInv, [Next]_vars PROVE ReadInv'
  OBVIOUS
<1>1. CASE Outtake
  BY <1>1 DEF Outtake, OutBegin, OutStart, OutBit, OutStop, OutNext, hist, ReadInv, NothingLost
<1>2. CASE InRise \/ InListen
  BY <1>2 DEF InRise, InListen, hist, ReadInv, NothingLost
<1>3. CASE InStart
  <2>1. {} \in AnyByte /\ 0 \in 0..Bits
    BY SizeAssumption DEF AnyByte
  <2> QED
    BY <1>3, <2>1 DEF InStart, hist, ReadInv, NothingLost
<1>4. CASE InBit
  <2>1. in.cnt \in 0..(Bits - 1) /\ in.cnt + 1 \in 0..Bits
    BY <1>4, SizeAssumption DEF InBit, ReadInv
  <2>2. (IF line THEN in.msg \cup {in.cnt} ELSE in.msg) \in AnyByte
    BY <2>1 DEF ReadInv, AnyByte
  <2>3. in' \in [pc: {"rise", "dead", "edge", "bits"}, msg: AnyByte, cnt: 0..Bits]
    BY <1>4, <2>1, <2>2 DEF InBit, ReadInv
  <2> QED
    BY <1>4, <2>3 DEF InBit, hist, ReadInv, NothingLost
<1>5. CASE InByte
  BY <1>5, InByteKeeps
<1>6. ASSUME NEW op, Immediate(op) PROVE ReadInv'
  BY <1>6, TakeKeeps DEF Immediate
<1>7. CASE Recheck
  <2>1. CASE from = <<>>
    BY <1>7, <2>1 DEF Recheck, hist, ReadInv, NothingLost
  <2>2. CASE from # <<>>
    BY <1>7, <2>2, TakeKeeps DEF Recheck
  <2> QED
    BY <2>1, <2>2
<1>8. CASE flush
  <2>1. given = (given \o <<>>) \o <<>> /\ <<>> \in Seq(AnyByte)
    BY ConcatEmptySeq DEF ReadInv
  <2> QED
    BY <1>8, <2>1 DEF flush, Flushed, ReadInv, NothingLost
<1>9. CASE UNCHANGED <<from, in, taken, kept, given>>
  BY <1>9 DEF ReadInv, NothingLost
<1> QED
  BY <1>1, <1>2, <1>3, <1>4, <1>5, <1>6, <1>7, <1>8, <1>9
    DEF Next, Intake, ReaderStep, vars, hist, Tick, write, WriteDone, Blocks, Woken

\* For bytes of any length, FIFOs of any size and every order of reads, peeks, timeouts
\* and flushes: a byte that intake has stored is returned by exactly one read of
\* TestSerial, in order, unless flush discards it.
THEOREM ReadOnceInOrder == Spec => []NothingLost
<1>1. ReadInv => NothingLost
  BY DEF ReadInv
<1> QED
  BY ReadInit, ReadStep, <1>1, PTL DEF Spec

(***************************************************************************)
(* The line                                                                *)
(***************************************************************************)
\* The byte on the line that intake has not assembled yet, and the one the writer has
\* in hand
Flying == IF out.pc = "bits" \/ (out.pc = "stop" /\ in.pc = "bits") THEN <<out.msg>> ELSE <<>>
Held == IF writer = None THEN <<>> ELSE <<writer>>

FrameType ==
  /\ period \in Nat /\ period \div 2 > 0 /\ period = 2 * (period \div 2) /\ stop \in 0..3
  /\ line \in BOOLEAN
  /\ to \in Seq(AnyByte) /\ sent \in Seq(AnyByte) /\ heard \in Seq(AnyByte)
  /\ writer \in AnyByte \cup {None}
  /\ out \in [pc: {"begin", "fetch", "bits", "stop"}, msg: AnyByte, cnt: 0..Bits]
  /\ in \in [pc: {"rise", "dead", "edge", "bits"}, msg: AnyByte, cnt: 0..Bits]
  /\ left \in [Threads -> Int]

\* Before the first byte
Opening ==
  /\ in.pc \in {"rise", "dead"} => out.pc \in {"begin", "fetch"} /\ writer = None /\ to = <<>>
  /\ out.pc = "begin" => in.pc = "rise" /\ ~line

\* Between two bytes, and when a start bit has begun and intake is still to notice
Resting == out.pc \in {"fetch", "stop"} /\ in.pc # "bits" => line
Starting == out.pc = "bits" /\ in.pc = "edge" => ~line /\ out.cnt = 0 /\ left["out"] = period

\* While a byte is on the line the two ends are half a bit apart: intake has read as
\* many bits as outtake has sent and comes half a bit after its next one, or one bit
\* less and comes half a bit before.
Apart ==
  out.pc = "bits" /\ in.pc = "bits" =>
    /\ left["out"] \in 0..period /\ left["in"] >= 0
    /\ \/ in.cnt = out.cnt /\ left["in"] = left["out"] + (period \div 2)
       \/ /\ in.cnt + 1 = out.cnt /\ left["in"] = left["out"] - (period \div 2)
          /\ line = (in.cnt \in out.msg)
Closing ==
  out.pc = "stop" /\ in.pc = "bits" =>
    line /\ in.cnt = Bits /\ left["in"] >= 0 /\ left["out"] >= left["in"] + (period \div 2)

\* What intake has of the byte, and where all bytes are
Read == in.pc = "bits" =>
  out.pc \in {"bits", "stop"} /\ in.msg = {k \in out.msg : k < in.cnt}
Places == sent = ((heard \o Flying) \o to) \o Held

FrameInv ==
  FrameType /\ Opening /\ Resting /\ Starting /\ Apart /\ Closing /\ Read /\ Places

LEMMA PeriodType == ASSUME NEW r \in Rates PROVE Period(r) \in Nat \ {0}
<1>1. BaseRate \in Nat
  BY SMT DEF BaseRate
<1>2. r \in Nat /\ r > 0 /\ r <= BaseRate
  BY <1>1, RatesAssumption, SMT
<1> QED
  BY <1>1, <1>2, SMT DEF Period

LEMMA FrameInit == Init => FrameInv
<1> SUFFICES ASSUME Init PROVE FrameInv
  OBVIOUS
<1>1. PICK r \in Rates : period = 2 * Period(r)
  BY DEF Init
<1>2. period \in Nat /\ period \div 2 > 0 /\ period = 2 * (period \div 2)
  BY <1>1, PeriodType
<1>3. <<>> \in Seq(AnyByte) /\ <<>> = ((<<>> \o <<>>) \o <<>>) \o <<>> /\ {} \in AnyByte
  BY ConcatEmptySeq DEF AnyByte
<1>4. 0 \in 0..Bits
  BY SizeAssumption
<1>5. FrameType
  <2>1. left \in [Threads -> Int]
    BY DEF Init, Untimed
  <2>2. stop \in 0..3 /\ line \in BOOLEAN
    BY StopAssumption, Zenon DEF Init
  <2>3. out \in [pc: {"begin", "fetch", "bits", "stop"}, msg: AnyByte, cnt: 0..Bits]
    BY <1>3, <1>4 DEF Init
  <2>4. in \in [pc: {"rise", "dead", "edge", "bits"}, msg: AnyByte, cnt: 0..Bits]
    BY <1>3, <1>4 DEF Init
  <2> QED
    BY <1>2, <1>3, <2>1, <2>2, <2>3, <2>4 DEF Init, FrameType
<1> QED
  BY <1>3, <1>5 DEF Init, FrameInv, Opening, Resting, Starting, Apart, Closing, Read, Places, Flying, Held

\* The writer
LEMMA FrameWrite == ASSUME FrameInv, NEW b \in Bytes, write(b) PROVE FrameInv'
<1>1. /\ UNCHANGED <<period, stop, to, line, out, in, left, heard>> /\ writer = None /\ writer' = b
      /\ sent' = Append(sent, b) /\ in.pc \notin {"rise", "dead"} /\ b \in AnyByte /\ b # None
  BY BytesAssumption, NoneAssumption DEF write, AnyByte
<1>2. FrameType /\ Flying' = Flying /\ Flying \in Seq(AnyByte)
  BY <1>1 DEF FrameInv, FrameType, Flying
<1>3. (heard \o Flying) \o to \in Seq(AnyByte)
  BY <1>2, ConcatProperties DEF FrameType
<1>4. sent = (heard \o Flying) \o to
  BY <1>1, <1>3, ConcatEmptySeq DEF FrameInv, Places, Held
<1>5. sent' = ((heard \o Flying) \o to) \o <<b>> /\ sent' \in Seq(AnyByte)
  BY <1>1, <1>3, <1>4, AppendIsConcat, AppendProperties
<1>6. Places'
  BY <1>1, <1>2, <1>5 DEF Places, Held
<1>7. FrameType' /\ Opening' /\ Resting' /\ Starting'
  BY <1>1, <1>5 DEF FrameInv, FrameType, Opening, Resting, Starting
<1>8. Apart' /\ Closing' /\ Read'
  BY <1>1 DEF FrameInv, Apart, Closing, Read
<1> QED
  BY <1>6, <1>7, <1>8 DEF FrameInv

LEMMA FrameWriteDone == ASSUME FrameInv, WriteDone PROVE FrameInv'
<1>1. /\ UNCHANGED <<period, stop, line, out, in, left, sent, heard>> /\ writer # None /\ writer' = None
      /\ to' = Append(to, writer) /\ writer \in AnyByte
  BY DEF WriteDone, hist, FrameInv, FrameType
<1>2. FrameType /\ Flying' = Flying /\ Flying \in Seq(AnyByte)
  BY <1>1 DEF FrameInv, FrameType, Flying
<1>3. heard \o Flying \in Seq(AnyByte) /\ Append(to, writer) \in Seq(AnyByte)
  BY <1>1, <1>2, ConcatProperties, AppendProperties DEF FrameType
<1>4. Append(to, writer) = to \o <<writer>> /\ <<writer>> \in Seq(AnyByte) /\ to \in Seq(AnyByte)
  BY <1>1, <1>2, AppendIsConcat DEF FrameType
<1>5. ((heard \o Flying) \o to) \o <<writer>> = (heard \o Flying) \o Append(to, writer)
  BY <1>3, <1>4, ConcatAssociative
<1>6. ((heard \o Flying) \o Append(to, writer)) \o <<>> = (heard \o Flying) \o Append(to, writer)
  BY <1>3, ConcatProperties, ConcatEmptySeq
<1>7. Places'
  BY <1>1, <1>2, <1>5, <1>6 DEF FrameInv, Places, Held
<1>8. FrameType' /\ Opening' /\ Resting' /\ Starting'
  BY <1>1, <1>3 DEF FrameInv, FrameType, Opening, Resting, Starting
<1>9. Apart' /\ Closing' /\ Read'
  BY <1>1 DEF FrameInv, Apart, Closing, Read
<1> QED
  BY <1>7, <1>8, <1>9 DEF FrameInv

\* outtake
LEMMA FrameOutStart == ASSUME FrameInv, OutStart PROVE FrameInv'
<1>1. /\ UNCHANGED <<period, stop, in, writer, sent, heard>> /\ out.pc = "fetch" /\ to # <<>>
      /\ out' = [pc |-> "bits", msg |-> Head(to), cnt |-> 0] /\ to' = Tail(to) /\ line' = FALSE
      /\ left' = [left EXCEPT !["out"] = period]
  BY DEF OutStart, Waits, hist
<1>2. in.pc = "edge"
  BY <1>1 DEF FrameInv, FrameType, Opening, Read
<1>3. FrameType /\ to \in Seq(AnyByte) /\ heard \in Seq(AnyByte)
  BY DEF FrameInv, FrameType
<1>4. Head(to) \in AnyByte /\ Tail(to) \in Seq(AnyByte)
  BY <1>1, <1>3, HeadTailProperties
<1>5. (heard \o <<>>) \o to = (heard \o <<Head(to)>>) \o Tail(to)
  BY <1>1, <1>3, SetApart
<1>6. Places'
  BY <1>1, <1>2, <1>5 DEF FrameInv, Places, Flying, Held
<1>7. left' \in [Threads -> Int] /\ left'["out"] = period /\ 0 \in 0..Bits
  BY <1>1, <1>3, SizeAssumption DEF FrameType, Threads
<1>8. FrameType'
  BY <1>1, <1>3, <1>4, <1>7 DEF FrameType
<1>9. Opening' /\ Resting' /\ Starting' /\ Apart' /\ Closing' /\ Read'
  BY <1>1, <1>2, <1>7 DEF Opening, Resting, Starting, Apart, Closing, Read
<1> QED
  BY <1>6, <1>8, <1>9 DEF FrameInv

LEMMA FrameOutBit == ASSUME FrameInv, OutBit PROVE FrameInv'
<1>1. /\ UNCHANGED <<period, stop, to, in, writer, sent, heard>> /\ out.pc = "bits" /\ left["out"] = 0
      /\ out.cnt < Bits /\ line' = (out.cnt \in out.msg) /\ out' = [out EXCEPT !.cnt = out.cnt + 1]
      /\ left' = [left EXCEPT !["out"] = period]
  BY DEF OutBit, Waits, Ready, hist
<1>2. FrameType /\ out.cnt \in 0..Bits /\ in.cnt \in 0..Bits
  BY DEF FrameInv, FrameType
<1>3. /\ out'.pc = "bits" /\ out'.cnt = out.cnt + 1 /\ out'.msg = out.msg /\ out.cnt + 1 \in 0..Bits
      /\ out' \in [pc: {"begin", "fetch", "bits", "stop"}, msg: AnyByte, cnt: 0..Bits]
  <2>1. out.cnt + 1 \in 0..Bits
    BY <1>1, <1>2, SizeAssumption
  <2> QED
    BY <1>1, <1>2, <2>1 DEF FrameType
<1>4. left' \in [Threads -> Int] /\ left'["out"] = period /\ left'["in"] = left["in"]
  BY <1>1, <1>2 DEF FrameType, Threads
<1>5. in.pc = "bits"
  BY <1>1, <1>2 DEF FrameInv, FrameType, Opening, Starting
<1>6. in.cnt = out.cnt /\ left["in"] = period \div 2
  BY <1>1, <1>2, <1>5 DEF FrameInv, FrameType, Apart
<1>7. FrameType'
  BY <1>1, <1>2, <1>3, <1>4 DEF FrameType
<1>8. Apart'
  <2>1. period \in Nat /\ period = 2 * (period \div 2) /\ period \div 2 \in Nat
    BY <1>2 DEF FrameType
  <2>2. left'["out"] \in 0..period /\ left'["in"] >= 0 /\ left'["in"] = left'["out"] - (period \div 2)
    BY <1>4, <1>6, <2>1
  <2>3. in'.cnt + 1 = out'.cnt /\ line' = (in'.cnt \in out'.msg)
    BY <1>1, <1>3, <1>6, Zenon
  <2> QED
    BY <1>1, <2>2, <2>3 DEF Apart
<1>9. Opening' /\ Resting' /\ Starting' /\ Closing' /\ Read'
  BY <1>1, <1>3, <1>5 DEF FrameInv, Opening, Resting, Starting, Closing, Read
<1>10. Places'
  BY <1>1, <1>3 DEF FrameInv, Places, Flying, Held
<1> QED
  BY <1>7, <1>8, <1>9, <1>10 DEF FrameInv

LEMMA FrameOutStop == ASSUME FrameInv, OutStop PROVE FrameInv'
<1>1. /\ UNCHANGED <<period, stop, to, in, writer, sent, heard>> /\ out.pc = "bits" /\ left["out"] = 0
      /\ out.cnt = Bits /\ line' = TRUE /\ out' = [out EXCEPT !.pc = "stop"]
      /\ left' = [left EXCEPT !["out"] = StopTime]
  BY DEF OutStop, Waits, Ready, hist
<1>2. FrameType /\ in.cnt \in 0..Bits /\ Bits \in Nat
  BY SizeAssumption DEF FrameInv, FrameType
<1>3. /\ out'.pc = "stop" /\ out'.msg = out.msg
      /\ out' \in [pc: {"begin", "fetch", "bits", "stop"}, msg: AnyByte, cnt: 0..Bits]
  BY <1>1, <1>2 DEF FrameType
<1>4. StopTime \in Int /\ StopTime >= period
  BY <1>2 DEF FrameType, StopTime
<1>5. left' \in [Threads -> Int] /\ left'["out"] = StopTime /\ left'["in"] = left["in"]
  BY <1>1, <1>2, <1>4 DEF FrameType, Threads
<1>6. in.pc = "bits"
  BY <1>1, <1>2, SizeAssumption DEF FrameInv, FrameType, Opening, Starting
<1>7. in.cnt = Bits /\ left["in"] = period \div 2
  BY <1>1, <1>2, <1>6 DEF FrameInv, FrameType, Apart
<1>8. FrameType'
  BY <1>1, <1>2, <1>3, <1>5 DEF FrameType
<1>9. Closing'
  BY <1>1, <1>2, <1>4, <1>5, <1>7 DEF Closing, FrameType
<1>10. Opening' /\ Resting' /\ Starting' /\ Apart' /\ Read'
  BY <1>1, <1>3, <1>6 DEF FrameInv, Opening, Resting, Starting, Apart, Read
<1>11. Places'
  BY <1>1, <1>3, <1>6 DEF FrameInv, Places, Flying, Held
<1> QED
  BY <1>8, <1>9, <1>10, <1>11 DEF FrameInv

LEMMA FrameOutNext == ASSUME FrameInv, OutNext PROVE FrameInv'
<1>1. /\ UNCHANGED <<period, stop, to, line, in, writer, sent, heard>> /\ out.pc = "stop" /\ left["out"] = 0
      /\ out' = [out EXCEPT !.pc = "fetch"] /\ left' = [left EXCEPT !["out"] = Untimed]
  BY DEF OutNext, Waits, Ready, hist
<1>2. in.pc = "edge" /\ FrameType
  <2>1. left["in"] \in Int
    BY DEF FrameInv, FrameType, Threads
  <2> QED
    BY <1>1, <2>1 DEF FrameInv, FrameType, Opening, Closing
<1>3. /\ out'.pc = "fetch" /\ out' \in [pc: {"begin", "fetch", "bits", "stop"}, msg: AnyByte, cnt: 0..Bits]
      /\ left' \in [Threads -> Int]
  <2>1. left \in [Threads -> Int] /\ Untimed \in Int
    BY <1>2 DEF FrameType, Untimed
  <2> QED
    BY <1>1, <1>2, <2>1 DEF FrameType
<1>4. FrameType'
  BY <1>1, <1>2, <1>3 DEF FrameType
<1>5. Opening' /\ Resting' /\ Starting' /\ Apart' /\ Closing' /\ Read' /\ Places'
  BY <1>1, <1>2, <1>3 DEF FrameInv, Opening, Resting, Starting, Apart, Closing, Read, Places, Flying, Held
<1> QED
  BY <1>4, <1>5 DEF FrameInv

LEMMA FrameOutBegin == ASSUME FrameInv, OutBegin PROVE FrameInv'
<1>1. /\ UNCHANGED <<period, stop, to, in, left, writer, sent, heard>> /\ out.pc = "begin"
      /\ out' = [out EXCEPT !.pc = "fetch"] /\ line' = TRUE
  BY DEF OutBegin, hist
<1>2. in.pc = "rise" /\ FrameType
  BY <1>1 DEF FrameInv, Opening
<1>3. out'.pc = "fetch" /\ out' \in [pc: {"begin", "fetch", "bits", "stop"}, msg: AnyByte, cnt: 0..Bits]
  BY <1>1, <1>2 DEF FrameType
<1>4. FrameType'
  BY <1>1, <1>2, <1>3 DEF FrameType
<1>5. Opening' /\ Resting' /\ Starting' /\ Apart' /\ Closing' /\ Read' /\ Places'
  BY <1>1, <1>2, <1>3 DEF FrameInv, Opening, Resting, Starting, Apart, Closing, Read, Places, Flying, Held
<1> QED
  BY <1>4, <1>5 DEF FrameInv

\* intake
LEMMA FrameInStart == ASSUME FrameInv, InStart PROVE FrameInv'
<1>1. /\ UNCHANGED <<period, stop, to, line, out, writer, sent, heard>> /\ in.pc = "edge" /\ ~line
      /\ in' = [pc |-> "bits", msg |-> {}, cnt |-> 0] /\ left' = [left EXCEPT !["in"] = ToFirstBit]
  BY DEF InStart, Waits, hist
<1>2. FrameType /\ out.pc = "bits"
  BY <1>1 DEF FrameInv, FrameType, Opening, Resting
<1>3. out.cnt = 0 /\ left["out"] = period
  BY <1>1, <1>2 DEF FrameInv, Starting
<1>4. period \in Nat /\ period \div 2 \in Nat /\ ToFirstBit = period + (period \div 2) /\ ToFirstBit \in Nat
  BY <1>2 DEF FrameType, ToFirstBit
<1>5. left' \in [Threads -> Int] /\ left'["out"] = left["out"] /\ left'["in"] = ToFirstBit
  BY <1>1, <1>2, <1>4 DEF FrameType, Threads
<1>6. in' \in [pc: {"rise", "dead", "edge", "bits"}, msg: AnyByte, cnt: 0..Bits]
  BY <1>1, SizeAssumption DEF AnyByte
<1>7. FrameType'
  BY <1>1, <1>2, <1>5, <1>6 DEF FrameType
<1>8. Apart'
  BY <1>1, <1>3, <1>4, <1>5 DEF Apart
<1>9. Read'
  <2>1. out.msg \in SUBSET (0..(Bits - 1))
    BY <1>2 DEF FrameType, AnyByte
  <2>2. {} = {k \in out.msg : k < 0}
    BY <2>1, SizeAssumption
  <2> QED
    BY <1>1, <1>2, <2>2 DEF Read
<1>10. Opening' /\ Resting' /\ Starting' /\ Closing' /\ Places'
  BY <1>1, <1>2 DEF FrameInv, Opening, Resting, Starting, Closing, Places, Flying, Held
<1> QED
  BY <1>7, <1>8, <1>9, <1>10 DEF FrameInv

LEMMA FrameInBit == ASSUME FrameInv, InBit PROVE FrameInv'
<1>1. /\ UNCHANGED <<period, stop, to, line, out, writer, sent, heard>> /\ in.pc = "bits" /\ left["in"] = 0
      /\ in.cnt < Bits /\ left' = [left EXCEPT !["in"] = period]
      /\ in' = [in EXCEPT !.msg = IF line THEN in.msg \cup {in.cnt} ELSE in.msg, !.cnt = in.cnt + 1]
  BY DEF InBit, Waits, Ready, hist
<1>2. FrameType /\ in.cnt \in 0..(Bits - 1) /\ out.msg \in SUBSET (0..(Bits - 1)) /\ out.cnt \in 0..Bits
  BY <1>1, SizeAssumption DEF FrameInv, FrameType, AnyByte
<1>3. period \in Nat /\ period = 2 * (period \div 2) /\ period \div 2 \in Nat /\ period \div 2 > 0
      /\ left["out"] \in Int
  BY <1>2 DEF FrameType, Threads
<1>4. out.pc = "bits"
  BY <1>1, <1>2 DEF FrameInv, Read, Closing
<1>5. in.cnt + 1 = out.cnt /\ left["out"] = period \div 2 /\ line = (in.cnt \in out.msg)
  BY <1>1, <1>3, <1>4 DEF FrameInv, Apart
<1>6. in.msg = {k \in out.msg : k < in.cnt}
  BY <1>1 DEF FrameInv, Read
<1>7. (IF line THEN in.msg \cup {in.cnt} ELSE in.msg) = {k \in out.msg : k < in.cnt + 1}
  <2>1. \A k \in out.msg : k < in.cnt + 1 <=> k < in.cnt \/ k = in.cnt
    BY <1>2
  <2>2. CASE line
    BY <1>2, <1>5, <1>6, <2>1, <2>2
  <2>3. CASE ~line
    BY <1>5, <1>6, <2>1, <2>3
  <2> QED
    BY <2>2, <2>3
<1>8. {k \in out.msg : k < in.cnt + 1} \in AnyByte /\ in.cnt + 1 \in 0..Bits
  BY <1>2, SizeAssumption DEF AnyByte
<1>9. /\ in'.pc = "bits" /\ in'.cnt = in.cnt + 1 /\ in'.msg = {k \in out.msg : k < in.cnt + 1}
      /\ in' \in [pc: {"rise", "dead", "edge", "bits"}, msg: AnyByte, cnt: 0..Bits]
  BY <1>1, <1>2, <1>7, <1>8 DEF FrameType
<1>10. left' \in [Threads -> Int] /\ left'["out"] = left["out"] /\ left'["in"] = period
  BY <1>1, <1>2, <1>3 DEF FrameType, Threads
<1>11. FrameType'
  BY <1>1, <1>2, <1>9, <1>10 DEF FrameType
<1>12. Apart'
  BY <1>1, <1>3, <1>5, <1>9, <1>10 DEF Apart
<1>13. Read'
  BY <1>1, <1>4, <1>9 DEF Read
<1>14. Opening' /\ Resting' /\ Starting' /\ Closing' /\ Places'
  BY <1>1, <1>4, <1>9 DEF FrameInv, Opening, Resting, Starting, Closing, Places, Flying, Held
<1> QED
  BY <1>11, <1>12, <1>13, <1>14 DEF FrameInv

LEMMA FrameInByte == ASSUME FrameInv, InByte PROVE FrameInv'
<1>1. /\ UNCHANGED <<period, stop, to, line, out, writer, sent>> /\ in.pc = "bits" /\ left["in"] = 0
      /\ in.cnt = Bits /\ left' = [left EXCEPT !["in"] = Untimed] /\ in' = [in EXCEPT !.pc = "edge"]
      /\ heard' = Append(heard, in.msg)
  BY DEF InByte, Waits, Ready
<1>2. FrameType /\ out.msg \in SUBSET (0..(Bits - 1)) /\ Bits \in Nat /\ heard \in Seq(AnyByte) /\ to \in Seq(AnyByte)
  BY <1>1, SizeAssumption DEF FrameInv, FrameType, AnyByte
<1>3. period \in Nat /\ period \div 2 \in Nat /\ period \div 2 > 0 /\ left["out"] \in Int /\ out.cnt \in 0..Bits
  BY <1>2 DEF FrameType, Threads
<1>4. out.pc = "stop" /\ line
  <2>1. out.pc # "bits"
    BY <1>1, <1>2, <1>3 DEF FrameInv, Apart
  <2> QED
    BY <1>1, <2>1 DEF FrameInv, Read, Closing
<1>5. in.msg = out.msg /\ out.msg \in AnyByte
  <2>1. in.msg = {k \in out.msg : k < Bits}
    BY <1>1 DEF FrameInv, Read
  <2> QED
    BY <1>2, <2>1 DEF AnyByte
<1>6. (heard \o <<out.msg>>) \o to = (Append(heard, out.msg) \o <<>>) \o to /\ heard' \in Seq(AnyByte)
  BY <1>1, <1>2, <1>5, GiveAway, AppendProperties
<1>7. in'.pc = "edge" /\ in' \in [pc: {"rise", "dead", "edge", "bits"}, msg: AnyByte, cnt: 0..Bits]
  BY <1>1, <1>2 DEF FrameType
<1>8. left' \in [Threads -> Int]
  <2>1. left \in [Threads -> Int] /\ Untimed \in Int
    BY <1>2 DEF FrameType, Untimed
  <2> QED
    BY <1>1, <2>1
<1>9. Places'
  BY <1>1, <1>4, <1>5, <1>6, <1>7 DEF FrameInv, Places, Flying, Held
<1>10. FrameType'
  BY <1>1, <1>2, <1>6, <1>7, <1>8 DEF FrameType
<1>11. Opening' /\ Resting' /\ Starting' /\ Apart' /\ Closing' /\ Read'
  BY <1>1, <1>4, <1>7 DEF FrameInv, Opening, Resting, Starting, Apart, Closing, Read
<1> QED
  BY <1>9, <1>10, <1>11 DEF FrameInv

LEMMA FrameInOpen == ASSUME FrameInv, InRise \/ InListen PROVE FrameInv'
<1>1. PICK n \in Int : left' = [left EXCEPT !["in"] = n]
  BY TimeAssumption DEF InRise, InListen, Waits, Untimed
<1>2. /\ UNCHANGED <<period, stop, to, line, out, writer, sent, heard>>
      /\ \/ in.pc = "rise" /\ line /\ in' = [in EXCEPT !.pc = "dead"]
         \/ in.pc = "dead" /\ in' = [in EXCEPT !.pc = "edge"]
  BY DEF InRise, InListen, hist
<1>3. FrameType /\ out.pc = "fetch" /\ to = <<>> /\ writer = None
  BY <1>2 DEF FrameInv, Opening
<1>4. in' \in [pc: {"rise", "dead", "edge", "bits"}, msg: AnyByte, cnt: 0..Bits] /\ in'.pc \in {"dead", "edge"}
  BY <1>2, <1>3 DEF FrameType
<1>5. left' \in [Threads -> Int]
  BY <1>1, <1>3 DEF FrameType
<1>6. FrameType'
  BY <1>2, <1>3, <1>4, <1>5 DEF FrameType
<1>7. Opening' /\ Resting' /\ Starting' /\ Apart' /\ Closing' /\ Read' /\ Places'
  BY <1>2, <1>3, <1>4 DEF FrameInv, Opening, Resting, Starting, Apart, Closing, Read, Places, Flying, Held
<1> QED
  BY <1>6, <1>7 DEF FrameInv

\* Time moves to the end of the next wait.
LEMMA TickShortest ==
  ASSUME FrameType, Tick
  PROVE  \E d \in Nat : \A x \in Threads :
           /\ left[x] > 0 => left'[x] = left[x] - d /\ d <= left[x]
           /\ ~(left[x] > 0) => left'[x] = left[x]
<1> DEFINE d == CHOOSE n \in Timed : \A k \in Timed : n <= k
<1>1. left["out"] \in Int /\ left["in"] \in Int /\ left["reader"] \in Int
  BY DEF FrameType, Threads
<1>2. \A n : n \in Timed <=> \/ n = left["out"] /\ left["out"] > 0
                             \/ n = left["in"] /\ left["in"] > 0
                             \/ n = left["reader"] /\ left["reader"] > 0
  BY DEF Timed, Threads
<1>3. Timed # {}
  BY DEF Tick
<1>4. \E n \in Timed : \A k \in Timed : n <= k
  <2>1. PICK m \in Timed : TRUE
    BY <1>3
  <2> QED
    BY <1>1, <1>2, <2>1
<1>5. d \in Timed /\ \A k \in Timed : d <= k
  BY <1>4
<1>6. left' = [x \in Threads |-> IF left[x] > 0 THEN left[x] - d ELSE left[x]]
  BY DEF Tick
<1> HIDE DEF d
<1>7. d \in Nat
  BY <1>1, <1>2, <1>5
<1>8. ASSUME NEW x \in Threads
      PROVE  /\ left[x] > 0 => left'[x] = left[x] - d /\ d <= left[x]
             /\ ~(left[x] > 0) => left'[x] = left[x]
  <2>1. left[x] > 0 => left[x] \in Timed
    BY DEF Timed
  <2> QED
    BY <1>5, <1>6, <2>1
<1> QED
  BY <1>7, <1>8

LEMMA FrameTick == ASSUME FrameInv, Tick PROVE FrameInv'
<1>1. UNCHANGED <<period, stop, to, line, out, in, writer, sent, heard>> /\ Quiet
  BY DEF Tick, hist
<1>2. FrameType /\ left \in [Threads -> Int] /\ DOMAIN left' = Threads
  BY DEF FrameInv, FrameType, Tick
<1>3. PICK d \in Nat : \A x \in Threads :
        /\ left[x] > 0 => left'[x] = left[x] - d /\ d <= left[x]
        /\ ~(left[x] > 0) => left'[x] = left[x]
  BY <1>2, TickShortest
<1>4. left' \in [Threads -> Int]
  BY <1>2, <1>3 DEF Tick
<1>5. left["out"] # 0 /\ left["in"] # 0 /\ left["out"] \in Int /\ left["in"] \in Int
  BY <1>1, <1>2 DEF Quiet, Ready, Threads
<1>6. /\ left["out"] > 0 => left'["out"] = left["out"] - d /\ d <= left["out"]
      /\ left["in"] > 0 => left'["in"] = left["in"] - d /\ d <= left["in"]
  BY <1>3 DEF Threads
<1>7. period \in Nat /\ period \div 2 \in Nat
  BY <1>2 DEF FrameType
<1>8. FrameType'
  BY <1>1, <1>2, <1>4 DEF FrameType
<1>9. Apart'
  BY <1>1, <1>5, <1>6, <1>7 DEF FrameInv, Apart
<1>10. Closing'
  BY <1>1, <1>5, <1>6, <1>7 DEF FrameInv, Closing
<1>11. Starting'
  BY <1>1 DEF FrameInv, Starting, Quiet
<1>12. Opening' /\ Resting' /\ Read' /\ Places'
  BY <1>1 DEF FrameInv, Opening, Resting, Read, Places, Flying, Held
<1> QED
  BY <1>8, <1>9, <1>10, <1>11, <1>12 DEF FrameInv

LEMMA FrameStep == FrameInv /\ [Next]_vars => FrameInv'
<1> SUFFICES ASSUME FrameInv, [Next]_vars PROVE FrameInv'
  OBVIOUS
<1>1. CASE Outtake
  BY <1>1, FrameOutBegin, FrameOutStart, FrameOutBit, FrameOutStop, FrameOutNext DEF Outtake
<1>2. CASE Intake
  BY <1>2, FrameInOpen, FrameInStart, FrameInBit, FrameInByte DEF Intake
<1>3. CASE /\ UNCHANGED <<period, stop, to, line, out, in, writer, sent, heard>>
           /\ left' \in [Threads -> Int] /\ left'["out"] = left["out"] /\ left'["in"] = left["in"]
  <2>1. FrameType' /\ Opening' /\ Resting' /\ Starting'
    BY <1>3 DEF FrameInv, FrameType, Opening, Resting, Starting
  <2>2. Apart' /\ Closing' /\ Read' /\ Places'
    BY <1>3 DEF FrameInv, Apart, Closing, Read, Places, Flying, Held
  <2> QED
    BY <2>1, <2>2 DEF FrameInv
<1>4. left \in [Threads -> Int] /\ Untimed \in Int
  BY DEF FrameInv, FrameType, Untimed
<1>5. ASSUME NEW op, NEW n \in Timeouts \cup {Untimed}, Blocks(op, n) PROVE FrameInv'
  <2>1. left' = [left EXCEPT !["reader"] = n] /\ n \in Int
    BY <1>4, <1>5, TimeAssumption DEF Blocks, Waits
  <2>2. left' \in [Threads -> Int] /\ left'["out"] = left["out"] /\ left'["in"] = left["in"]
    BY <1>4, <2>1 DEF Threads
  <2> QED
    BY <1>3, <1>5, <2>2 DEF Blocks, hist
<1>6. CASE Woken
  <2>1. left' = [left EXCEPT !["reader"] = Untimed]
    BY <1>6 DEF Woken, Waits
  <2>2. left' \in [Threads -> Int] /\ left'["out"] = left["out"] /\ left'["in"] = left["in"]
    BY <1>4, <2>1 DEF Threads
  <2> QED
    BY <1>3, <1>6, <2>2 DEF Woken, hist
<1>7. CASE UNCHANGED <<period, stop, to, line, out, in, writer, left, sent, heard>>
  BY <1>3, <1>4, <1>7
<1>8. CASE Recheck \/ flush \/ \E op \in {"read", "peek"} : Immediate(op)
  BY <1>7, <1>8 DEF Recheck, flush, Immediate, Take, Gives, hist
<1> QED
  BY <1>1, <1>2, <1>5, <1>6, <1>7, <1>8, FrameTick, FrameWrite, FrameWriteDone
    DEF Next, ReaderStep, vars, hist

\* For bytes of any length, every rate, every stop bit and any gaps: every byte that intake
\* assembles is the next byte that was written, since both ends of the line stay half a
\* bit apart from the start bit to the stop bit and intake is listening again before the
\* next start bit.
THEOREM EveryByteFramed == Spec => []FramingExact
<1>1. FrameInv => FramingExact
  <2> SUFFICES ASSUME FrameInv PROVE FramingExact
    OBVIOUS
  <2>1. heard \in Seq(AnyByte) /\ Flying \in Seq(AnyByte) /\ to \in Seq(AnyByte) /\ Held \in Seq(AnyByte)
    BY DEF FrameInv, FrameType, Flying, Held
  <2>2. \A s, t \in Seq(AnyByte) : /\ s \o t \in Seq(AnyByte) /\ Len(s) <= Len(s \o t)
                                   /\ \A k \in 1..Len(s) : (s \o t)[k] = s[k]
    BY ConcatProperties
  <2>3. PICK a \in Seq(AnyByte) : a = heard \o Flying
    BY <2>1, <2>2
  <2>4. PICK b \in Seq(AnyByte) : b = a \o to
    BY <2>1, <2>2
  <2>5. Len(heard) <= Len(a) /\ Len(a) <= Len(b) /\ Len(b) <= Len(sent)
    BY <2>1, <2>2, <2>3, <2>4 DEF FrameInv, Places
  <2>6. /\ \A k \in 1..Len(heard) : a[k] = heard[k]
        /\ \A k \in 1..Len(a) : b[k] = a[k]
        /\ \A k \in 1..Len(b) : sent[k] = b[k]
    BY <2>1, <2>2, <2>3, <2>4 DEF FrameInv, Places
  <2>7. Len(heard) \in Nat /\ Len(a) \in Nat /\ Len(b) \in Nat /\ Len(sent) \in Nat
    BY <2>1, <2>3, <2>4 DEF FrameInv, FrameType
  <2> QED
    BY <2>5, <2>6, <2>7 DEF FramingExact
<1> QED
  BY <1>1, FrameInit, FrameStep, PTL DEF Spec
============================================================================
