---------------------------- MODULE FlashProofs ----------------------------
(***************************************************************************)
(* Theorems about Flash, for any geometry, layout, set of tasks and set of *)
(* requests, the calls that misuse the flash included.                     *)
(*                                                                         *)
(* PortExclusive needs to know, besides itself, that owner and pc have     *)
(* their types.  EraseBeforeWrite needs the fact that is tested once, when *)
(* the command is read, to hold still when the sector is marked, a data    *)
(* message and a timed wait later: ChosenKnown.                            *)
(*                                                                         *)
(* InStep follows from StepInv, which says at every position of the device *)
(* how much of the holder's message has been read, is in the FIFO and is   *)
(* still to be sent.  ErasedIsEmpty needs the arithmetic of addresses:     *)
(* that the pages an erasure clears are those of the sector it marks, for  *)
(* every layout.  LegalNeverStops adds that what is left of a legal call   *)
(* stays legal.                                                            *)
(*                                                                         *)
(* ReadIsExact follows from ReadInv, which says of an answer under way     *)
(* that the words taken, the bytes in the FIFO and the bytes still to be   *)
(* sent are together what the flash holds.                                 *)
(*                                                                         *)
(* That Flash implements FlashSpec follows from FlashInv, all of the above *)
(* and what the device has in hand of the holder's call, with one lemma    *)
(* per action that says which step of FlashSpec it is, if any.             *)
(*                                                                         *)
(* The last part is about FlashSetup.  RangesRight and PagesDistinct       *)
(* follow from SetupInv: the ranges are in order and apart, and the arrays *)
(* have the size that goes with them.  PreloadExact adds the arithmetic of *)
(* a load that is spread over pages.                                       *)
(***************************************************************************)
EXTENDS FlashRefine, SequenceTheorems, WellFoundedInduction, TLAPS

PCs == {"idle", "lock", "send", "words", "status"}

PortType == owner \in Tasks \union {NoTask} /\ pc \in [Tasks -> PCs]

PortInv == PortType /\ PortExclusive

\* Locking, sending, reading and unlocking keep the port with one task.
LEMMA PortStep == PortInv /\ [Next]_vars => PortInv'
<1> SUFFICES ASSUME PortInv, [Next]_vars PROVE PortInv' OBVIOUS
<1> USE TaskAssumption DEF PortInv, PortType, PortExclusive, PCs
<1>1. ASSUME NEW t \in Tasks, Call(t) PROVE PortInv'
  BY <1>1 DEF Call
<1>2. ASSUME NEW t \in Tasks, Lock(t) PROVE PortInv'
  BY <1>2 DEF Lock
<1>3. ASSUME NEW t \in Tasks, Send(t) PROVE PortInv'
  BY <1>3 DEF Send
<1>4. ASSUME NEW t \in Tasks, TakeWord(t) PROVE PortInv'
  BY <1>4 DEF TakeWord
<1>5. ASSUME NEW t \in Tasks, TakeStatus(t) PROVE PortInv'
  <2>1. owner = t /\ owner' = NoTask BY <1>5 DEF TakeStatus
  <2>2. \E s \in {"idle", "lock"} : pc' = [pc EXCEPT ![t] = s]
    BY <1>5 DEF TakeStatus
  <2> QED BY <2>1, <2>2
<1>6. CASE DeviceStep
  <2>1. UNCHANGED <<owner, pc>>
    BY <1>6 DEF DeviceStep, DevCommand, DevErase, DevData, DevProgram,
                DevStore, DevEol, DevRead, DevReply, DevFlood, drv
  <2> QED BY <2>1
<1>7. CASE UNCHANGED vars
  BY <1>7 DEF vars, drv
<1> QED BY <1>1, <1>2, <1>3, <1>4, <1>5, <1>6, <1>7 DEF Next, DriverStep

\* For any number of tasks, whatever the device does, only the holder of
\* flashmutex is sending to the port or reading from it.
THEOREM PortIsExclusive == Spec => []PortExclusive
<1>1. Init => PortInv
  BY TaskAssumption DEF Init, PortInv, PortType, PortExclusive, PCs
<1>2. PortInv => PortExclusive BY DEF PortInv
<1> QED BY <1>1, <1>2, PortStep, PTL DEF Spec

----------------------------------------------------------------------------

\* Between the command and the moment its sector is marked as programmed, the
\* sector that was chosen stays in a known state.
ChosenKnown ==
  /\ secs \in [Sectors -> {"UNK", "ERS", "PROG"}]
  /\ dpc \in {"d", "prog"} => secs[sectorof(cmd.addr)] # "UNK"

\* A driver step leaves the device alone.
LEMMA DriverLeavesDevice ==
  ASSUME NEW t \in Tasks, Call(t) \/ DriverStep(t)
  PROVE  UNCHANGED dev
BY DEF Call, DriverStep, Lock, Send, TakeWord, TakeStatus

\* A write command is accepted only for a sector in a known state, and no step
\* makes a sector unknown again.
LEMMA KnownStep == ChosenKnown /\ [Next]_vars => ChosenKnown'
<1> SUFFICES ASSUME ChosenKnown, [Next]_vars PROVE ChosenKnown' OBVIOUS
<1> USE DEF ChosenKnown
<1>1. CASE DevCommand
  <2>1. secs' = secs BY <1>1 DEF DevCommand
  <2>2. dpc' \in {"d", "prog"} => secs[sectorof(cmd'.addr)] # "UNK"
    <3> DEFINE op == Head(rx)[2]
               addr == IF op = "e" THEN Head(rx)[3] * SecWords ELSE Head(rx)[3]
               n == Head(rx)[4]
    <3>1. CASE DeviceError
      BY <1>1, <3>1 DEF DevCommand, DeviceError
    <3>2. CASE dpc' \in {"erase", "read"}
      BY <3>2
    <3>3. CASE WriteLegal(addr, n) /\ cmd' = [addr |-> addr, size |-> n]
      BY <3>3 DEF WriteLegal
    <3> HIDE DEF op, addr, n
    <3> QED BY <1>1, <3>1, <3>2, <3>3 DEF DevCommand, op, addr, n
  <2>3. sectorof(cmd'.addr) = sectorof(cmd.addr)'
    BY DEF sectorof, rangeof
  <2> QED BY <2>1, <2>2, <2>3
<1>2. CASE DevErase
  BY <1>2 DEF DevErase
<1>3. CASE DevData
  BY <1>3 DEF DevData, sectorof, rangeof
<1>4. CASE DevProgram
  BY <1>4 DEF DevProgram
<1>5. CASE DevStore \/ DevEol \/ DevRead \/ DevReply \/ DevFlood
  <2>1. secs' = secs /\ dpc' \notin {"d", "prog"}
    BY <1>5 DEF DevStore, DevEol, DevRead, DevReply, DevFlood
  <2> QED BY <2>1
<1>6. ASSUME NEW t \in Tasks, Call(t) \/ DriverStep(t) PROVE ChosenKnown'
  <2>1. UNCHANGED dev BY <1>6, DriverLeavesDevice
  <2> QED BY <2>1 DEF dev, sectorof, rangeof
<1>7. CASE UNCHANGED vars
  BY <1>7 DEF vars, dev, sectorof, rangeof
<1> QED BY <1>1, <1>2, <1>3, <1>4, <1>5, <1>6, <1>7 DEF Next, DeviceStep

\* No step of a run that satisfies ChosenKnown programs an unknown sector.
LEMMA StepErasesFirst ==
  ChosenKnown /\ [Next]_vars =>
    [\A s \in Sectors : secs[s] = "UNK" => secs'[s] # "PROG"]_vars
<1> SUFFICES ASSUME ChosenKnown, [Next]_vars, NEW s \in Sectors,
                    secs[s] = "UNK"
             PROVE  secs'[s] # "PROG"
  OBVIOUS
<1> USE DEF ChosenKnown
<1>1. CASE DevProgram
  BY <1>1 DEF DevProgram
<1>2. CASE DevErase
  BY <1>2 DEF DevErase
<1>3. CASE DevCommand \/ DevData \/ DevStore \/ DevEol \/ DevRead \/ DevReply
           \/ DevFlood
  BY <1>3 DEF DevCommand, DevData, DevStore, DevEol, DevRead, DevReply, DevFlood
<1>4. ASSUME NEW t \in Tasks, Call(t) \/ DriverStep(t) PROVE secs' = secs
  BY <1>4, DriverLeavesDevice DEF dev
<1>5. CASE UNCHANGED vars
  BY <1>5 DEF vars, dev
<1> QED BY <1>1, <1>2, <1>3, <1>4, <1>5 DEF Next, DeviceStep

\* For any geometry, layout, tasks and requests, the device programs no sector that is
\* in an unknown state.
THEOREM ErasedBeforeWritten == Spec => EraseBeforeWrite
<1>1. Init => ChosenKnown BY DEF Init, ChosenKnown
<1>2. ChosenKnown /\ [Next]_vars =>
        [dpc # "line" => \A s \in Sectors : secs[s] = "UNK" => secs'[s] # "PROG"]_vars
  BY StepErasesFirst
<1> QED BY <1>1, <1>2, KnownStep, PTL DEF Spec, EraseBeforeWrite

----------------------------------------------------------------------------
(* Driver and device in step.                                              *)

\* A call that has passed the checks of the driver, or what is left of it: whole words,
\* and no write of more than a page.
Sound(r) ==
  /\ r \in [op: {"e", "w", "r"}, addr: Nat, size: Nat \ {0}, data: Seq([1..WordBytes -> 0..255])]
  /\ r.size % WordBytes = 0
  /\ r.op = "w" => r.size <= PageBytes /\ Len(r.data) = sizew(r.size)

\* s is a sequence, whatever it holds.
IsSeq(s) == \E S : s \in Seq(S)

\* How many items of the holder's message the device has read
Used(t) == Len(Message(req[t])) - Len(out[t]) - Len(rx)

\* What is in the FIFO and what is still to be sent is the end of the message.
Stream(t) ==
  /\ \A i \in 1..Len(rx) : rx[i] = Message(req[t])[Used(t) + i]
  /\ \A i \in 1..Len(out[t]) : out[t][i] = Message(req[t])[Used(t) + Len(rx) + i]

EraseStage(t) ==
  \/ Used(t) = 0 /\ dpc = "line" /\ Len(tx) = 0
  \/ Used(t) = 1 /\ dpc = "erase" /\ Len(tx) = 0
  \/ Used(t) = 1 /\ dpc = "line" /\ Len(tx) <= 1

\* The bytes that are under way never exceed what the driver will read.
ReadStage(t) ==
  \/ /\ Len(tx) = 0 /\ need = sizew(Chunk(req[t]))
     /\ \/ Used(t) = 0 /\ dpc = "line"
        \/ Used(t) = 1 /\ dpc = "read" /\ cmd.size = need
  \/ Used(t) = 1 /\ dpc = "reply" /\ Len(tx) + Len(reply) <= need * WordBytes
  \/ Used(t) = 1 /\ dpc = "line" /\ Len(tx) <= need * WordBytes + 1

\* The device counts the data of a write as the driver does.
WriteStage(t) ==
  \/ Used(t) = 0 /\ dpc = "line" /\ Len(tx) = 0 /\ Len(rx) <= 1
  \/ /\ Len(tx) = 0 /\ cmd.size = sizew(req[t].size)
     /\ \/ Used(t) = 1 /\ dpc = "d"
        \/ Used(t) = 2 /\ dpc = "prog"
        \/ /\ dpc = "store" /\ pos \in Nat /\ pos < cmd.size /\ Len(acc) < WordBytes
           /\ Used(t) = 2 + pos * WordBytes + Len(acc)
  \/ Used(t) \in {2 + req[t].size, 3 + req[t].size} /\ dpc = "eol" /\ Len(tx) = 0
  \/ Used(t) = 4 + req[t].size /\ dpc = "line" /\ Len(tx) <= 1

\* What the holder of the mutex has sent, what the device is doing and what is under way
\* belong together.
InTouch(t) ==
  /\ pc[t] = "send" <=> Len(out[t]) > 0
  /\ pc[t] = "words" => need > 0
  /\ pc[t] = "status" => need = 0
  /\ Stream(t)
  /\ req[t].op = "e" => need = 0 /\ EraseStage(t)
  /\ req[t].op = "r" => ReadStage(t)
  /\ req[t].op = "w" => need = 0 /\ WriteStage(t)

FlowType ==
  /\ need \in Nat
  /\ DOMAIN req = Tasks /\ DOMAIN out = Tasks
  /\ IsSeq(rx) /\ IsSeq(tx) /\ \A t \in Tasks : IsSeq(out[t])
  /\ dpc = "reply" => IsSeq(reply)
  /\ dpc = "store" => IsSeq(acc)

Flow ==
  /\ FlowType
  /\ \A t \in Tasks : pc[t] # "idle" => Sound(req[t])
  /\ owner = NoTask => Len(rx) = 0 /\ Len(tx) = 0 /\ dpc = "line"
  /\ owner # NoTask => InTouch(owner)

StepInv ==
  /\ PortInv
  /\ stopped => Aligned /\ RoomToSend
  /\ ~stopped => Flow

LEMMA EmptyFacts == IsSeq(<<>>) /\ Len(<<>>) = 0
  BY DEF IsSeq

LEMMA LenFacts == ASSUME NEW s, IsSeq(s) PROVE Len(s) \in Nat /\ (s = <<>> <=> Len(s) = 0)
<1>1. PICK S : s \in Seq(S)
  BY DEF IsSeq
<1> QED
  BY <1>1

LEMMA AppendFacts ==
  ASSUME NEW s, IsSeq(s), NEW e
  PROVE  /\ IsSeq(Append(s, e)) /\ Len(Append(s, e)) = Len(s) + 1
         /\ \A i \in 1..Len(s) : Append(s, e)[i] = s[i]
         /\ Append(s, e)[Len(s) + 1] = e
<1>1. PICK S : s \in Seq(S)
  BY DEF IsSeq
<1> DEFINE T == S \cup {e}
<1>2. s \in Seq(T) /\ e \in T
  BY <1>1
<1> HIDE DEF T
<1>3. /\ Append(s, e) \in Seq(T) /\ Len(Append(s, e)) = Len(s) + 1
      /\ \A i \in 1..Len(s) : Append(s, e)[i] = s[i]
      /\ Append(s, e)[Len(s) + 1] = e
  BY <1>2
<1> QED
  BY <1>3 DEF IsSeq

LEMMA TailFacts ==
  ASSUME NEW s, IsSeq(s), Len(s) > 0
  PROVE  /\ IsSeq(Tail(s)) /\ Len(Tail(s)) = Len(s) - 1
         /\ \A i \in 1..(Len(s) - 1) : Tail(s)[i] = s[i + 1]
         /\ Head(s) = s[1] /\ Len(s) \in Nat
<1>1. PICK S : s \in Seq(S)
  BY DEF IsSeq
<1>2. /\ Tail(s) \in Seq(S) /\ Len(Tail(s)) = Len(s) - 1
      /\ \A i \in 1..(Len(s) - 1) : Tail(s)[i] = s[i + 1]
      /\ Head(s) = s[1] /\ Len(s) \in Nat
  BY <1>1
<1> QED
  BY <1>2 DEF IsSeq

LEMMA RestFacts ==
  ASSUME NEW s, IsSeq(s), NEW n \in Nat, n <= Len(s)
  PROVE  IsSeq(SubSeq(s, n + 1, Len(s))) /\ Len(SubSeq(s, n + 1, Len(s))) = Len(s) - n
<1>1. PICK S : s \in Seq(S)
  BY DEF IsSeq
<1>2. Len(s) \in Nat /\ \A i \in 1..Len(s) : s[i] \in S
  BY <1>1
<1>3. SubSeq(s, n + 1, Len(s)) \in Seq(S)
  BY <1>1, <1>2
<1>4. Len(SubSeq(s, n + 1, Len(s))) = Len(s) - n
  BY <1>1, <1>2
<1> QED
  BY <1>3, <1>4 DEF IsSeq

\* Sizes in bytes and in words
LEMMA WholeWords ==
  ASSUME NEW size \in Nat, size % WordBytes = 0
  PROVE  sizew(size) \in Nat /\ sizew(size) * WordBytes = size /\ (size > 0 => sizew(size) > 0)
  BY WordAssumption DEF sizew

LEMMA LessWords ==
  ASSUME NEW size \in Nat, size % WordBytes = 0, NEW k \in Nat, size >= k * WordBytes
  PROVE  (size - k * WordBytes) % WordBytes = 0
<1> DEFINE q == sizew(size)
<1>1. q \in Nat /\ size = q * WordBytes
  BY WholeWords
<1> HIDE DEF q
<1>2. size - k * WordBytes = (q - k) * WordBytes /\ q - k \in Int
  BY <1>1, WordAssumption
<1>3. \A m \in Int : (m * WordBytes) % WordBytes = 0
  BY WordAssumption
<1> QED
  BY <1>2, <1>3

\* The bytes of a sequence of words
LEMMA BytesFacts ==
  ASSUME NEW w, Len(w) \in Nat
  PROVE  IsSeq(Bytes(w)) /\ Len(Bytes(w)) = Len(w) * WordBytes
<1> DEFINE n == Len(w) * WordBytes
           T == {Bytes(w)[i] : i \in 1..n}
<1>1. n \in Nat
  BY WordAssumption
<1>2. Bytes(w) \in [1..n -> T]
  BY DEF Bytes
<1>3. Bytes(w) \in Seq(T) /\ Len(Bytes(w)) = n
  BY <1>1, <1>2
<1> QED
  BY <1>3 DEF IsSeq

\* The messages of the driver, item by item
LEMMA ShortMessage ==
  ASSUME NEW r, Sound(r), r.op # "w"
  PROVE  /\ IsSeq(Message(r)) /\ Len(Message(r)) = 1
         /\ Message(r)[1] = <<"cmd", r.op, IF r.op = "e" THEN r.addr \div SecWords ELSE r.addr,
                              IF r.op = "e" THEN 0 ELSE sizew(Chunk(r))>>
<1>1. r.op \in {"e", "r"}
  BY DEF Sound
<1>2. Message(r) = << <<"cmd", r.op, IF r.op = "e" THEN r.addr \div SecWords ELSE r.addr,
                        IF r.op = "e" THEN 0 ELSE sizew(Chunk(r))>> >>
  BY <1>1 DEF Message
<1>3. ASSUME NEW e PROVE IsSeq(<<e>>) /\ Len(<<e>>) = 1 /\ <<e>>[1] = e
  <2>1. <<e>> \in Seq({e})
    OBVIOUS
  <2> QED
    BY <2>1 DEF IsSeq
<1> QED
  BY <1>2, <1>3

LEMMA ConcatFacts ==
  ASSUME NEW s, NEW t, IsSeq(s), IsSeq(t)
  PROVE  /\ IsSeq(s \o t) /\ Len(s \o t) = Len(s) + Len(t)
         /\ \A j \in 1..Len(s) : (s \o t)[j] = s[j]
         /\ \A j \in 1..Len(t) : (s \o t)[Len(s) + j] = t[j]
<1>1. PICK S : s \in Seq(S)
  BY DEF IsSeq
<1>2. PICK T : t \in Seq(T)
  BY DEF IsSeq
<1> DEFINE U == S \cup T
<1>3. s \in Seq(U) /\ t \in Seq(U)
  BY <1>1, <1>2
<1> HIDE DEF U
<1>4. /\ s \o t \in Seq(U) /\ Len(s \o t) = Len(s) + Len(t)
      /\ \A j \in 1..(Len(s) + Len(t)) : (s \o t)[j] = IF j <= Len(s) THEN s[j] ELSE t[j - Len(s)]
  BY <1>3, ConcatProperties
<1>5. Len(s) \in Nat /\ Len(t) \in Nat
  BY LenFacts
<1>6. \A j \in 1..Len(s) : (s \o t)[j] = s[j]
  BY <1>4, <1>5
<1>7. \A j \in 1..Len(t) : (s \o t)[Len(s) + j] = t[j]
  BY <1>4, <1>5
<1> QED
  BY <1>4, <1>6, <1>7 DEF IsSeq

LEMMA LongMessage ==
  ASSUME NEW r, Sound(r), r.op = "w"
  PROVE  /\ IsSeq(Message(r)) /\ Len(Message(r)) = r.size + 4
         /\ Message(r)[1] = <<"cmd", "w", r.addr, sizew(r.size)>>
         /\ Message(r)[2] = <<"d:">>
         /\ \A i \in 1..r.size : Message(r)[2 + i] = <<"byte", Bytes(r.data)[i]>>
         /\ Message(r)[r.size + 3] = <<"byte", CR>> /\ Message(r)[r.size + 4] = <<"byte", LF>>
<1> DEFINE head == << <<"cmd", "w", r.addr, sizew(r.size)>>, <<"d:">> >>
           mid == AsItems(Bytes(r.data))
           last == << <<"byte", CR>>, <<"byte", LF>> >>
           n == r.size
<1>1. Message(r) = (head \o mid) \o last
  BY DEF Message
<1>2. /\ IsSeq(head) /\ Len(head) = 2 /\ head[1] = <<"cmd", "w", r.addr, sizew(r.size)>>
      /\ head[2] = <<"d:">>
  <2>1. ASSUME NEW a, NEW b PROVE IsSeq(<<a, b>>) /\ Len(<<a, b>>) = 2 /\ <<a, b>>[1] = a /\ <<a, b>>[2] = b
    <3>1. <<a, b>> \in Seq({a, b})
      OBVIOUS
    <3> QED
      BY <3>1 DEF IsSeq
  <2> QED
    BY <2>1
<1>3. IsSeq(last) /\ Len(last) = 2 /\ last[1] = <<"byte", CR>> /\ last[2] = <<"byte", LF>>
  <2>1. ASSUME NEW a, NEW b PROVE IsSeq(<<a, b>>) /\ Len(<<a, b>>) = 2 /\ <<a, b>>[1] = a /\ <<a, b>>[2] = b
    <3>1. <<a, b>> \in Seq({a, b})
      OBVIOUS
    <3> QED
      BY <3>1 DEF IsSeq
  <2> QED
    BY <2>1
<1>4. n \in Nat /\ n > 0 /\ n % WordBytes = 0 /\ Len(r.data) = sizew(n)
  BY DEF Sound
<1>5. IsSeq(Bytes(r.data)) /\ Len(Bytes(r.data)) = n
  BY <1>4, WholeWords, BytesFacts
<1>6. IsSeq(mid) /\ Len(mid) = n /\ \A i \in 1..n : mid[i] = <<"byte", Bytes(r.data)[i]>>
  <2>1. DOMAIN Bytes(r.data) = 1..n
    BY <1>5 DEF IsSeq
  <2> DEFINE T == {mid[i] : i \in 1..n}
  <2>2. mid = [i \in 1..n |-> <<"byte", Bytes(r.data)[i]>>]
    BY <2>1 DEF AsItems
  <2>3. mid \in [1..n -> T]
    BY <2>2
  <2> HIDE DEF T, mid, n
  <2>4. mid \in Seq(T) /\ Len(mid) = n
    BY <1>4, <2>3
  <2> QED
    BY <2>2, <2>4 DEF IsSeq
<1> HIDE DEF head, mid, last, n
<1> DEFINE a == head \o mid
<1>7. /\ IsSeq(a) /\ Len(a) = Len(head) + Len(mid)
      /\ \A j \in 1..Len(head) : a[j] = head[j]
      /\ \A j \in 1..Len(mid) : a[Len(head) + j] = mid[j]
  <2>1. IsSeq(head) /\ IsSeq(mid)
    BY <1>2, <1>6
  <2> QED
    BY <2>1, ConcatFacts
<1> HIDE DEF a
<1>8. /\ Len(a) = n + 2 /\ a[1] = head[1] /\ a[2] = head[2]
      /\ \A i \in 1..n : a[2 + i] = mid[i]
  BY <1>2, <1>4, <1>6, <1>7
<1> DEFINE m == a \o last
<1>9. /\ IsSeq(m) /\ Len(m) = Len(a) + Len(last)
      /\ \A j \in 1..Len(a) : m[j] = a[j]
      /\ \A j \in 1..Len(last) : m[Len(a) + j] = last[j]
  <2>1. IsSeq(a) /\ IsSeq(last)
    BY <1>3, <1>7
  <2> QED
    BY <2>1, ConcatFacts
<1>10. Message(r) = m
  BY <1>1 DEF a
<1> HIDE DEF m
<1>11. /\ Len(m) = n + 4 /\ m[1] = head[1] /\ m[2] = head[2]
       /\ \A i \in 1..n : m[2 + i] = mid[i]
  BY <1>3, <1>4, <1>8, <1>9
<1>12. m[n + 3] = last[1] /\ m[n + 4] = last[2]
  <2>1. m[Len(a) + 1] = last[1] /\ m[Len(a) + 2] = last[2]
    BY <1>3, <1>9
  <2>2. Len(a) + 1 = n + 3 /\ Len(a) + 2 = n + 4
    BY <1>4, <1>8
  <2> QED
    BY <2>1, <2>2
<1>13. \A i \in 1..n : m[2 + i] = <<"byte", Bytes(r.data)[i]>>
  BY <1>6, <1>11
<1> QED
  BY <1>2, <1>3, <1>9, <1>10, <1>11, <1>12, <1>13 DEF n

\* The holder of the mutex: its call is sound, and the device is in touch with it.
LEMMA HolderFacts ==
  ASSUME PortInv, Flow, NEW t \in Tasks, owner = t
  PROVE  /\ Sound(req[t]) /\ InTouch(t) /\ pc[t] \in {"send", "words", "status"}
         /\ Len(rx) \in Nat /\ Len(tx) \in Nat /\ Len(out[t]) \in Nat /\ need \in Nat
         /\ Len(Message(req[t])) \in Nat /\ Used(t) \in Int
         /\ Used(t) + Len(rx) + Len(out[t]) = Len(Message(req[t]))
         /\ req[t].op \in {"e", "w", "r"} /\ req[t].size \in Nat /\ req[t].size > 0
<1>1. pc[t] \in {"send", "words", "status"} /\ t # NoTask
  BY TaskAssumption DEF PortInv, PortExclusive
<1>2. Sound(req[t]) /\ InTouch(t)
  BY <1>1 DEF Flow
<1>3. IsSeq(rx) /\ IsSeq(tx) /\ IsSeq(out[t]) /\ need \in Nat
  BY DEF Flow, FlowType
<1>4. Len(rx) \in Nat /\ Len(tx) \in Nat /\ Len(out[t]) \in Nat
  BY <1>3, LenFacts
<1>5. req[t].op \in {"e", "w", "r"} /\ req[t].size \in Nat /\ req[t].size > 0
  BY <1>2 DEF Sound
<1>6. Len(Message(req[t])) \in Nat
  BY <1>2, <1>5, ShortMessage, LongMessage
<1>7. Used(t) \in Int /\ Used(t) + Len(rx) + Len(out[t]) = Len(Message(req[t]))
  BY <1>4, <1>6 DEF Used
<1> QED
  BY <1>1, <1>2, <1>3, <1>4, <1>5, <1>6, <1>7

\* Nobody holds the mutex: the device has nothing to do.
LEMMA FreeFacts ==
  ASSUME PortInv, Flow, owner = NoTask
  PROVE  rx = <<>> /\ tx = <<>> /\ dpc = "line" /\ \A t \in Tasks : pc[t] \in {"idle", "lock"}
<1>1. rx = <<>> /\ tx = <<>> /\ dpc = "line"
  BY LenFacts DEF Flow, FlowType
<1>2. \A t \in Tasks : pc[t] \in {"idle", "lock"}
  BY TaskAssumption DEF PortInv, PortType, PortExclusive, PCs
<1> QED
  BY <1>1, <1>2

\* The arithmetic of a write: words stored, bytes of the next, and bytes in all
LEMMA ByteCount ==
  ASSUME NEW p \in Nat, NEW n \in Nat, p < n, NEW a \in Nat, a < WordBytes
  PROVE  /\ p * WordBytes \in Nat /\ n * WordBytes \in Nat
         /\ p * WordBytes + a < n * WordBytes
         /\ (p + 1) * WordBytes = p * WordBytes + WordBytes
         /\ p + 1 < n => (p + 1) * WordBytes < n * WordBytes
         /\ p + 1 = n => (p + 1) * WordBytes = n * WordBytes
<1>1. WordBytes \in Nat /\ WordBytes > 1
  BY WordAssumption
<1>2. p * WordBytes \in Nat /\ n * WordBytes \in Nat
  BY <1>1
<1>3. (p + 1) * WordBytes = p * WordBytes + WordBytes
  BY <1>1
<1>4. PICK d \in Nat : n = p + 1 + d
  <2>1. n - (p + 1) \in Nat /\ n = p + 1 + (n - (p + 1))
    OBVIOUS
  <2> QED
    BY <2>1
<1>5. n * WordBytes = (p + 1) * WordBytes + d * WordBytes /\ d * WordBytes \in Nat
  BY <1>1, <1>4
<1>6. d > 0 => d * WordBytes > 0
  BY <1>1
<1> QED
  BY <1>1, <1>2, <1>3, <1>4, <1>5, <1>6

\* In the middle of a write, and only there, the device stores.
LEMMA StoreFacts ==
  ASSUME PortInv, Flow, NEW t \in Tasks, owner = t, dpc = "store"
  PROVE  /\ req[t].op = "w" /\ Len(tx) = 0 /\ cmd.size = sizew(req[t].size) /\ cmd.size \in Nat
         /\ pos \in Nat /\ pos < cmd.size /\ Len(acc) \in Nat /\ Len(acc) < WordBytes
         /\ Used(t) = 2 + pos * WordBytes + Len(acc)
         /\ cmd.size * WordBytes = req[t].size
         /\ pos * WordBytes + Len(acc) < req[t].size /\ pos * WordBytes + Len(acc) \in Nat
<1>1. Sound(req[t]) /\ InTouch(t) /\ req[t].op \in {"e", "w", "r"} /\ req[t].size \in Nat /\ req[t].size > 0
  BY HolderFacts
<1>2. /\ req[t].op = "w" /\ Len(tx) = 0 /\ cmd.size = sizew(req[t].size)
      /\ pos \in Nat /\ pos < cmd.size /\ Len(acc) < WordBytes
      /\ Used(t) = 2 + pos * WordBytes + Len(acc)
  BY <1>1 DEF InTouch, EraseStage, ReadStage, WriteStage
<1>3. IsSeq(acc)
  BY DEF Flow, FlowType
<1>4. Len(acc) \in Nat
  BY <1>3, LenFacts
<1>5. req[t].size % WordBytes = 0
  BY <1>1 DEF Sound
<1>6. cmd.size \in Nat /\ cmd.size * WordBytes = req[t].size
  BY <1>1, <1>2, <1>5, WholeWords
<1>7. pos * WordBytes \in Nat /\ pos * WordBytes + Len(acc) < cmd.size * WordBytes
  BY <1>2, <1>4, <1>6, ByteCount
<1> QED
  BY <1>2, <1>4, <1>6, <1>7

\* The next item in the FIFO is the next item of the message.
LEMMA NextItem ==
  ASSUME PortInv, Flow, NEW t \in Tasks, owner = t, rx # <<>>
  PROVE  /\ Len(rx) > 0 /\ Used(t) + 1 <= Len(Message(req[t]))
         /\ Head(rx) = Message(req[t])[Used(t) + 1]
<1>1. Len(rx) > 0
  BY LenFacts DEF Flow, FlowType
<1>2. Head(rx) = rx[1]
  BY <1>1, TailFacts DEF Flow, FlowType
<1>3. Stream(t)
  BY HolderFacts DEF InTouch
<1>4. rx[1] = Message(req[t])[Used(t) + 1]
  <2>1. Len(rx) \in Nat
    BY HolderFacts
  <2>2. 1 \in 1..Len(rx)
    BY <1>1, <2>1
  <2> QED
    BY <1>3, <2>2 DEF Stream
<1> QED
  BY <1>1, <1>2, <1>4, HolderFacts

\* What the device reads next is what it expects.
LEMMA FlowAligned == ASSUME PortInv, Flow PROVE Aligned
<1> SUFFICES ASSUME rx # <<>>, dpc \in {"line", "d", "store"}
             PROVE  Head(rx)[1] = IF dpc = "line" THEN "cmd" ELSE IF dpc = "d" THEN "d:" ELSE "byte"
  BY DEF Aligned
<1>1. PICK t \in Tasks : owner = t
  BY FreeFacts DEF PortInv, PortType
<1> DEFINE u == Used(t)
           m == Message(req[t])
<1>2. Len(rx) > 0 /\ u + 1 <= Len(m) /\ Head(rx) = m[u + 1]
  BY <1>1, NextItem
<1>3. Sound(req[t]) /\ InTouch(t) /\ u \in Int /\ Len(m) \in Nat
  BY <1>1, HolderFacts
<1> HIDE DEF u, m
<1>4. CASE req[t].op # "w"
  <2>1. Len(m) = 1 /\ m[1][1] = "cmd"
    BY <1>3, <1>4, ShortMessage DEF m
  <2>2. u = 0 /\ dpc = "line"
    <3>1. u <= 0
      BY <1>2, <1>3, <2>1
    <3>2. (u = 0 /\ dpc = "line") \/ u = 1
      BY <1>3, <1>4, HolderFacts, <1>1 DEF InTouch, EraseStage, ReadStage, u
    <3> QED
      BY <3>1, <3>2
  <2> QED
    BY <1>2, <2>1, <2>2
<1>5. CASE req[t].op = "w"
  <2>1. /\ Len(m) = req[t].size + 4 /\ m[1][1] = "cmd" /\ m[2][1] = "d:"
        /\ \A i \in 1..req[t].size : m[2 + i][1] = "byte"
    BY <1>3, <1>5, LongMessage DEF m
  <2>2. CASE dpc = "store"
    <3>1. u = 2 + pos * WordBytes + Len(acc) /\ pos * WordBytes + Len(acc) < req[t].size
          /\ pos * WordBytes + Len(acc) \in Nat /\ req[t].size \in Nat
      BY <1>1, <2>2, StoreFacts, HolderFacts DEF u
    <3> DEFINE i == pos * WordBytes + Len(acc)
    <3>2. i \in Nat /\ i < req[t].size
      BY <3>1
    <3>3. u = 2 + i
      <4>1. pos * WordBytes \in Int /\ Len(acc) \in Int
        BY <1>1, <2>2, StoreFacts, WordAssumption
      <4> QED
        BY <3>1, <4>1
    <3> HIDE DEF i
    <3>4. i + 1 \in 1..req[t].size /\ u + 1 = 2 + (i + 1)
      BY <3>1, <3>2, <3>3
    <3>5. m[2 + (i + 1)][1] = "byte"
      BY <2>1, <3>4
    <3> QED
      BY <1>2, <2>2, <3>4, <3>5
  <2>3. CASE dpc = "line"
    <3>1. u = 0 \/ u = 4 + req[t].size
      BY <1>3, <1>5, <2>3 DEF InTouch, WriteStage, u
    <3>2. u = 0
      BY <1>1, <1>2, <2>1, <3>1, HolderFacts
    <3> QED
      BY <1>2, <2>1, <2>3, <3>2
  <2>4. CASE dpc = "d"
    <3>1. u = 1
      BY <1>3, <1>5, <2>4 DEF InTouch, WriteStage, u
    <3> QED
      BY <1>2, <2>1, <2>4, <3>1
  <2> QED
    BY <2>2, <2>3, <2>4
<1> QED
  BY <1>4, <1>5

\* There is room for every item when it is sent.
LEMMA FlowRoom == ASSUME PortInv, Flow PROVE RoomToSend
<1> SUFFICES ASSUME NEW t \in Tasks, pc[t] = "send", ~DeviceRuns PROVE Len(rx) < RxCap
  BY DEF RoomToSend
<1>1. owner = t
  BY DEF PortInv, PortExclusive
<1>2. PageBytes \in Nat /\ RxCap = PageBytes + 4
  BY WordAssumption, GeomAssumption DEF PageBytes, RxCap
<1>3. CASE rx = <<>>
  BY <1>2, <1>3, EmptyFacts
<1>4. CASE rx # <<>>
  <2> DEFINE u == Used(t)
             m == Message(req[t])
  <2>1. /\ Sound(req[t]) /\ InTouch(t) /\ u \in Int /\ Len(m) \in Nat /\ Len(rx) \in Nat
        /\ Len(out[t]) \in Nat /\ u + Len(rx) + Len(out[t]) = Len(m)
        /\ req[t].op \in {"e", "w", "r"} /\ req[t].size \in Nat
    BY <1>1, HolderFacts
  <2>2. Len(rx) > 0 /\ Len(out[t]) > 0
    BY <1>1, <1>4, <2>1, NextItem DEF InTouch
  <2>3. dpc \notin {"line", "d", "store", "eol"}
    BY <1>4 DEF DeviceRuns
  <2> DEFINE lo == Len(out[t])
             lm == Len(m)
             size == req[t].size
  <2>4. u \in Int /\ lm \in Nat /\ Len(rx) \in Nat /\ lo \in Nat /\ u + Len(rx) + lo = lm
        /\ Len(rx) > 0 /\ lo > 0 /\ size \in Nat
    BY <2>1, <2>2
  <2> HIDE DEF u, m, lo, lm, size
  <2>5. CASE req[t].op # "w"
    <3>1. lm = 1
      BY <2>1, <2>5, ShortMessage DEF m, lm
    <3>2. u = 1
      BY <2>1, <2>3, <2>5 DEF InTouch, EraseStage, ReadStage, u
    <3> QED
      BY <2>4, <3>1, <3>2
  <2>6. CASE req[t].op = "w"
    <3>1. lm = size + 4
      BY <2>1, <2>6, LongMessage DEF m, lm, size
    <3>2. u = 2
      BY <2>1, <2>3, <2>6 DEF InTouch, WriteStage, u
    <3>3. size <= PageBytes
      BY <2>1, <2>6 DEF Sound, size
    <3> QED
      BY <1>2, <2>4, <3>1, <3>2, <3>3
  <2> QED
    BY <2>5, <2>6
<1> QED
  BY <1>3, <1>4

\* The device reads an item, or does not.
LEMMA UsedSame ==
  ASSUME PortInv, Flow, NEW t \in Tasks, owner = t, UNCHANGED <<rx, out, req>>
  PROVE  Used(t)' = Used(t) /\ Stream(t)' /\ IsSeq(rx')
<1>1. Stream(t) /\ IsSeq(rx)
  BY HolderFacts DEF InTouch, Flow, FlowType
<1> QED
  BY <1>1 DEF Used, Stream

LEMMA UsedNext ==
  ASSUME PortInv, Flow, NEW t \in Tasks, owner = t, rx # <<>>, rx' = Tail(rx), UNCHANGED <<out, req>>
  PROVE  /\ Used(t)' = Used(t) + 1 /\ Stream(t)' /\ IsSeq(rx')
         /\ Len(rx') = Len(rx) - 1
<1> DEFINE u == Used(t)
           m == Message(req[t])
           o == out[t]
<1>1. /\ IsSeq(rx') /\ Len(rx') = Len(rx) - 1 /\ Len(rx) > 0
      /\ \A i \in 1..(Len(rx) - 1) : rx'[i] = rx[i + 1]
  BY NextItem, TailFacts DEF Flow, FlowType
<1>2. Len(rx) \in Nat /\ Len(o) \in Nat /\ u \in Int /\ Len(m) \in Nat
  BY HolderFacts
<1>3. Used(t)' = u + 1
  BY <1>1, <1>2 DEF Used
<1>4. /\ \A i \in 1..Len(rx) : rx[i] = m[u + i]
      /\ \A i \in 1..Len(o) : o[i] = m[u + Len(rx) + i]
  BY HolderFacts DEF InTouch, Stream
<1> HIDE DEF u, m, o
<1>5. ASSUME NEW i \in 1..Len(rx') PROVE rx'[i] = m[u + 1 + i]
  <2>1. i \in 1..(Len(rx) - 1) /\ i + 1 \in 1..Len(rx) /\ u + (i + 1) = u + 1 + i
    BY <1>1, <1>2
  <2> QED
    BY <1>1, <1>4, <2>1
<1>6. ASSUME NEW i \in 1..Len(o) PROVE o[i] = m[u + 1 + Len(rx') + i]
  <2>1. u + 1 + Len(rx') + i = u + Len(rx) + i
    BY <1>1, <1>2
  <2> QED
    BY <1>4, <2>1
<1>7. Stream(t)'
  BY <1>3, <1>5, <1>6 DEF Stream, m, o
<1> QED
  BY <1>1, <1>3, <1>7 DEF u

\* A byte goes to the board, or is dropped.
LEMMA AnswerFacts ==
  ASSUME IsSeq(tx), NEW b, Answer(b)
  PROVE  IsSeq(tx') /\ Len(tx') \in Nat /\ Len(tx') <= Len(tx) + 1
<1>1. tx' = tx \/ tx' = Append(tx, b)
  BY DEF Answer
<1>2. Len(tx) \in Nat
  BY LenFacts
<1>3. IsSeq(Append(tx, b)) /\ Len(Append(tx, b)) = Len(tx) + 1
  BY AppendFacts
<1>4. CASE tx' = tx
  BY <1>2, <1>4
<1>5. CASE tx' = Append(tx, b)
  BY <1>2, <1>3, <1>5
<1> QED
  BY <1>1, <1>4, <1>5

\* A step of the device keeps Flow if it keeps what concerns the holder of the mutex.
LEMMA DeviceFlow ==
  ASSUME PortInv, Flow, NEW t \in Tasks, owner = t, UNCHANGED drv,
         IsSeq(rx'), IsSeq(tx'), dpc' = "reply" => IsSeq(reply'), dpc' = "store" => IsSeq(acc'),
         Stream(t)',
         req[t].op = "e" => EraseStage(t)', req[t].op = "r" => ReadStage(t)',
         req[t].op = "w" => WriteStage(t)'
  PROVE  Flow'
<1>1. InTouch(t) /\ t # NoTask
  BY HolderFacts, TaskAssumption
<1>2. UNCHANGED <<owner, pc, req, out, need>>
  BY DEF drv
<1>3. InTouch(t)'
  BY <1>1, <1>2 DEF InTouch
<1>4. FlowType'
  BY <1>2 DEF Flow, FlowType
<1>5. \A x \in Tasks : pc'[x] # "idle" => Sound(req'[x])
  BY <1>2 DEF Flow
<1>6. (\A x \in Tasks : pc[x] # "idle" => Sound(req[x]))'
  BY <1>5 DEF Sound
<1>7. InTouch(owner)'
  BY <1>2, <1>3
<1> QED
  BY <1>1, <1>2, <1>4, <1>6, <1>7 DEF Flow

\* The command line
LEMMA FlowCommand == ASSUME PortInv, Flow, ~stopped, DevCommand PROVE StepInv'
<1>1. PICK t \in Tasks : owner = t
  BY FreeFacts DEF PortInv, PortType, DevCommand
<1> DEFINE u == Used(t)
           m == Message(req[t])
<1>2. dpc = "line" /\ rx # <<>> /\ rx' = Tail(rx) /\ UNCHANGED <<drv, reply, acc>>
  BY DEF DevCommand
<1>3. UNCHANGED <<owner, pc, out, req>>
  BY <1>2 DEF drv
<1>4. Len(rx) > 0 /\ u + 1 <= Len(m) /\ Head(rx) = m[u + 1] /\ Len(rx) \in Nat
  BY <1>1, <1>2, NextItem, HolderFacts
<1>5. Used(t)' = u + 1 /\ Stream(t)' /\ IsSeq(rx') /\ Len(rx') = Len(rx) - 1
  BY <1>1, <1>2, <1>3, UsedNext
<1>6. Sound(req[t]) /\ InTouch(t) /\ req[t].op \in {"e", "w", "r"} /\ req[t].size \in Nat /\ IsSeq(tx)
      /\ u \in Int /\ Len(m) \in Nat
  BY <1>1, HolderFacts DEF Flow, FlowType
<1>7. /\ u = 0 /\ Len(tx) = 0 /\ Len(rx) <= 1 /\ m[1][2] = req[t].op
      /\ req[t].op = "r" => m[1][4] = need
      /\ req[t].op = "w" => m[1][4] = sizew(req[t].size)
  <2>1. CASE req[t].op = "e"
    <3>1. Len(m) = 1 /\ m[1][2] = "e"
      BY <1>6, <2>1, ShortMessage
    <3>2. u = 0 /\ Len(tx) = 0
      BY <1>2, <1>4, <1>6, <2>1, <3>1 DEF InTouch, EraseStage
    <3>3. Len(rx) <= 1
      <4>1. Len(out[t]) \in Nat /\ u + Len(rx) + Len(out[t]) = Len(m)
        BY <1>1, HolderFacts
      <4> HIDE DEF u, m
      <4> QED
        BY <1>4, <3>1, <3>2, <4>1
    <3> QED
      BY <2>1, <3>1, <3>2, <3>3
  <2>2. CASE req[t].op = "r"
    <3>1. Len(m) = 1 /\ m[1][2] = "r" /\ m[1][4] = sizew(Chunk(req[t]))
      BY <1>6, <2>2, ShortMessage
    <3>2. u = 0 /\ Len(tx) = 0 /\ need = sizew(Chunk(req[t]))
      BY <1>2, <1>4, <1>6, <2>2, <3>1 DEF InTouch, ReadStage
    <3>3. Len(rx) <= 1
      <4>1. Len(out[t]) \in Nat /\ u + Len(rx) + Len(out[t]) = Len(m)
        BY <1>1, HolderFacts
      <4> HIDE DEF u, m
      <4> QED
        BY <1>4, <3>1, <3>2, <4>1
    <3> QED
      BY <2>2, <3>1, <3>2, <3>3
  <2>3. CASE req[t].op = "w"
    <3>1. Len(m) = req[t].size + 4 /\ m[1][2] = "w" /\ m[1][4] = sizew(req[t].size)
      BY <1>6, <2>3, LongMessage
    <3>2. u = 0 /\ Len(tx) = 0 /\ Len(rx) <= 1
      BY <1>2, <1>4, <1>6, <2>3, <3>1 DEF InTouch, WriteStage
    <3> QED
      BY <2>3, <3>1, <3>2
  <2> QED
    BY <1>6, <2>1, <2>2, <2>3
<1>8. PortInv'
  BY <1>3 DEF PortInv, PortType, PortExclusive
<1>9. CASE DeviceError
  <2>1. stopped' = TRUE /\ rx' = <<>>
    BY <1>4, <1>5, <1>7, <1>9, LenFacts DEF DeviceError
  <2>2. RxCap > 0
    BY WordAssumption, GeomAssumption DEF PageBytes, RxCap
  <2>3. Aligned' /\ RoomToSend'
    BY <2>1, <2>2, EmptyFacts DEF Aligned, RoomToSend, RxCap, PageBytes
  <2> QED
    BY <1>8, <2>1, <2>3 DEF StepInv
<1>10. CASE ~DeviceError
  <2>1. Head(rx)[2] = req[t].op /\ Head(rx)[4] = m[1][4]
    BY <1>4, <1>7
  <2>2. /\ UNCHANGED <<tx, stopped>>
        /\ dpc' = IF req[t].op = "e" THEN "erase" ELSE IF req[t].op = "w" THEN "d" ELSE "read"
        /\ cmd'.size = m[1][4]
    <3> HIDE DEF m
    <3> QED
      BY <1>6, <1>10, <2>1 DEF DevCommand
  <2>3. Used(t)' = 1
    BY <1>5, <1>7
  <2>4. Len(tx') = 0 /\ IsSeq(tx') /\ need' = need /\ req'[t] = req[t]
    BY <1>2, <1>3, <1>6, <1>7, <2>2 DEF drv
  <2>5. req[t].op = "e" => EraseStage(t)'
    BY <2>2, <2>3, <2>4 DEF EraseStage
  <2>6. req[t].op = "r" => ReadStage(t)'
    <3>1. req[t].op = "r" => need = sizew(Chunk(req[t]))
      BY <1>2, <1>4, <1>6, <1>7 DEF InTouch, ReadStage
    <3> QED
      BY <1>7, <2>2, <2>3, <2>4, <3>1 DEF ReadStage
  <2>7. req[t].op = "w" => WriteStage(t)'
    BY <1>7, <2>2, <2>3, <2>4 DEF WriteStage
  <2>8. Flow'
    BY <1>1, <1>2, <1>5, <1>6, <2>2, <2>4, <2>5, <2>6, <2>7, DeviceFlow
  <2> QED
    BY <1>8, <2>2, <2>8 DEF StepInv
<1> QED
  BY <1>9, <1>10

\* The erasure, and the start of a program operation
LEMMA FlowErase == ASSUME PortInv, Flow, DevErase PROVE Flow'
<1>1. PICK t \in Tasks : owner = t
  BY FreeFacts DEF PortInv, PortType, DevErase
<1>2. dpc = "erase" /\ dpc' = "line" /\ Answer(0) /\ UNCHANGED <<drv, rx, out, req>>
  BY DEF DevErase, drv
<1>3. Used(t)' = Used(t) /\ Stream(t)' /\ IsSeq(rx')
  BY <1>1, <1>2, UsedSame
<1>4. InTouch(t) /\ req[t].op \in {"e", "w", "r"} /\ IsSeq(tx)
  BY <1>1, HolderFacts DEF Flow, FlowType
<1>5. req[t].op = "e" /\ Used(t) = 1 /\ Len(tx) = 0
  BY <1>2, <1>4 DEF InTouch, EraseStage, ReadStage, WriteStage
<1>6. IsSeq(tx') /\ Len(tx') <= 1
  BY <1>2, <1>4, <1>5, AnswerFacts
<1>7. EraseStage(t)'
  BY <1>2, <1>3, <1>5, <1>6 DEF EraseStage
<1> QED
  BY <1>1, <1>2, <1>3, <1>5, <1>6, <1>7, DeviceFlow

LEMMA FlowData == ASSUME PortInv, Flow, DevData PROVE Flow'
<1>1. PICK t \in Tasks : owner = t
  BY FreeFacts DEF PortInv, PortType, DevData
<1>2. dpc = "d" /\ dpc' = "prog" /\ rx # <<>> /\ rx' = Tail(rx) /\ UNCHANGED <<drv, out, req, tx, cmd>>
  BY DEF DevData, drv
<1>3. Used(t)' = Used(t) + 1 /\ Stream(t)' /\ IsSeq(rx')
  BY <1>1, <1>2, UsedNext
<1>4. InTouch(t) /\ req[t].op \in {"e", "w", "r"} /\ IsSeq(tx)
  BY <1>1, HolderFacts DEF Flow, FlowType
<1>5. req[t].op = "w" /\ Used(t) = 1 /\ Len(tx) = 0 /\ cmd.size = sizew(req[t].size)
  BY <1>2, <1>4 DEF InTouch, EraseStage, ReadStage, WriteStage
<1>6. WriteStage(t)'
  BY <1>2, <1>3, <1>5 DEF WriteStage
<1> QED
  BY <1>1, <1>2, <1>3, <1>4, <1>5, <1>6, DeviceFlow

LEMMA FlowProgram == ASSUME PortInv, Flow, DevProgram PROVE Flow'
<1>1. PICK t \in Tasks : owner = t
  BY FreeFacts DEF PortInv, PortType, DevProgram
<1>2. /\ dpc = "prog" /\ dpc' = "store" /\ pos' = 0 /\ acc' = <<>>
      /\ UNCHANGED <<drv, rx, out, req, tx, cmd>>
  BY DEF DevProgram, drv
<1>3. Used(t)' = Used(t) /\ Stream(t)' /\ IsSeq(rx')
  BY <1>1, <1>2, UsedSame
<1>4. /\ InTouch(t) /\ req[t].op \in {"e", "w", "r"} /\ IsSeq(tx) /\ Sound(req[t])
      /\ req[t].size \in Nat /\ req[t].size > 0
  BY <1>1, HolderFacts DEF Flow, FlowType
<1>5. req[t].op = "w" /\ Used(t) = 2 /\ Len(tx) = 0 /\ cmd.size = sizew(req[t].size)
  BY <1>2, <1>4 DEF InTouch, EraseStage, ReadStage, WriteStage
<1>6. cmd.size \in Nat /\ cmd.size > 0
  BY <1>4, <1>5, WholeWords DEF Sound
<1>7. IsSeq(acc') /\ Len(acc') = 0 /\ Len(acc') < WordBytes
  BY <1>2, EmptyFacts, WordAssumption
<1>8. Used(t)' = 2 + pos' * WordBytes + Len(acc')
  BY <1>2, <1>3, <1>5, <1>7, WordAssumption
<1>9. WriteStage(t)'
  BY <1>2, <1>5, <1>6, <1>7, <1>8 DEF WriteStage
<1> QED
  BY <1>1, <1>2, <1>3, <1>4, <1>5, <1>7, <1>9, DeviceFlow

\* A byte of data
LEMMA FlowStore == ASSUME PortInv, Flow, DevStore PROVE Flow'
<1>1. PICK t \in Tasks : owner = t
  BY FreeFacts DEF PortInv, PortType, DevStore
<1> DEFINE word == Append(acc, Head(rx)[2])
<1>2. dpc = "store" /\ rx # <<>> /\ rx' = Tail(rx) /\ UNCHANGED <<drv, out, req, tx, cmd>>
  BY DEF DevStore, drv
<1>3. Used(t)' = Used(t) + 1 /\ Stream(t)' /\ IsSeq(rx')
  BY <1>1, <1>2, UsedNext
<1>4. IsSeq(tx) /\ IsSeq(acc) /\ req[t].size \in Nat
  BY <1>1, <1>2, HolderFacts DEF Flow, FlowType
<1>5. /\ req[t].op = "w" /\ Len(tx) = 0 /\ cmd.size = sizew(req[t].size) /\ cmd.size \in Nat
      /\ pos \in Nat /\ pos < cmd.size /\ Len(acc) \in Nat /\ Len(acc) < WordBytes
      /\ Used(t) = 2 + pos * WordBytes + Len(acc)
      /\ cmd.size * WordBytes = req[t].size
  BY <1>1, <1>2, StoreFacts
<1>6. IsSeq(word) /\ Len(word) = Len(acc) + 1
  BY <1>4, AppendFacts
<1>7. /\ pos * WordBytes \in Nat /\ (pos + 1) * WordBytes = pos * WordBytes + WordBytes
      /\ pos + 1 = cmd.size => (pos + 1) * WordBytes = cmd.size * WordBytes
  BY <1>5, ByteCount
<1> HIDE DEF word
<1>8. CASE Len(word) < WordBytes
  <2>1. acc' = word /\ UNCHANGED <<pos, dpc>>
    BY <1>8 DEF DevStore, word
  <2>2. Used(t)' = 2 + pos' * WordBytes + Len(acc')
    BY <1>3, <1>5, <1>6, <1>7, <2>1
  <2>3. WriteStage(t)'
    BY <1>2, <1>5, <1>8, <2>1, <2>2 DEF WriteStage
  <2> QED
    BY <1>1, <1>2, <1>3, <1>4, <1>5, <1>6, <2>1, <2>3, DeviceFlow
<1>9. CASE ~(Len(word) < WordBytes)
  <2>1. acc' = <<>> /\ pos' = pos + 1 /\ dpc' = IF pos + 1 = cmd.size THEN "eol" ELSE "store"
    BY <1>9 DEF DevStore, word
  <2>2. Len(acc) + 1 = WordBytes
    BY <1>5, <1>6, <1>9, WordAssumption
  <2>3. IsSeq(acc') /\ Len(acc') = 0 /\ Len(acc') < WordBytes
    BY <2>1, EmptyFacts, WordAssumption
  <2>4. Used(t)' = 2 + (pos + 1) * WordBytes
    BY <1>3, <1>5, <1>7, <2>2
  <2>5. CASE pos + 1 = cmd.size
    <3>1. Used(t)' = 2 + req[t].size /\ dpc' = "eol"
      BY <1>5, <1>7, <2>1, <2>4, <2>5
    <3>2. WriteStage(t)'
      BY <1>2, <1>5, <3>1 DEF WriteStage
    <3> QED
      BY <1>1, <1>2, <1>3, <1>4, <1>5, <3>1, <3>2, DeviceFlow
  <2>6. CASE pos + 1 # cmd.size
    <3>1. pos' \in Nat /\ pos' < cmd.size /\ dpc' = "store"
      BY <1>5, <2>1, <2>6
    <3>2. (pos + 1) * WordBytes \in Nat
      BY <1>7, WordAssumption
    <3>3. Used(t)' = 2 + pos' * WordBytes + Len(acc')
      BY <2>1, <2>3, <2>4, <3>2
    <3>4. WriteStage(t)'
      BY <1>2, <1>5, <2>3, <3>1, <3>3 DEF WriteStage
    <3> QED
      BY <1>1, <1>2, <1>3, <1>4, <1>5, <2>3, <3>1, <3>4, DeviceFlow
  <2> QED
    BY <2>5, <2>6
<1> QED
  BY <1>8, <1>9

\* The end of the data message
LEMMA FlowEol == ASSUME PortInv, Flow, DevEol PROVE Flow'
<1>1. PICK t \in Tasks : owner = t
  BY FreeFacts DEF PortInv, PortType, DevEol
<1> DEFINE u == Used(t)
           size == req[t].size
<1>2. dpc = "eol" /\ rx # <<>> /\ rx' = Tail(rx) /\ UNCHANGED <<drv, out, req, cmd>>
  BY DEF DevEol, drv
<1>3. Used(t)' = u + 1 /\ Stream(t)' /\ IsSeq(rx')
  BY <1>1, <1>2, UsedNext
<1>4. /\ InTouch(t) /\ req[t].op \in {"e", "w", "r"} /\ IsSeq(tx) /\ Sound(req[t]) /\ size \in Nat
      /\ u \in Int
  BY <1>1, HolderFacts DEF Flow, FlowType
<1>5. req[t].op = "w" /\ u \in {2 + size, 3 + size} /\ Len(tx) = 0
  BY <1>2, <1>4 DEF InTouch, EraseStage, ReadStage, WriteStage
<1>6. Head(rx) = Message(req[t])[u + 1]
  BY <1>1, <1>2, NextItem
<1>7. Message(req[t])[size + 3] = <<"byte", CR>> /\ Message(req[t])[size + 4] = <<"byte", LF>>
  BY <1>4, <1>5, LongMessage
<1> HIDE DEF u, size
<1>8. CASE u = 2 + size
  <2>1. u + 1 = size + 3
    BY <1>4, <1>8
  <2>2. Head(rx) = <<"byte", CR>>
    BY <1>6, <1>7, <2>1
  <2>3. Head(rx) # <<"byte", LF>>
    BY <2>2 DEF CR, LF
  <2>4. UNCHANGED <<dpc, tx>>
    BY <2>3 DEF DevEol
  <2>5. Used(t)' = 3 + size
    BY <1>3, <1>4, <1>8
  <2>6. WriteStage(t)'
    BY <1>2, <1>5, <2>4, <2>5 DEF WriteStage, size
  <2> QED
    BY <1>1, <1>2, <1>3, <1>4, <1>5, <2>4, <2>6, DeviceFlow
<1>9. CASE u = 3 + size
  <2>1. u + 1 = size + 4
    BY <1>4, <1>9
  <2>2. Head(rx) = <<"byte", LF>>
    BY <1>6, <1>7, <2>1
  <2>3. dpc' = "line" /\ Answer(0)
    BY <2>2 DEF DevEol
  <2>4. IsSeq(tx') /\ Len(tx') <= 1
    BY <1>4, <1>5, <2>3, AnswerFacts
  <2>5. Used(t)' = 4 + size
    BY <1>3, <1>4, <1>9
  <2>6. WriteStage(t)'
    BY <1>2, <1>5, <2>3, <2>4, <2>5 DEF WriteStage, size
  <2> QED
    BY <1>1, <1>2, <1>3, <1>4, <1>5, <2>3, <2>4, <2>6, DeviceFlow
<1> QED
  BY <1>5, <1>8, <1>9

\* What a read asks for: whole words, and at least one
LEMMA ChunkFacts ==
  ASSUME NEW r, Sound(r), r.op = "r"
  PROVE  /\ Chunk(r) \in Nat /\ Chunk(r) > 0 /\ Chunk(r) % WordBytes = 0 /\ Chunk(r) <= r.size
         /\ sizew(Chunk(r)) \in Nat /\ sizew(Chunk(r)) > 0
         /\ r.size > Chunk(r) => Chunk(r) = PageWords * WordBytes
<1>1. r.size \in Nat /\ r.size > 0 /\ r.size % WordBytes = 0
  BY DEF Sound
<1>2. PageBytes \in Nat /\ PageBytes > 0 /\ PageBytes % WordBytes = 0 /\ PageBytes = PageWords * WordBytes
  BY WordAssumption, GeomAssumption DEF PageBytes
<1>3. /\ Chunk(r) \in Nat /\ Chunk(r) > 0 /\ Chunk(r) % WordBytes = 0 /\ Chunk(r) <= r.size
      /\ r.size > Chunk(r) => Chunk(r) = PageWords * WordBytes
  BY <1>1, <1>2 DEF Chunk
<1> QED
  BY <1>3, WholeWords

LEMMA FlowRead == ASSUME PortInv, Flow, DevRead PROVE Flow'
<1>1. PICK t \in Tasks : owner = t
  BY FreeFacts DEF PortInv, PortType, DevRead
<1>2. dpc = "read" /\ UNCHANGED <<drv, rx, out, req, tx>>
  BY DEF DevRead, drv
<1>3. Used(t)' = Used(t) /\ Stream(t)' /\ IsSeq(rx')
  BY <1>1, <1>2, UsedSame
<1>4. InTouch(t) /\ req[t].op \in {"e", "w", "r"} /\ IsSeq(tx) /\ Sound(req[t])
  BY <1>1, HolderFacts DEF Flow, FlowType
<1>5. req[t].op = "r" /\ Used(t) = 1 /\ Len(tx) = 0 /\ cmd.size = need /\ need = sizew(Chunk(req[t]))
  BY <1>2, <1>4 DEF InTouch, EraseStage, ReadStage, WriteStage
<1>6. cmd.size \in Nat /\ cmd.size > 0
  BY <1>4, <1>5, ChunkFacts
<1>7. dpc' = "reply" /\ ~Endless
  BY <1>6 DEF DevRead, Endless
<1>8. IsSeq(reply') /\ Len(reply') = cmd.size * WordBytes
  <2>1. ASSUME NEW w, NEW n \in Nat, n = cmd.size, w = [i \in 1..n |-> w[i]]
        PROVE  IsSeq(Bytes(w)) /\ Len(Bytes(w)) = cmd.size * WordBytes
    <3>1. w \in Seq({w[i] : i \in 1..n}) /\ Len(w) = n
      BY <2>1
    <3> QED
      BY <2>1, <3>1, BytesFacts
  <2>2. CASE \E w \in [1..cmd.size -> Junk] : reply' = Bytes(w)
    BY <1>6, <2>1, <2>2
  <2>3. CASE reply' = Bytes(Fill(BlankWord, cmd.size))
    BY <1>6, <2>1, <2>3 DEF Fill
  <2>4. CASE reply' = Bytes(Stored(cmd.addr, cmd.size))
    BY <1>6, <2>1, <2>4 DEF Stored
  <2> QED
    BY <1>7, <2>2, <2>3, <2>4 DEF DevRead
<1>9. Len(tx') + Len(reply') <= need' * WordBytes
  BY <1>2, <1>5, <1>6, <1>8, WordAssumption DEF drv
<1>10. ReadStage(t)'
  BY <1>3, <1>5, <1>7, <1>9 DEF ReadStage
<1> QED
  BY <1>1, <1>2, <1>3, <1>4, <1>5, <1>7, <1>8, <1>10, DeviceFlow

LEMMA FlowReply == ASSUME PortInv, Flow, DevReply PROVE Flow'
<1>1. PICK t \in Tasks : owner = t
  BY FreeFacts DEF PortInv, PortType, DevReply
<1>2. dpc = "reply" /\ UNCHANGED <<drv, rx, out, req, need>>
  BY DEF DevReply, drv
<1>3. Used(t)' = Used(t) /\ Stream(t)' /\ IsSeq(rx')
  BY <1>1, <1>2, UsedSame
<1>4. InTouch(t) /\ req[t].op \in {"e", "w", "r"} /\ IsSeq(tx) /\ IsSeq(reply) /\ need \in Nat
  BY <1>1, <1>2, HolderFacts DEF Flow, FlowType
<1>5. req[t].op = "r" /\ Used(t) = 1 /\ Len(tx) + Len(reply) <= need * WordBytes
  BY <1>2, <1>4 DEF InTouch, EraseStage, ReadStage, WriteStage
<1>6. Len(tx) \in Nat /\ Len(reply) \in Nat /\ need * WordBytes \in Nat
  BY <1>4, LenFacts, WordAssumption
<1>7. CASE reply # <<>>
  <2>1. Answer(Head(reply)) /\ reply' = Tail(reply) /\ dpc' = "reply"
    BY <1>2, <1>7 DEF DevReply
  <2>2. IsSeq(tx') /\ Len(tx') \in Nat /\ Len(tx') <= Len(tx) + 1
    BY <1>4, <2>1, AnswerFacts
  <2>3. Len(reply) > 0
    BY <1>4, <1>6, <1>7, LenFacts
  <2>4. IsSeq(reply') /\ Len(reply') = Len(reply) - 1
    BY <1>4, <2>1, <2>3, TailFacts
  <2>5. Len(tx') + Len(reply') <= need' * WordBytes
    BY <1>2, <1>5, <1>6, <2>2, <2>4
  <2>6. ReadStage(t)'
    BY <1>3, <1>5, <2>1, <2>5 DEF ReadStage
  <2> QED
    BY <1>1, <1>2, <1>3, <1>5, <2>1, <2>2, <2>4, <2>6, DeviceFlow
<1>8. CASE reply = <<>>
  <2>1. Answer(0) /\ dpc' = "line"
    BY <1>8 DEF DevReply
  <2>2. IsSeq(tx') /\ Len(tx') \in Nat /\ Len(tx') <= Len(tx) + 1
    BY <1>4, <2>1, AnswerFacts
  <2>3. Len(tx') <= need' * WordBytes + 1
    BY <1>2, <1>5, <1>6, <2>2
  <2>4. ReadStage(t)'
    BY <1>3, <1>5, <2>1, <2>3 DEF ReadStage
  <2> QED
    BY <1>1, <1>2, <1>3, <1>5, <2>1, <2>2, <2>4, DeviceFlow
<1> QED
  BY <1>7, <1>8

\* A task begins a call while another one may be in the middle of its own.
LEMMA FlowCall ==
  ASSUME "small" \notin Habits, PortInv, PortInv', Flow, ~stopped, NEW t \in Tasks, Call(t)
  PROVE  StepInv'
<1>1. PICK r \in Requests :
        /\ Permitted(r)
        /\ \/ Reported(r) /\ stopped' = TRUE /\ UNCHANGED <<pc, req, got, err>>
           \/ /\ ~Reported(r)
              /\ pc' = [pc EXCEPT ![t] = "lock"]
              /\ req' = [req EXCEPT ![t] = r]
              /\ UNCHANGED <<got, err, stopped>>
  BY DEF Call
<1>2. pc[t] = "idle" /\ UNCHANGED <<owner, out, need, rx, tx, dev>>
  BY DEF Call
<1>3. UNCHANGED <<dpc, cmd, pos, acc, reply>>
  BY <1>2 DEF dev
<1>4. CASE stopped' = TRUE /\ UNCHANGED <<pc, req>>
  <2>1. Aligned /\ RoomToSend
    BY FlowAligned, FlowRoom
  <2>2. Aligned' /\ RoomToSend'
    BY <1>2, <1>3, <1>4, <2>1 DEF Aligned, RoomToSend, DeviceRuns
  <2> QED
    BY <1>4, <2>2 DEF StepInv
<1>5. CASE /\ ~Reported(r) /\ UNCHANGED stopped
           /\ pc' = [pc EXCEPT ![t] = "lock"] /\ req' = [req EXCEPT ![t] = r]
  <2>1. Sound(r)
    <3>1. /\ r \in [op: {"e", "w", "r"}, addr: Nat, size: Nat \ {0}, data: Seq([1..WordBytes -> 0..255])]
          /\ r.op = "w" => Len(r.data) = r.size \div WordBytes
      BY RequestAssumption
    <3>2. r.size % WordBytes = 0
      BY <1>1 DEF Permitted
    <3>3. r.op = "w" => ~(r.size > PageBytes)
      BY <1>5 DEF Reported
    <3>4. PageBytes \in Nat /\ r.size \in Nat
      BY <3>1, WordAssumption, GeomAssumption DEF PageBytes
    <3>5. r.op = "w" => r.size <= PageBytes /\ Len(r.data) = sizew(r.size)
      BY <3>1, <3>3, <3>4 DEF sizew
    <3> QED
      BY <3>1, <3>2, <3>5 DEF Sound
  <2>2. DOMAIN req = Tasks /\ DOMAIN req' = Tasks /\ pc \in [Tasks -> PCs]
    BY <1>5 DEF Flow, FlowType, PortInv, PortType
  <2>3. (\A x \in Tasks : pc[x] # "idle" => Sound(req[x]))'
    <3> SUFFICES ASSUME NEW x \in Tasks, pc'[x] # "idle" PROVE Sound(req'[x])
      BY DEF Sound
    <3>1. CASE x = t
      BY <1>5, <2>1, <2>2, <3>1
    <3>2. CASE x # t
      <4>1. pc[x] # "idle" /\ req'[x] = req[x]
        BY <1>5, <2>2, <3>2
      <4> QED
        BY <4>1 DEF Flow
    <3> QED
      BY <3>1, <3>2
  <2>4. FlowType'
    BY <1>2, <1>3, <2>2 DEF Flow, FlowType
  <2>5. ASSUME NEW h \in Tasks, owner = h PROVE InTouch(h)'
    <3>1. h # t /\ InTouch(h)
      BY <1>2, <2>5, HolderFacts
    <3>2. req'[h] = req[h] /\ pc'[h] = pc[h]
      BY <1>5, <2>2, <2>5, <3>1
    <3>3. Used(h)' = Used(h)
      BY <1>2, <3>2 DEF Used
    <3>4. Stream(h)'
      BY <1>2, <3>1, <3>2, <3>3 DEF InTouch, Stream
    <3> QED
      BY <1>2, <1>3, <3>1, <3>2, <3>3, <3>4 DEF InTouch, EraseStage, ReadStage, WriteStage
  <2>6. owner' # NoTask => InTouch(owner)'
    BY <1>2, <2>5 DEF PortInv, PortType
  <2>7. Flow'
    BY <1>2, <1>3, <2>3, <2>4, <2>6 DEF Flow
  <2> QED
    BY <1>5, <2>7 DEF StepInv
<1> QED
  BY <1>1, <1>4, <1>5

\* The mutex is taken: the port is clean.
LEMMA FlowLock == ASSUME PortInv, Flow, NEW t \in Tasks, Lock(t) PROVE Flow'
<1>1. /\ pc[t] = "lock" /\ owner = NoTask /\ owner' = t
      /\ pc' = [pc EXCEPT ![t] = "send"] /\ out' = [out EXCEPT ![t] = Message(req[t])]
      /\ need' = IF req[t].op = "r" THEN sizew(Chunk(req[t])) ELSE 0
      /\ UNCHANGED <<req, rx, tx, dev>>
  BY DEF Lock
<1>2. UNCHANGED <<dpc, reply, acc>>
  BY <1>1 DEF dev
<1>3. rx = <<>> /\ tx = <<>> /\ dpc = "line" /\ Len(rx) = 0 /\ Len(tx) = 0
  BY <1>1, FreeFacts, EmptyFacts
<1>4. pc \in [Tasks -> PCs] /\ DOMAIN out = Tasks /\ DOMAIN req = Tasks
  BY DEF PortInv, PortType, Flow, FlowType
<1>5. Sound(req[t])
  BY <1>1 DEF Flow
<1> DEFINE m == Message(req[t])
<1>6. req[t].op \in {"e", "w", "r"} /\ req[t].size \in Nat /\ req[t].size > 0
  BY <1>5 DEF Sound
<1>7. IsSeq(m) /\ Len(m) \in Nat /\ Len(m) > 0
  BY <1>5, <1>6, ShortMessage, LongMessage
<1>8. need' \in Nat /\ (req[t].op = "r" => need' = sizew(Chunk(req[t]))) /\ (req[t].op # "r" => need' = 0)
  BY <1>1, <1>5, ChunkFacts
<1> HIDE DEF m
<1>9. out'[t] = m /\ pc'[t] = "send" /\ DOMAIN out' = Tasks
  BY <1>1, <1>4 DEF m
<1>10. FlowType'
  <2>1. \A x \in Tasks : IsSeq(out'[x])
    <3> SUFFICES ASSUME NEW x \in Tasks PROVE IsSeq(out'[x])
      OBVIOUS
    <3>1. CASE x = t
      BY <1>7, <1>9, <3>1
    <3>2. CASE x # t
      <4>1. out'[x] = out[x]
        BY <1>1, <1>4, <3>2
      <4> QED
        BY <4>1 DEF Flow, FlowType
    <3> QED
      BY <3>1, <3>2
  <2> QED
    BY <1>1, <1>2, <1>3, <1>4, <1>8, <1>9, <2>1 DEF Flow, FlowType
<1>11. Used(t)' = 0
  BY <1>1, <1>3, <1>7, <1>9 DEF Used, m
<1>12. Stream(t)'
  <2>1. ASSUME NEW i \in 1..Len(m) PROVE m[i] = m[0 + 0 + i]
    BY <1>7
  <2> QED
    BY <1>1, <1>3, <1>9, <1>11, <2>1 DEF Stream, m
<1>13. (req[t].op = "e" => EraseStage(t)') /\ (req[t].op = "r" => ReadStage(t)')
       /\ (req[t].op = "w" => WriteStage(t)')
  BY <1>1, <1>2, <1>3, <1>8, <1>11 DEF EraseStage, ReadStage, WriteStage
<1>14. InTouch(t)'
  BY <1>1, <1>7, <1>8, <1>9, <1>12, <1>13 DEF InTouch
<1>15. (\A x \in Tasks : pc[x] # "idle" => Sound(req[x]))'
  <2> SUFFICES ASSUME NEW x \in Tasks, pc'[x] # "idle" PROVE Sound(req[x])
    BY <1>1 DEF Sound
  <2>1. pc[x] # "idle"
    BY <1>1, <1>4
  <2> QED
    BY <2>1 DEF Flow
<1>16. t # NoTask
  BY TaskAssumption
<1>17. InTouch(owner)'
  BY <1>1, <1>14
<1> QED
  BY <1>1, <1>10, <1>15, <1>16, <1>17 DEF Flow

\* An item is sent.
LEMMA FlowSend == ASSUME PortInv, Flow, NEW t \in Tasks, Send(t) PROVE Flow'
<1>1. /\ pc[t] = "send" /\ ~DeviceRuns
      /\ rx' = IF Len(rx) < RxCap THEN Append(rx, Head(out[t])) ELSE rx
      /\ out' = [out EXCEPT ![t] = Tail(out[t])]
      /\ pc' = [pc EXCEPT ![t] = IF Len(out[t]) > 1 THEN "send"
                                 ELSE IF need > 0 THEN "words" ELSE "status"]
      /\ UNCHANGED <<owner, req, need, tx, dev>>
  BY DEF Send
<1>2. UNCHANGED <<dpc, cmd, pos, acc, reply>>
  BY <1>1 DEF dev
<1>3. owner = t /\ t # NoTask
  BY <1>1, TaskAssumption DEF PortInv, PortExclusive
<1>4. Len(rx) < RxCap
  BY <1>1, FlowRoom DEF RoomToSend
<1> DEFINE o == out[t]
           m == Message(req[t])
           u == Used(t)
<1>5. /\ Sound(req[t]) /\ InTouch(t) /\ u \in Int /\ Len(m) \in Nat /\ Len(rx) \in Nat
      /\ Len(o) \in Nat /\ u + Len(rx) + Len(o) = Len(m) /\ need \in Nat
      /\ req[t].op \in {"e", "w", "r"} /\ req[t].size \in Nat
  BY <1>3, HolderFacts
<1>6. IsSeq(rx) /\ IsSeq(o) /\ DOMAIN out = Tasks /\ DOMAIN req = Tasks /\ pc \in [Tasks -> PCs]
  BY DEF Flow, FlowType, PortInv, PortType
<1>7. Len(o) > 0
  BY <1>1, <1>5 DEF InTouch
<1>8. /\ IsSeq(Tail(o)) /\ Len(Tail(o)) = Len(o) - 1 /\ Head(o) = o[1]
      /\ \A i \in 1..(Len(o) - 1) : Tail(o)[i] = o[i + 1]
  BY <1>6, <1>7, TailFacts
<1>9. /\ IsSeq(rx') /\ Len(rx') = Len(rx) + 1 /\ rx'[Len(rx) + 1] = Head(o)
      /\ \A i \in 1..Len(rx) : rx'[i] = rx[i]
  <2>1. rx' = Append(rx, Head(o))
    BY <1>1, <1>4
  <2> QED
    BY <1>6, <2>1, AppendFacts
<1>10. out'[t] = Tail(o) /\ DOMAIN out' = Tasks
  BY <1>1, <1>6
<1>11. /\ \A i \in 1..Len(rx) : rx[i] = m[u + i]
       /\ \A i \in 1..Len(o) : o[i] = m[u + Len(rx) + i]
  BY <1>5 DEF InTouch, Stream
<1>12. Used(t)' = u
  <2>1. Used(t)' = Len(m) - Len(out'[t]) - Len(rx')
    BY <1>1 DEF Used
  <2>2. Len(out'[t]) = Len(o) - 1 /\ Len(rx') = Len(rx) + 1
    BY <1>8, <1>9, <1>10
  <2>3. u \in Int /\ Len(m) \in Nat /\ Len(rx) \in Nat /\ Len(o) \in Nat /\ u + Len(rx) + Len(o) = Len(m)
    BY <1>5
  <2> HIDE DEF o, m, u
  <2> QED
    BY <2>1, <2>2, <2>3
<1> HIDE DEF o, m, u
<1>13. ASSUME NEW i \in 1..Len(rx') PROVE rx'[i] = m[u + i]
  <2>1. CASE i \in 1..Len(rx)
    BY <1>9, <1>11, <2>1
  <2>2. CASE i = Len(rx) + 1
    <3>1. 1 \in 1..Len(o) /\ u + Len(rx) + 1 = u + i
      BY <1>5, <1>7, <2>2
    <3>2. o[1] = m[u + Len(rx) + 1]
      BY <1>11, <3>1
    <3> QED
      BY <1>8, <1>9, <2>2, <3>1, <3>2
  <2>3. i \in 1..Len(rx) \/ i = Len(rx) + 1
    BY <1>5, <1>9
  <2> QED
    BY <2>1, <2>2, <2>3
<1>14. ASSUME NEW i \in 1..Len(Tail(o)) PROVE Tail(o)[i] = m[u + Len(rx') + i]
  <2>1. i \in 1..(Len(o) - 1) /\ i + 1 \in 1..Len(o) /\ u + Len(rx) + (i + 1) = u + Len(rx') + i
    BY <1>5, <1>8, <1>9
  <2> QED
    BY <1>8, <1>11, <2>1
<1>15. Stream(t)'
  BY <1>1, <1>10, <1>12, <1>13, <1>14 DEF Stream, m
<1>16. /\ pc'[t] = IF Len(o) > 1 THEN "send" ELSE IF need > 0 THEN "words" ELSE "status"
       /\ Len(out'[t]) = Len(o) - 1
  BY <1>1, <1>6, <1>8, <1>10 DEF o
<1>17. (pc'[t] = "send" <=> Len(out'[t]) > 0) /\ (pc'[t] = "words" => need' > 0) /\ (pc'[t] = "status" => need' = 0)
  BY <1>1, <1>5, <1>16
<1>18. Len(rx') <= 1 \/ dpc # "line"
  <2>1. dpc = "line" => rx = <<>>
    BY <1>1 DEF DeviceRuns
  <2> QED
    BY <1>9, <2>1, EmptyFacts
<1>19. /\ req[t].op = "e" => need' = 0 /\ EraseStage(t)'
       /\ req[t].op = "r" => ReadStage(t)'
       /\ req[t].op = "w" => need' = 0 /\ WriteStage(t)'
  BY <1>1, <1>2, <1>5, <1>12, <1>18 DEF InTouch, EraseStage, ReadStage, WriteStage, u
<1>20. InTouch(t)'
  BY <1>1, <1>15, <1>17, <1>19 DEF InTouch
<1>21. FlowType'
  <2>1. \A x \in Tasks : IsSeq(out'[x])
    <3> SUFFICES ASSUME NEW x \in Tasks PROVE IsSeq(out'[x])
      OBVIOUS
    <3>1. CASE x = t
      BY <1>8, <1>10, <3>1
    <3>2. CASE x # t
      <4>1. out'[x] = out[x]
        BY <1>1, <1>6, <3>2
      <4> QED
        BY <4>1 DEF Flow, FlowType
    <3> QED
      BY <3>1, <3>2
  <2> QED
    BY <1>1, <1>2, <1>6, <1>9, <1>10, <2>1 DEF Flow, FlowType
<1>22. (\A x \in Tasks : pc[x] # "idle" => Sound(req[x]))'
  <2> SUFFICES ASSUME NEW x \in Tasks, pc'[x] # "idle" PROVE Sound(req[x])
    BY <1>1 DEF Sound
  <2>1. pc[x] # "idle"
    BY <1>1, <1>6
  <2> QED
    BY <2>1 DEF Flow
<1>23. InTouch(owner)'
  BY <1>1, <1>3, <1>20
<1> QED
  BY <1>1, <1>3, <1>21, <1>22, <1>23 DEF Flow

\* A word is read.
LEMMA FlowWord == ASSUME PortInv, Flow, NEW t \in Tasks, TakeWord(t) PROVE Flow'
<1>1. /\ pc[t] = "words" /\ Len(tx) >= WordBytes
      /\ tx' = SubSeq(tx, WordBytes + 1, Len(tx))
      /\ need' = need - 1
      /\ pc' = [pc EXCEPT ![t] = IF need = 1 THEN "status" ELSE "words"]
      /\ UNCHANGED <<owner, req, out, rx, dev>>
  BY DEF TakeWord
<1>2. UNCHANGED <<dpc, cmd, pos, acc, reply>>
  BY <1>1 DEF dev
<1>3. owner = t /\ t # NoTask
  BY <1>1, TaskAssumption DEF PortInv, PortExclusive
<1>4. /\ InTouch(t) /\ Len(tx) \in Nat /\ need \in Nat /\ Len(out[t]) \in Nat /\ Used(t) \in Int
      /\ req[t].op \in {"e", "w", "r"}
  BY <1>3, HolderFacts
<1>5. need > 0 /\ Len(out[t]) = 0
  BY <1>1, <1>4 DEF InTouch
<1>6. req[t].op = "r" /\ ReadStage(t)
  BY <1>4, <1>5 DEF InTouch
<1>7. IsSeq(tx) /\ pc \in [Tasks -> PCs] /\ WordBytes \in Nat /\ WordBytes > 1
  BY WordAssumption DEF Flow, FlowType, PortInv, PortType
<1>8. IsSeq(tx') /\ Len(tx') = Len(tx) - WordBytes
  BY <1>1, <1>7, RestFacts
<1>9. need' \in Nat /\ need * WordBytes \in Nat /\ need' * WordBytes = need * WordBytes - WordBytes
  BY <1>1, <1>4, <1>5, <1>7
<1>10. Used(t)' = Used(t) /\ Stream(t)' /\ IsSeq(rx')
  BY <1>1, <1>3, UsedSame
<1>11. ReadStage(t)'
  <2>1. CASE Used(t) = 1 /\ dpc = "reply" /\ Len(tx) + Len(reply) <= need * WordBytes
    <3>1. IsSeq(reply)
      BY <2>1 DEF Flow, FlowType
    <3>2. Len(reply) \in Nat
      BY <3>1, LenFacts
    <3>3. Len(tx') + Len(reply') <= need' * WordBytes
      BY <1>2, <1>4, <1>7, <1>8, <1>9, <2>1, <3>2
    <3> QED
      BY <1>2, <1>10, <2>1, <3>3 DEF ReadStage
  <2>2. CASE Used(t) = 1 /\ dpc = "line" /\ Len(tx) <= need * WordBytes + 1
    <3> DEFINE before == need * WordBytes
               after == need' * WordBytes
    <3>0. /\ before \in Nat /\ after = before - WordBytes /\ Len(tx) <= before + 1
          /\ Len(tx) \in Nat /\ Len(tx') = Len(tx) - WordBytes /\ WordBytes \in Nat
      BY <1>4, <1>7, <1>8, <1>9, <2>2
    <3> HIDE DEF before, after
    <3>2. Len(tx') <= after + 1
      BY <3>0
    <3>1. Len(tx') <= need' * WordBytes + 1
      BY <3>2 DEF after
    <3> QED
      BY <1>2, <1>10, <2>2, <3>1 DEF ReadStage
  <2>3. Len(tx) # 0
    BY <1>1, <1>4, <1>7
  <2> QED
    BY <1>6, <2>1, <2>2, <2>3 DEF ReadStage
<1>12. pc'[t] = IF need = 1 THEN "status" ELSE "words"
  BY <1>1, <1>7
<1>13. InTouch(t)'
  BY <1>1, <1>4, <1>5, <1>6, <1>10, <1>11, <1>12 DEF InTouch
<1>14. FlowType'
  BY <1>1, <1>2, <1>8, <1>9, <1>10 DEF Flow, FlowType
<1>15. (\A x \in Tasks : pc[x] # "idle" => Sound(req[x]))'
  <2> SUFFICES ASSUME NEW x \in Tasks, pc'[x] # "idle" PROVE Sound(req[x])
    BY <1>1 DEF Sound
  <2>1. pc[x] # "idle"
    BY <1>1, <1>7
  <2> QED
    BY <2>1 DEF Flow
<1>16. InTouch(owner)'
  BY <1>1, <1>3, <1>13
<1> QED
  BY <1>1, <1>3, <1>14, <1>15, <1>16 DEF Flow

\* What is left of a sound call is sound.
LEMMA RestSound ==
  ASSUME NEW r, Sound(r), NEW resp, Rest(r, resp) # NoReq
  PROVE  Sound(Rest(r, resp))
<1>1. r \in [op: {"e", "w", "r"}, addr: Nat, size: Nat \ {0}, data: Seq([1..WordBytes -> 0..255])]
      /\ r.size % WordBytes = 0
  BY DEF Sound
<1>2. /\ WordBytes \in Nat /\ WordBytes > 1 /\ PageWords \in Nat /\ PageWords > 0
      /\ SecPages \in Nat /\ SecPages > 0
  BY WordAssumption, GeomAssumption
<1>3. SecWords \in Nat /\ SecWords * WordBytes \in Nat /\ PageWords * WordBytes \in Nat
  <2>1. SecWords \in Nat
    BY <1>2 DEF SecWords
  <2> QED
    BY <1>2, <2>1
<1>4. CASE r.op = "e" /\ r.size > SecWords * WordBytes
  <2>1. Rest(r, resp) = [r EXCEPT !.addr = r.addr + SecWords, !.size = r.size - SecWords * WordBytes]
    BY <1>4 DEF Rest
  <2>2. /\ r.size - SecWords * WordBytes \in Nat \ {0} /\ r.addr + SecWords \in Nat
        /\ (r.size - SecWords * WordBytes) % WordBytes = 0
    <3>1. r.size \in Nat /\ r.addr \in Nat
      BY <1>1
    <3>2. (r.size - SecWords * WordBytes) % WordBytes = 0
      BY <1>1, <1>3, <1>4, <3>1, LessWords
    <3> QED
      BY <1>3, <1>4, <3>1, <3>2
  <2> DEFINE q == r.size - SecWords * WordBytes
             a == r.addr + SecWords
  <2>3. Rest(r, resp) = [r EXCEPT !.addr = a, !.size = q] /\ q \in Nat \ {0} /\ a \in Nat /\ q % WordBytes = 0
    BY <2>1, <2>2
  <2> HIDE DEF q, a
  <2> QED
    BY <1>1, <1>4, <2>3 DEF Sound
<1>5. CASE r.op = "r" /\ r.size > Chunk(r) /\ resp = "OK"
  <2>1. Rest(r, resp) = [r EXCEPT !.addr = r.addr + PageWords, !.size = r.size - Chunk(r)]
    BY <1>5 DEF Rest
  <2>2. Chunk(r) = PageWords * WordBytes
    BY <1>5, ChunkFacts
  <2>3. /\ r.size - Chunk(r) \in Nat \ {0} /\ r.addr + PageWords \in Nat
        /\ (r.size - Chunk(r)) % WordBytes = 0
    <3>1. r.size \in Nat /\ r.addr \in Nat
      BY <1>1
    <3>2. (r.size - PageWords * WordBytes) % WordBytes = 0
      BY <1>1, <1>2, <1>3, <1>5, <2>2, <3>1, LessWords
    <3> QED
      BY <1>2, <1>3, <1>5, <2>2, <3>1, <3>2
  <2> DEFINE q == r.size - Chunk(r)
             a == r.addr + PageWords
  <2>4. Rest(r, resp) = [r EXCEPT !.addr = a, !.size = q] /\ q \in Nat \ {0} /\ a \in Nat /\ q % WordBytes = 0
    BY <2>1, <2>3
  <2> HIDE DEF q, a
  <2> QED
    BY <1>1, <1>5, <2>4 DEF Sound
<1> QED
  BY <1>4, <1>5 DEF Rest

\* The status: nothing is left of the call when the mutex is released.
LEMMA FlowStatus == ASSUME PortInv, Flow, NEW t \in Tasks, TakeStatus(t) PROVE Flow'
<1> DEFINE rest == Rest(req[t], retflerr(Head(tx)))
<1>1. /\ pc[t] = "status" /\ tx # <<>> /\ tx' = Tail(tx) /\ owner' = NoTask
      /\ req' = [req EXCEPT ![t] = rest]
      /\ UNCHANGED <<out, need, rx, dev>>
  BY DEF TakeStatus
<1>2. /\ rest = NoReq => pc' = [pc EXCEPT ![t] = "idle"]
      /\ rest # NoReq => pc' = [pc EXCEPT ![t] = "lock"]
  BY DEF TakeStatus
<1>3. UNCHANGED <<dpc, cmd, pos, acc, reply>>
  BY <1>1 DEF dev
<1>4. owner = t
  BY <1>1 DEF PortInv, PortExclusive
<1>5. /\ Sound(req[t]) /\ InTouch(t) /\ Len(tx) \in Nat /\ need \in Nat /\ Len(out[t]) \in Nat
      /\ Len(rx) \in Nat /\ Used(t) \in Int /\ req[t].op \in {"e", "w", "r"} /\ req[t].size \in Nat
      /\ Used(t) + Len(rx) + Len(out[t]) = Len(Message(req[t]))
  BY <1>4, HolderFacts
<1>6. need = 0 /\ Len(out[t]) = 0
  BY <1>1, <1>5 DEF InTouch
<1>7. IsSeq(tx) /\ pc \in [Tasks -> PCs] /\ DOMAIN req = Tasks
  BY DEF Flow, FlowType, PortInv, PortType
<1>8. Len(tx) > 0
  BY <1>1, <1>5, <1>7, LenFacts
<1>9. IsSeq(tx') /\ Len(tx') = Len(tx) - 1
  BY <1>1, <1>7, <1>8, TailFacts
<1>10. dpc = "line" /\ Len(tx) <= 1 /\ Used(t) = Len(Message(req[t]))
  <2>1. CASE req[t].op = "e"
    <3>1. Len(Message(req[t])) = 1
      BY <1>5, <2>1, ShortMessage
    <3> QED
      BY <1>5, <1>8, <2>1, <3>1 DEF InTouch, EraseStage
  <2>2. CASE req[t].op = "r"
    <3>1. Len(Message(req[t])) = 1
      BY <1>5, <2>2, ShortMessage
    <3>2. need * WordBytes = 0
      BY <1>6, WordAssumption
    <3>3. ~(dpc = "reply" /\ Len(tx) + Len(reply) <= 0)
      <4> SUFFICES ASSUME dpc = "reply" PROVE ~(Len(tx) + Len(reply) <= 0)
        OBVIOUS
      <4>1. IsSeq(reply)
        BY DEF Flow, FlowType
      <4>2. Len(reply) \in Nat
        BY <4>1, LenFacts
      <4> QED
        BY <1>5, <1>8, <4>2
    <3>4. ReadStage(t)
      BY <1>5, <2>2 DEF InTouch
    <3> QED
      BY <1>8, <3>1, <3>2, <3>3, <3>4 DEF ReadStage
  <2>3. CASE req[t].op = "w"
    <3>1. Len(Message(req[t])) = req[t].size + 4
      BY <1>5, <2>3, LongMessage
    <3> QED
      BY <1>5, <1>8, <2>3, <3>1 DEF InTouch, WriteStage
  <2> QED
    BY <1>5, <2>1, <2>2, <2>3
<1>11. Len(rx') = 0 /\ Len(tx') = 0 /\ dpc' = "line"
  <2>1. Len(rx) = 0
    BY <1>5, <1>6, <1>10
  <2>0. Len(tx) \in Nat
    BY <1>5
  <2>2. Len(tx) = 1
    <3> DEFINE n == Len(tx)
    <3>1. n \in Nat /\ n > 0 /\ n <= 1
      BY <1>8, <1>10, <2>0
    <3> HIDE DEF n
    <3>2. n = 1
      BY <3>1
    <3> QED
      BY <3>2 DEF n
  <2> QED
    BY <1>1, <1>3, <1>9, <1>10, <2>1, <2>2
<1> HIDE DEF rest
<1>12. (\A x \in Tasks : pc[x] # "idle" => Sound(req[x]))'
  <2> SUFFICES ASSUME NEW x \in Tasks, pc'[x] # "idle" PROVE Sound(req'[x])
    BY DEF Sound
  <2>1. CASE x = t
    <3>1. rest # NoReq /\ req'[x] = rest
      BY <1>1, <1>2, <1>7, <2>1
    <3> QED
      BY <1>5, <3>1, RestSound DEF rest
  <2>2. CASE x # t
    <3>1. pc[x] # "idle" /\ req'[x] = req[x]
      BY <1>1, <1>2, <1>7, <2>2
    <3> QED
      BY <3>1 DEF Flow
  <2> QED
    BY <2>1, <2>2
<1>13. FlowType'
  BY <1>1, <1>3, <1>7, <1>9 DEF Flow, FlowType
<1> QED
  BY <1>1, <1>11, <1>12, <1>13 DEF Flow

LEMMA StepInvInit == Init => StepInv
<1> SUFFICES ASSUME Init PROVE StepInv
  OBVIOUS
<1>1. PortInv
  BY TaskAssumption DEF Init, PortInv, PortType, PortExclusive, PCs
<1>2. FlowType
  BY EmptyFacts DEF Init, FlowType
<1>3. Flow
  BY <1>2, EmptyFacts DEF Init, Flow
<1> QED
  BY <1>1, <1>3 DEF Init, StepInv

LEMMA StepInvStep == "small" \notin Habits /\ StepInv /\ [Next]_vars => StepInv'
<1> SUFFICES ASSUME "small" \notin Habits, StepInv, [Next]_vars PROVE StepInv'
  OBVIOUS
<1>1. PortInv /\ PortInv'
  BY PortStep DEF StepInv
<1>2. CASE UNCHANGED vars
  <2>1. UNCHANGED <<owner, pc, req, out, need, rx, tx, dpc, cmd, pos, acc, reply, stopped>>
    BY <1>2 DEF vars, drv, dev
  <2>2. Aligned => Aligned'
    BY <2>1 DEF Aligned
  <2>3. RoomToSend => RoomToSend'
    BY <2>1 DEF RoomToSend, DeviceRuns
  <2>4. Flow => Flow'
    <3> SUFFICES ASSUME Flow PROVE Flow'
      OBVIOUS
    <3>1. FlowType'
      BY <2>1 DEF Flow, FlowType
    <3>2. (\A x \in Tasks : pc[x] # "idle" => Sound(req[x]))'
      BY <2>1 DEF Flow, Sound
    <3>3. ASSUME NEW h \in Tasks, InTouch(h) PROVE InTouch(h)'
      <4>1. Used(h)' = Used(h)
        BY <2>1 DEF Used
      <4>2. Stream(h)'
        BY <2>1, <3>3, <4>1 DEF InTouch, Stream
      <4> QED
        BY <2>1, <3>3, <4>1, <4>2 DEF InTouch, EraseStage, ReadStage, WriteStage
    <3>4. owner' # NoTask => InTouch(owner)'
      BY <1>1, <2>1, <3>3 DEF Flow, PortInv, PortType
    <3> QED
      BY <2>1, <3>1, <3>2, <3>4 DEF Flow
  <2> QED
    BY <1>1, <2>1, <2>2, <2>3, <2>4 DEF StepInv
<1>3. CASE ~UNCHANGED vars
  <2>1. ~stopped /\ (DeviceStep \/ \E t \in Tasks : Call(t) \/ DriverStep(t)) /\ Flow
    BY <1>3 DEF Next, StepInv
  <2>2. CASE DevCommand
    BY <1>1, <2>1, <2>2, FlowCommand
  <2>3. CASE DevErase \/ DevData \/ DevProgram \/ DevStore \/ DevEol \/ DevRead \/ DevReply
    <3>1. Flow'
      BY <1>1, <2>1, <2>3, FlowErase, FlowData, FlowProgram, FlowStore, FlowEol, FlowRead, FlowReply
    <3>2. UNCHANGED stopped
      BY <2>3 DEF DevErase, DevData, DevProgram, DevStore, DevEol, DevRead, DevReply
    <3> QED
      BY <1>1, <2>1, <3>1, <3>2 DEF StepInv
  <2>4. ~DevFlood
    <3>1. dpc # "flood"
      <4>1. CASE owner = NoTask
        BY <1>1, <2>1, <4>1, FreeFacts
      <4>2. ASSUME NEW t \in Tasks, owner = t PROVE dpc # "flood"
        BY <1>1, <2>1, <4>2, HolderFacts DEF InTouch, EraseStage, ReadStage, WriteStage
      <4> QED
        BY <1>1, <4>1, <4>2 DEF PortInv, PortType
    <3> QED
      BY <3>1 DEF DevFlood
  <2>5. ASSUME NEW t \in Tasks, Call(t) PROVE StepInv'
    BY <1>1, <2>1, <2>5, FlowCall
  <2>6. ASSUME NEW t \in Tasks, DriverStep(t) PROVE StepInv'
    <3>1. Flow'
      BY <1>1, <2>1, <2>6, FlowLock, FlowSend, FlowWord, FlowStatus DEF DriverStep
    <3>2. UNCHANGED stopped
      BY <2>6 DEF DriverStep, Lock, Send, TakeWord, TakeStatus
    <3> QED
      BY <1>1, <2>1, <3>1, <3>2 DEF StepInv
  <2> QED
    BY <2>1, <2>2, <2>3, <2>4, <2>5, <2>6 DEF DeviceStep
<1> QED
  BY <1>2, <1>3

\* For every geometry, layout, set of tasks, size of the board's FIFO and set of calls of
\* whole words, illegal ones and reads across pages included: driver and device stay in
\* step (spi_flash_write, spi_flash_read and spi_flash_erase_range against flash() of
\* cchanflash.cpp).  An answer never reaches a call that it does not belong to, and the
\* 256+4 bytes of the device's FIFO are enough.
THEOREM AlwaysInStep == "small" \notin Habits /\ Spec => []InStep
<1>1. StepInv => InStep
  <2> SUFFICES ASSUME StepInv PROVE InStep
    OBVIOUS
  <2>1. PortInv /\ (stopped => Aligned /\ RoomToSend) /\ (~stopped => Flow)
    BY DEF StepInv
  <2>2. Aligned /\ RoomToSend
    BY <2>1, FlowAligned, FlowRoom
  <2>3. InSync
    BY <2>1, FreeFacts DEF InSync
  <2> QED
    BY <2>2, <2>3 DEF InStep
<1> SUFFICES ASSUME "small" \notin Habits PROVE Spec => []InStep
  OBVIOUS
<1>2. StepInv /\ [Next]_vars => StepInv'
  BY StepInvStep
<1> QED
  BY StepInvInit, <1>1, <1>2, PTL DEF Spec

----------------------------------------------------------------------------
(* The geometry: sectors and pages of an address.                         *)

\* Every set of naturals that is not empty has a least element: induction over the naturals
\* without an operator as a parameter.
LEMMA LeastNat ==
  ASSUME NEW T, T \subseteq Nat, T # {}
  PROVE  \E x \in T : \A y \in T : x <= y
<1> DEFINE R == {ss \in Nat \X Nat : ss[1] < ss[2]}
<1>1. IsWellFoundedOn(R, Nat)
  BY NatLessThanWellFounded DEF OpToRel
<1>2. PICK x \in T : \A y \in T : ~(<<y, x>> \in R)
  <2> HIDE DEF R
  <2> QED
    BY <1>1, WFMin
<1>3. ASSUME NEW y \in T PROVE x <= y
  <2>1. <<y, x>> \notin R /\ y \in Nat /\ x \in Nat
    BY <1>2
  <2>2. ~(y < x)
    BY <2>1
  <2> QED
    BY <2>1, <2>2
<1> QED
  BY <1>3

\* A function that adds up as the loop of rangeinit does exists.
LEMMA SumExists ==
  ASSUME NEW n \in Nat, NEW w
  PROVE  \E g : g = [r \in 1..n |-> IF r = 1 THEN 0 ELSE g[r - 1] + w[r - 1]]
<1> DEFINE Good(k) == \E g : g = [r \in 1..k |-> IF r = 1 THEN 0 ELSE g[r - 1] + w[r - 1]]
           T == {k \in Nat : ~Good(k)}
<1>1. Good(0)
  <2> DEFINE e == [r \in 1..0 |-> 0]
  <2>1. e = [r \in 1..0 |-> IF r = 1 THEN 0 ELSE e[r - 1] + w[r - 1]]
    OBVIOUS
  <2> QED
    BY <2>1
<1>2. ASSUME NEW k \in Nat, Good(k) PROVE Good(k + 1)
  <2>1. PICK g : g = [r \in 1..k |-> IF r = 1 THEN 0 ELSE g[r - 1] + w[r - 1]]
    BY <1>2
  <2> DEFINE h == [r \in 1..(k + 1) |-> IF r = 1 THEN 0 ELSE g[r - 1] + w[r - 1]]
  <2>2. \A r \in 1..k : h[r] = g[r]
    BY <2>1
  <2>3. ASSUME NEW r \in 1..(k + 1), r # 1 PROVE h[r - 1] = g[r - 1]
    <3>1. r - 1 \in 1..k
      BY <2>3
    <3> HIDE DEF h
    <3> QED
      BY <2>2, <3>1
  <2>4. h = [r \in 1..(k + 1) |-> IF r = 1 THEN 0 ELSE h[r - 1] + w[r - 1]]
    BY <2>3
  <2> QED
    BY <2>4
<1> HIDE DEF Good
<1>3. T = {}
  <2> SUFFICES ASSUME T # {} PROVE FALSE
    OBVIOUS
  <2>1. PICK k \in T : \A j \in T : k <= j
    BY LeastNat
  <2>2. k \in Nat /\ ~Good(k) /\ k # 0
    BY <1>1, <2>1
  <2>3. k - 1 \in Nat /\ k - 1 \notin T
    BY <2>1, <2>2
  <2>4. Good(k - 1)
    BY <2>3
  <2>5. Good((k - 1) + 1)
    BY <1>2, <2>3, <2>4
  <2> QED
    BY <2>2, <2>5
<1>4. Good(n)
  BY <1>3
<1> QED
  BY <1>4 DEF Good

\* What rangeinit computes: the sectors of a range come after those of the one before.
LEMMA SecStartFacts ==
  ASSUME NEW rs, NEW re, Len(rs) \in Nat
  PROVE  /\ SecStart(rs, re)[1] = 0
         /\ \A r \in 1..Len(rs) :
              SecStart(rs, re)[r + 1] = SecStart(rs, re)[r] + (re[r] + 1 - rs[r]) \div SecWords
<1> DEFINE w == [q \in Nat |-> (re[q] + 1 - rs[q]) \div SecWords]
           D == 1..(Len(rs) + 1)
           P(g) == g = [r \in D |-> IF r = 1 THEN 0
                                    ELSE g[r - 1] + (re[r - 1] + 1 - rs[r - 1]) \div SecWords]
           ss == CHOOSE g : P(g)
<1>1. SecStart(rs, re) = ss
  BY DEF SecStart
<1>2. PICK g : g = [r \in D |-> IF r = 1 THEN 0 ELSE g[r - 1] + w[r - 1]]
  <2>1. Len(rs) + 1 \in Nat
    OBVIOUS
  <2> DEFINE n == Len(rs) + 1
  <2> HIDE DEF w, n
  <2>2. \E g : g = [r \in 1..n |-> IF r = 1 THEN 0 ELSE g[r - 1] + w[r - 1]]
    BY <2>1, SumExists DEF n
  <2> QED
    BY <2>2 DEF n
<1>3. P(g)
  <2>1. \A r \in D : r # 1 => w[r - 1] = (re[r - 1] + 1 - rs[r - 1]) \div SecWords
    OBVIOUS
  <2> HIDE DEF w
  <2> QED
    BY <1>2, <2>1
<1> HIDE DEF P
<1>4. P(ss)
  BY <1>3
<1>5. \A r \in D : ss[r] = IF r = 1 THEN 0 ELSE ss[r - 1] + (re[r - 1] + 1 - rs[r - 1]) \div SecWords
  <2> HIDE DEF ss
  <2> QED
    BY <1>4 DEF P
<1> HIDE DEF ss
<1>6. ss[1] = 0
  BY <1>5
<1>7. ASSUME NEW r \in 1..Len(rs) PROVE ss[r + 1] = ss[r] + (re[r] + 1 - rs[r]) \div SecWords
  <2>1. r + 1 \in D /\ r + 1 # 1 /\ (r + 1) - 1 = r
    OBVIOUS
  <2> QED
    BY <1>5, <2>1
<1> QED
  BY <1>1, <1>6, <1>7

\* Division with a rest
LEMMA DivFacts ==
  ASSUME NEW x \in Nat, NEW d \in Nat \ {0}
  PROVE  /\ x \div d \in Nat /\ x % d \in Nat /\ x % d < d
         /\ d * (x \div d) \in Nat /\ x = d * (x \div d) + (x % d)
<1> DEFINE q == x \div d
           r == x % d
<1>1. q \in Int /\ r \in Int /\ 0 <= r /\ r < d /\ x = d * q + r
  OBVIOUS
<1> HIDE DEF q, r
<1>2. q >= 0
  <2> SUFFICES ASSUME q <= -1 PROVE FALSE
    BY <1>1
  <2>1. PICK k \in Nat : q = -1 - k
    <3>1. -1 - q \in Nat /\ q = -1 - (-1 - q)
      BY <1>1
    <3> QED
      BY <3>1
  <2>2. d * q = -d - d * k /\ d * k \in Nat
    BY <2>1
  <2> QED
    BY <1>1, <2>2
<1>3. q \in Nat /\ r \in Nat
  BY <1>1, <1>2
<1>4. d * q \in Nat
  BY <1>3
<1>5. q \in Nat /\ r \in Nat /\ r < d /\ d * q \in Nat /\ x = d * q + r
  BY <1>1, <1>3, <1>4
<1> QED
  BY <1>5, Zenon DEF q, r

LEMMA DivUnique ==
  ASSUME NEW x \in Nat, NEW d \in Nat \ {0}, NEW q \in Nat, NEW r \in Nat, r < d, x = d * q + r
  PROVE  x \div d = q /\ x % d = r
<1> DEFINE p == x \div d
           s == x % d
<1>1. p \in Nat /\ s \in Nat /\ s < d /\ x = d * p + s
  BY DivFacts
<1> HIDE DEF p, s
<1>2. ~(p < q)
  <2> SUFFICES ASSUME p < q PROVE FALSE
    OBVIOUS
  <2>1. PICK k \in Nat : q = p + 1 + k
    <3>1. q - (p + 1) \in Nat /\ q = p + 1 + (q - (p + 1))
      BY <1>1
    <3> QED
      BY <3>1
  <2>2. d * q = d * p + d + d * k /\ d * k \in Nat /\ d * p \in Nat
    BY <1>1, <2>1
  <2> QED
    BY <1>1, <2>2
<1>3. ~(q < p)
  <2> SUFFICES ASSUME q < p PROVE FALSE
    OBVIOUS
  <2>1. PICK k \in Nat : p = q + 1 + k
    <3>1. p - (q + 1) \in Nat /\ p = q + 1 + (p - (q + 1))
      BY <1>1
    <3> QED
      BY <3>1
  <2>2. d * p = d * q + d + d * k /\ d * k \in Nat /\ d * q \in Nat
    BY <1>1, <2>1
  <2> QED
    BY <1>1, <2>2
<1>4. p = q
  BY <1>1, <1>2, <1>3
<1>5. s = r
  <2>1. d * q \in Nat
    OBVIOUS
  <2> QED
    BY <1>1, <1>4, <2>1
<1> QED
  BY <1>4, <1>5 DEF p, s

\* The page of an offset and its sector; an offset of whole sectors is one of whole pages.
LEMMA PagesToSectors ==
  ASSUME NEW x \in Nat
  PROVE  /\ (x \div PageWords) \div SecPages = x \div SecWords
         /\ x % SecWords = 0 => x \div PageWords = (x \div SecWords) * SecPages
<1> DEFINE a == PageWords
           b == SecPages
           d == SecWords
<1>0. a \in Nat \ {0} /\ b \in Nat \ {0} /\ d \in Nat \ {0} /\ d = a * b
  BY GeomAssumption DEF SecWords
<1> HIDE DEF a, b, d
<1> USE <1>0
<1> DEFINE q == x \div a
           r == x % a
           u == q \div b
           v == q % b
<1>1. q \in Nat /\ r \in Nat /\ r < a /\ x = a * q + r
  BY DivFacts
<1> HIDE DEF q, r
<1>2. u \in Nat /\ v \in Nat /\ v < b /\ q = b * u + v
  BY <1>1, DivFacts
<1> HIDE DEF u, v
<1>4. x = d * u + (a * v + r)
  <2>1. a * q = a * (b * u) + a * v
    BY <1>2
  <2>2. a * (b * u) = (a * b) * u
    BY <1>2
  <2>3. a * v \in Nat /\ (a * b) * u \in Nat
    BY <1>2
  <2> QED
    BY <1>1, <2>1, <2>2, <2>3
<1>5. a * v + r \in Nat /\ a * v + r < d
  <2>1. PICK k \in Nat : b = v + 1 + k
    <3>1. b - (v + 1) \in Nat /\ b = v + 1 + (b - (v + 1))
      BY <1>2
    <3> QED
      BY <3>1
  <2>2. a * b = a * v + a + a * k /\ a * k \in Nat /\ a * v \in Nat
    BY <1>2, <2>1
  <2> QED
    BY <1>1, <2>2
<1>6. x \div d = u /\ x % d = a * v + r
  <2> DEFINE rest == a * v + r
  <2>1. rest \in Nat /\ rest < d /\ x = d * u + rest
    BY <1>4, <1>5
  <2> HIDE DEF rest
  <2>2. x \div d = u /\ x % d = rest
    BY <1>2, <2>1, DivUnique
  <2> QED
    BY <2>2 DEF rest
<1>7. x % d = 0 => v = 0
  <2>1. v > 0 => a * v > 0
    BY <1>2
  <2>2. a * v \in Nat
    BY <1>2
  <2> QED
    BY <1>1, <1>2, <1>6, <2>1, <2>2
<1>8. x % d = 0 => q = u * b
  BY <1>2, <1>7
<1> QED
  BY <1>6, <1>8 DEF q, u, a, b, d

\* The difference of two multiples is one, and a smaller number gives a smaller quotient.
LEMMA WholeParts ==
  ASSUME NEW d \in Nat \ {0}, NEW x \in Nat, NEW y \in Nat, y <= x, x % d = 0, y % d = 0,
         NEW diff \in Nat, diff = x - y
  PROVE  diff % d = 0 /\ \A z \in Nat : z < diff => z \div d < diff \div d
<1> DEFINE p == x \div d
           q == y \div d
<1>1. p \in Nat /\ q \in Nat /\ x = d * p /\ y = d * q
  BY DivFacts
<1> HIDE DEF p, q
<1>2. p >= q
  <2> SUFFICES ASSUME p < q PROVE FALSE
    BY <1>1
  <2>1. PICK k \in Nat : q = p + 1 + k
    <3>1. q - (p + 1) \in Nat /\ q = p + 1 + (q - (p + 1))
      BY <1>1
    <3> QED
      BY <3>1
  <2>2. d * q = d * p + d + d * k /\ d * k \in Nat /\ d * p \in Nat
    BY <1>1, <2>1
  <2> QED
    BY <1>1, <2>2
<1> DEFINE n == p - q
<1>3. n \in Nat /\ p = q + n
  BY <1>1, <1>2
<1> HIDE DEF n
<1>4. d * p = d * q + d * n /\ d * n \in Nat /\ d * q \in Nat
  BY <1>1, <1>3
<1>5. diff = d * n /\ diff = d * n + 0
  BY <1>1, <1>4
<1>6. diff \div d = n /\ diff % d = 0
  BY <1>3, <1>5, DivUnique
<1>7. ASSUME NEW z \in Nat, z < diff PROVE z \div d < diff \div d
  <2> DEFINE m == z \div d
  <2>1. m \in Nat /\ d * m \in Nat /\ z % d \in Nat /\ z = d * m + (z % d)
    BY DivFacts
  <2> HIDE DEF m
  <2>2. ~(n <= m)
    <3> SUFFICES ASSUME n <= m PROVE FALSE
      OBVIOUS
    <3>1. PICK k \in Nat : m = n + k
      <4>1. m - n \in Nat /\ m = n + (m - n)
        BY <1>3, <2>1
      <4> QED
        BY <4>1
    <3>2. d * m = d * n + d * k /\ d * k \in Nat
      BY <1>3, <3>1
    <3>3. z < d * n
      BY <1>5, <1>7
    <3> DEFINE dm == d * m
               dn == d * n
               dk == d * k
               zr == z % d
    <3>4. /\ dm = dn + dk /\ dk \in Nat /\ dn \in Nat /\ z < dn /\ z = dm + zr
          /\ zr \in Nat
      BY <1>4, <2>1, <3>2, <3>3
    <3> HIDE DEF dm, dn, dk, zr
    <3> QED
      BY <3>4
  <2>3. m < n
    BY <1>3, <2>1, <2>2
  <2> QED
    BY <1>6, <2>3 DEF m
<1> QED
  BY <1>6, <1>7

\* Ranges in order and apart, wherever they start and end.
Ordered(rs, re) ==
  /\ rs \in Seq(Nat) /\ re \in Seq(Nat) /\ Len(rs) = Len(re)
  /\ \A r \in DOMAIN rs : rs[r] < re[r]
  /\ \A r \in 1..(Len(rs) - 1) : re[r] < rs[r + 1]

LEMMA LayoutIsOrdered == ASSUME NEW rs, NEW re, LayoutOK(rs, re) PROVE Ordered(rs, re)
  BY DEF LayoutOK, Ordered

\* getrange finds a range that holds the address.
LEMMA RangeHolds ==
  ASSUME NEW rs, NEW re, Ordered(rs, re), NEW a \in Nat, getrange(rs, re, a) # 0
  PROVE  /\ getrange(rs, re, a) \in 1..Len(rs)
         /\ rs[getrange(rs, re, a)] \in Nat /\ re[getrange(rs, re, a)] \in Nat
         /\ rs[getrange(rs, re, a)] <= a /\ a <= re[getrange(rs, re, a)]
<1> DEFINE stop == {r \in DOMAIN rs : a < rs[r] \/ a <= re[r]}
           m == Min(stop)
<1>1. /\ rs \in Seq(Nat) /\ re \in Seq(Nat) /\ Len(rs) \in Nat /\ DOMAIN rs = 1..Len(rs)
      /\ Len(re) = Len(rs)
  BY DEF Ordered
<1>2. \A r \in 1..Len(rs) : rs[r] \in Nat /\ re[r] \in Nat
  BY <1>1
<1>3. stop # {} /\ ~(a < rs[m]) /\ getrange(rs, re, a) = m
  BY DEF getrange
<1>4. stop \subseteq 1..Len(rs) /\ stop \subseteq Nat
  BY <1>1
<1>5. m \in stop
  <2> HIDE DEF stop
  <2>1. \E x \in stop : \A y \in stop : x <= y
    BY <1>3, <1>4, LeastNat
  <2> QED
    BY <2>1 DEF Min
<1>6. m \in 1..Len(rs) /\ (a < rs[m] \/ a <= re[m])
  <2> HIDE DEF m
  <2> QED
    BY <1>4, <1>5
<1> HIDE DEF m, stop
<1>7. rs[m] \in Nat /\ re[m] \in Nat
  BY <1>2, <1>6
<1> QED
  BY <1>3, <1>6, <1>7

LEMMA RangeFacts ==
  ASSUME NEW rs, NEW re, LayoutOK(rs, re), NEW a \in Nat, getrange(rs, re, a) # 0
  PROVE  /\ getrange(rs, re, a) \in 1..Len(rs)
         /\ rs[getrange(rs, re, a)] \in Nat /\ re[getrange(rs, re, a)] \in Nat
         /\ rs[getrange(rs, re, a)] <= a /\ a <= re[getrange(rs, re, a)]
  BY LayoutIsOrdered, RangeHolds

\* The sectors are numbered from 0 and those of a range end before the last one does.
LEMMA SecNumbers ==
  ASSUME NEW rs, NEW re, Ordered(rs, re)
  PROVE  /\ \A r \in 1..(Len(rs) + 1) : SecStart(rs, re)[r] \in Nat
         /\ \A r \in 1..Len(rs) : SecStart(rs, re)[r + 1] <= SecStart(rs, re)[Len(rs) + 1]
<1> DEFINE ss == SecStart(rs, re)
           n == Len(rs)
           w(r) == (re[r] + 1 - rs[r]) \div SecWords
<1>1. n \in Nat /\ SecWords \in Nat \ {0}
  BY GeomAssumption DEF Ordered, SecWords
<1>2. ss[1] = 0 /\ \A r \in 1..n : ss[r + 1] = ss[r] + w(r)
  BY <1>1, SecStartFacts
<1>3. ASSUME NEW r \in 1..n PROVE w(r) \in Nat
  <2>1. rs[r] \in Nat /\ re[r] \in Nat /\ rs[r] < re[r]
    <3>1. rs \in Seq(Nat) /\ re \in Seq(Nat) /\ Len(re) = Len(rs) /\ DOMAIN rs = 1..n
          /\ \A q \in DOMAIN rs : rs[q] < re[q]
      BY DEF Ordered
    <3>2. r \in 1..Len(rs) /\ r \in 1..Len(re) /\ r \in DOMAIN rs
      BY <3>1
    <3>3. rs[r] \in Nat /\ re[r] \in Nat
      BY <3>1, <3>2
    <3> QED
      BY <3>1, <3>2, <3>3
  <2>2. re[r] + 1 - rs[r] \in Nat
    BY <2>1
  <2> QED
    BY <1>1, <2>2, DivFacts
<1> HIDE DEF ss, n, w
<1> DEFINE T == {k \in Nat : k \in 1..(n + 1) /\ ss[k] \notin Nat}
<1>4. T = {}
  <2> SUFFICES ASSUME T # {} PROVE FALSE
    OBVIOUS
  <2>1. PICK k \in T : \A j \in T : k <= j
    BY LeastNat
  <2>2. k \in Nat /\ k \in 1..(n + 1) /\ ss[k] \notin Nat /\ k # 1
    BY <1>2, <2>1
  <2>3. k - 1 \in 1..n /\ (k - 1) + 1 = k /\ k - 1 \in Nat /\ ~(k <= k - 1) /\ k - 1 \in 1..(n + 1)
    BY <1>1, <2>2
  <2>4. ss[k - 1] \in Nat
    BY <2>1, <2>3
  <2>5. ss[k] = ss[k - 1] + w(k - 1)
    BY <1>2, <2>3
  <2>6. w(k - 1) \in Nat
    BY <1>3, <2>3
  <2> QED
    BY <2>2, <2>4, <2>5, <2>6
<1>5. \A r \in 1..(n + 1) : ss[r] \in Nat
  BY <1>4
<1> HIDE DEF T
<1> DEFINE Z == {j \in Nat : j < n /\ ~(ss[n - j + 1] <= ss[n + 1])}
<1>6. Z = {}
  <2> SUFFICES ASSUME Z # {} PROVE FALSE
    OBVIOUS
  <2>1. PICK j \in Z : \A i \in Z : j <= i
    BY LeastNat
  <2>2. j \in Nat /\ j < n /\ ~(ss[n - j + 1] <= ss[n + 1])
    BY <2>1
  <2>3. j # 0
    <3> SUFFICES ASSUME j = 0 PROVE FALSE
      OBVIOUS
    <3>1. n - j + 1 = n + 1 /\ n + 1 \in 1..(n + 1)
      BY <1>1
    <3> QED
      BY <1>5, <2>2, <3>1
  <2>4. j - 1 \in Nat /\ j - 1 < n /\ ~(j <= j - 1)
    BY <1>1, <2>2, <2>3
  <2>5. ss[n - (j - 1) + 1] <= ss[n + 1]
    BY <2>1, <2>4
  <2>6. n - j + 1 \in 1..n /\ n - (j - 1) + 1 = (n - j + 1) + 1 /\ n - j + 1 \in 1..(n + 1)
        /\ n + 1 \in 1..(n + 1)
    BY <1>1, <2>2, <2>3
  <2>7. ss[n - (j - 1) + 1] = ss[n - j + 1] + w(n - j + 1) /\ w(n - j + 1) \in Nat
    BY <1>2, <1>3, <2>6
  <2>8. ss[n - j + 1] \in Nat /\ ss[n + 1] \in Nat
    BY <1>5, <2>6
  <2> QED
    BY <2>2, <2>5, <2>7, <2>8
<1>7. ASSUME NEW r \in 1..n PROVE ss[r + 1] <= ss[n + 1]
  <2>1. n - r \in Nat /\ n - r < n /\ n - (n - r) + 1 = r + 1
    BY <1>1
  <2> QED
    BY <1>6, <2>1
<1> QED
  BY <1>5, <1>7 DEF ss, n

LEMMA SecCount ==
  ASSUME NEW rs, NEW re, LayoutOK(rs, re)
  PROVE  /\ \A r \in 1..(Len(rs) + 1) : SecStart(rs, re)[r] \in Nat
         /\ \A r \in 1..Len(rs) : SecStart(rs, re)[r + 1] <= SecStart(rs, re)[Len(rs) + 1]
  BY LayoutIsOrdered, SecNumbers

\* The sector and the page of a legal address exist and belong together, and an address that
\* starts a sector starts its first page.
LEMMA PlaceFacts ==
  ASSUME NEW rs, NEW re, LayoutOK(rs, re), NEW a \in Nat, getrange(rs, re, a) # 0,
         NEW s, s = SECADDR(rs, SecStart(rs, re), getrange(rs, re, a), a),
         NEW p, p = PAGEADDR(rs, SecStart(rs, re), getrange(rs, re, a), a),
         NEW n, n = SecStart(rs, re)[Len(rs) + 1]
  PROVE  /\ n \in Nat /\ s \in Nat /\ s < n
         /\ p \in Nat /\ p < n * SecPages /\ p \div SecPages = s
         /\ a % SecWords = 0 => p = s * SecPages
<1> DEFINE r == getrange(rs, re, a)
           f == SecStart(rs, re)[r]
           x == a - rs[r]
           c == re[r] + 1 - rs[r]
           k == x \div SecWords
           q == x \div PageWords
           v == q % SecPages
<1>1. /\ SecWords \in Nat \ {0} /\ PageWords \in Nat \ {0} /\ SecPages \in Nat \ {0}
      /\ SecWords = PageWords * SecPages
  BY GeomAssumption DEF SecWords
<1>2. r \in 1..Len(rs) /\ Len(rs) \in Nat /\ rs[r] \in Nat /\ re[r] \in Nat /\ rs[r] <= a /\ a <= re[r]
  <2>1. Len(rs) \in Nat
    BY DEF LayoutOK
  <2> QED
    BY <2>1, RangeFacts
<1>3. rs[r] % SecWords = 0 /\ (re[r] + 1) % SecWords = 0
  BY <1>2 DEF LayoutOK
<1>4. s = f + k /\ p = f * SecPages + q
  BY DEF SECADDR, PAGEADDR
<1>5. /\ SecStart(rs, re)[r + 1] = f + c \div SecWords
      /\ f \in Nat /\ n \in Nat /\ SecStart(rs, re)[r + 1] <= n
  <2>1. r \in 1..(Len(rs) + 1) /\ Len(rs) + 1 \in 1..(Len(rs) + 1)
    BY <1>2
  <2> HIDE DEF r
  <2> QED
    BY <1>2, <2>1, SecStartFacts, SecCount
<1> HIDE DEF f, r
<1>6. x \in Nat /\ x < c /\ c \in Nat
  BY <1>2
<1>7. k < c \div SecWords /\ k \in Nat /\ c \div SecWords \in Nat
  <2>1. re[r] + 1 \in Nat /\ rs[r] <= re[r] + 1
    BY <1>2
  <2> DEFINE end == re[r] + 1
             start == rs[r]
  <2>2. /\ end \in Nat /\ start \in Nat /\ start <= end /\ start % SecWords = 0 /\ end % SecWords = 0
        /\ c = end - start
    BY <1>2, <1>3, <2>1
  <2> HIDE DEF end, start, x, c
  <2>3. \A z \in Nat : z < c => z \div SecWords < c \div SecWords
    BY <1>1, <1>6, <2>2, WholeParts
  <2>4. x \div SecWords \in Nat /\ c \div SecWords \in Nat
    BY <1>1, <1>6, DivFacts
  <2> QED
    BY <1>6, <2>3, <2>4
<1>8. ASSUME a % SecWords = 0 PROVE x % SecWords = 0
  <2> DEFINE start == rs[r]
  <2>1. start \in Nat /\ start <= a /\ start % SecWords = 0 /\ x = a - start
    BY <1>2, <1>3
  <2>2. SecWords \in Nat \ {0} /\ x \in Nat /\ a % SecWords = 0
    BY <1>1, <1>6, <1>8
  <2> HIDE DEF start, x
  <2> QED
    BY <2>1, <2>2, WholeParts
<1> HIDE DEF x, c
<1>9. q \in Nat /\ q \div SecPages = k /\ (x % SecWords = 0 => q = k * SecPages)
  <2>1. q \in Nat
    BY <1>1, <1>6, DivFacts
  <2>2. x \in Nat
    BY <1>6
  <2>3. /\ (x \div PageWords) \div SecPages = x \div SecWords
        /\ x % SecWords = 0 => x \div PageWords = (x \div SecWords) * SecPages
    BY <2>2, PagesToSectors
  <2> QED
    BY <2>1, <2>3
<1> HIDE DEF q
<1>10. v \in Nat /\ v < SecPages /\ q = SecPages * k + v
  BY <1>1, <1>9, DivFacts
<1> DEFINE w == c \div SecWords
<1> HIDE DEF k, v, w
<1>11. s \in Nat /\ s < n
  BY <1>4, <1>5, <1>7 DEF w
<1>12. p = SecPages * s + v /\ SecPages * s \in Nat
  BY <1>1, <1>4, <1>5, <1>7, <1>10
<1>13. p \in Nat /\ p \div SecPages = s
  <2>1. p \in Nat
    BY <1>10, <1>12
  <2> QED
    BY <1>1, <1>10, <1>11, <1>12, <2>1, DivUnique
<1>14. p < n * SecPages
  <2>1. PICK j \in Nat : n = s + 1 + j
    <3>1. n - (s + 1) \in Nat /\ n = s + 1 + (n - (s + 1))
      BY <1>5, <1>11
    <3> QED
      BY <3>1
  <2>2. n * SecPages = SecPages * s + SecPages + j * SecPages /\ j * SecPages \in Nat
    BY <1>1, <1>11, <2>1
  <2> QED
    BY <1>1, <1>10, <1>12, <2>2
<1>15. a % SecWords = 0 => p = s * SecPages
  <2> SUFFICES ASSUME a % SecWords = 0 PROVE p = s * SecPages
    OBVIOUS
  <2>1. q = k * SecPages
    BY <1>8, <1>9
  <2> QED
    BY <1>1, <1>4, <1>5, <1>7, <2>1
<1> QED
  BY <1>5, <1>11, <1>13, <1>14, <1>15

\* The pages of sector s
LEMMA PagesOfSector ==
  ASSUME NEW p \in Nat, NEW s \in Nat
  PROVE  /\ p \div SecPages \in Nat
         /\ p \in (s * SecPages)..(s * SecPages + SecPages - 1) <=> p \div SecPages = s
<1> DEFINE q == p \div SecPages
           v == p % SecPages
<1>1. SecPages \in Nat \ {0}
  BY GeomAssumption
<1>2. q \in Nat /\ v \in Nat /\ v < SecPages /\ p = SecPages * q + v
  BY <1>1, DivFacts
<1>3. q = s => p \in (s * SecPages)..(s * SecPages + SecPages - 1)
  <2> HIDE DEF q, v
  <2>1. s * SecPages \in Nat /\ s * SecPages = SecPages * s
    BY <1>1
  <2> QED
    BY <1>1, <1>2, <2>1
<1>4. ASSUME p \in (s * SecPages)..(s * SecPages + SecPages - 1) PROVE q = s
  <2> DEFINE e == p - s * SecPages
  <2>1. s * SecPages \in Nat /\ s * SecPages = SecPages * s
    BY <1>1
  <2>2. e \in Nat /\ e < SecPages /\ p = SecPages * s + e
    BY <1>1, <1>4, <2>1
  <2> HIDE DEF e
  <2> QED
    BY <1>1, <2>2, DivUnique
<1> QED
  BY <1>2, <1>3, <1>4

----------------------------------------------------------------------------
(* What was erased is empty.                                               *)

\* The command that the device works on has a legal address, the start of a sector if it is
\* an erasure; while data is stored its sector is marked as programmed.
EmptyInv ==
  /\ DOMAIN secs = Sectors /\ DOMAIN pgm = Pages
  /\ dpc \in {"erase", "d", "prog", "store"} => cmd.addr \in Nat /\ rangeof(cmd.addr) # 0
  /\ dpc = "erase" => cmd.addr % SecWords = 0
  /\ dpc = "store" => secs[sectorof(cmd.addr)] = "PROG"
  /\ \A p \in Pages : secs[p \div SecPages] # "PROG" => pgm[p] = <<>>

LEMMA AddrFacts ==
  ASSUME NEW a \in Nat, rangeof(a) # 0
  PROVE  /\ sectorof(a) \in Nat /\ sectorof(a) \in Sectors
         /\ pageof(a) \in Nat /\ pageof(a) \in Pages /\ pageof(a) \div SecPages = sectorof(a)
         /\ a % SecWords = 0 => pageof(a) = sectorof(a) * SecPages
<1> DEFINE s == sectorof(a)
           p == pageof(a)
           n == NSecs
<1>1. /\ n \in Nat /\ s \in Nat /\ s < n
      /\ p \in Nat /\ p < n * SecPages /\ p \div SecPages = s
      /\ a % SecWords = 0 => p = s * SecPages
  BY LayoutAssumption, PlaceFacts DEF rangeof, sectorof, pageof, secstart, NSecs
<1> HIDE DEF s, p, n
<1>2. n * SecPages \in Nat
  BY <1>1, GeomAssumption
<1>3. s \in 0..(n - 1) /\ p \in 0..(n * SecPages - 1)
  BY <1>1, <1>2
<1> QED
  BY <1>1, <1>3 DEF s, p, n, Sectors, Pages

\* Every page belongs to a sector.
LEMMA PageInSector ==
  ASSUME NEW p \in Pages
  PROVE  p \in Nat /\ p \div SecPages \in Nat /\ p \div SecPages \in Sectors
<1> DEFINE n == NSecs
           q == p \div SecPages
<1>1. n \in Nat /\ SecPages \in Nat \ {0}
  <2>1. Len(rangestart) \in Nat
    BY LayoutAssumption DEF LayoutOK
  <2>2. Len(rangestart) + 1 \in 1..(Len(rangestart) + 1)
    BY <2>1
  <2> QED
    BY <2>2, LayoutAssumption, GeomAssumption, SecCount DEF NSecs, secstart
<1>2. p \in Nat /\ p <= n * SecPages - 1
  <2>1. n * SecPages \in Nat
    BY <1>1
  <2> QED
    BY <2>1 DEF Pages
<1>3. q \in Nat /\ SecPages * q \in Nat /\ p % SecPages \in Nat /\ p = SecPages * q + (p % SecPages)
  BY <1>1, <1>2, DivFacts
<1> HIDE DEF q, n
<1>4. ~(n <= q)
  <2> SUFFICES ASSUME n <= q PROVE FALSE
    OBVIOUS
  <2>1. PICK k \in Nat : q = n + k
    <3>1. q - n \in Nat /\ q = n + (q - n)
      BY <1>1, <1>3
    <3> QED
      BY <3>1
  <2> DEFINE sq == SecPages * q
             sn == n * SecPages
             sk == SecPages * k
             rest == p % SecPages
  <2>2. sq = sn + sk /\ sk \in Nat /\ sn \in Nat
    BY <1>1, <2>1
  <2>3. p = sq + rest /\ rest \in Nat /\ p <= sn - 1 /\ p \in Nat
    BY <1>2, <1>3
  <2> HIDE DEF sq, sn, sk, rest
  <2> QED
    BY <2>2, <2>3
<1>5. q \in 0..(n - 1)
  BY <1>1, <1>3, <1>4
<1> QED
  BY <1>2, <1>3, <1>5 DEF q, n, Sectors

\* What the command line that the device reads says
LEMMA CommandFacts ==
  ASSUME PortInv, Flow, NEW t \in Tasks, owner = t, rx # <<>>, dpc = "line"
  PROVE  /\ Head(rx)[2] = req[t].op /\ req[t].op \in {"e", "w", "r"}
         /\ Head(rx)[3] = IF req[t].op = "e" THEN req[t].addr \div SecWords ELSE req[t].addr
         /\ req[t].op = "w" => Head(rx)[4] = sizew(req[t].size)
         /\ req[t].addr \in Nat /\ Sound(req[t]) /\ pc[t] # "idle"
<1> DEFINE u == Used(t)
           m == Message(req[t])
<1>1. Len(rx) > 0 /\ u + 1 <= Len(m) /\ Head(rx) = m[u + 1]
  BY NextItem
<1>2. Sound(req[t]) /\ InTouch(t) /\ req[t].op \in {"e", "w", "r"} /\ u \in Int /\ Len(m) \in Nat
      /\ req[t].size \in Nat /\ pc[t] \in {"send", "words", "status"}
  BY HolderFacts
<1>3. req[t].addr \in Nat
  BY <1>2 DEF Sound
<1>4. CASE req[t].op = "w"
  <2>1. Len(m) = req[t].size + 4 /\ m[1] = <<"cmd", "w", req[t].addr, sizew(req[t].size)>>
    BY <1>2, <1>4, LongMessage
  <2>2. u = 0
    BY <1>1, <1>2, <1>4, <2>1 DEF InTouch, WriteStage
  <2>3. Head(rx) = <<"cmd", "w", req[t].addr, sizew(req[t].size)>>
    BY <1>1, <2>1, <2>2
  <2> QED
    BY <1>2, <1>3, <1>4, <2>3
<1>5. CASE req[t].op # "w"
  <2>1. Len(m) = 1 /\ m[1] = <<"cmd", req[t].op, IF req[t].op = "e" THEN req[t].addr \div SecWords ELSE req[t].addr,
                              IF req[t].op = "e" THEN 0 ELSE sizew(Chunk(req[t]))>>
    BY <1>2, <1>5, ShortMessage
  <2>2. u = 0
    BY <1>1, <1>2, <1>5, <2>1 DEF InTouch, EraseStage, ReadStage
  <2>3. Head(rx) = m[1]
    BY <1>1, <2>2
  <2> HIDE DEF m
  <2> QED
    BY <1>2, <1>3, <1>5, <2>1, <2>3
<1> QED
  BY <1>4, <1>5

\* The address that the device makes of it
CommandAddr(r) == IF r.op = "e" THEN (r.addr \div SecWords) * SecWords ELSE r.addr

LEMMA CommandAddrFacts ==
  ASSUME NEW r, r.addr \in Nat
  PROVE  /\ CommandAddr(r) \in Nat /\ (r.op = "e" => CommandAddr(r) % SecWords = 0)
         /\ r.addr % SecWords = 0 => CommandAddr(r) = r.addr
<1> DEFINE q == r.addr \div SecWords
<1>1. SecWords \in Nat \ {0}
  BY GeomAssumption DEF SecWords
<1>2. q \in Nat /\ r.addr % SecWords \in Nat /\ r.addr = SecWords * q + (r.addr % SecWords)
  BY <1>1, DivFacts
<1> HIDE DEF q
<1>3. q * SecWords \in Nat /\ q * SecWords = SecWords * q /\ q * SecWords = SecWords * q + 0
  BY <1>1, <1>2
<1>4. (q * SecWords) % SecWords = 0
  <2> DEFINE x == q * SecWords
             rest == 0
  <2>1. x \in Nat /\ rest \in Nat /\ rest < SecWords /\ x = SecWords * q + rest
    BY <1>1, <1>3
  <2> HIDE DEF x, rest
  <2>2. x % SecWords = rest
    BY <1>1, <1>2, <2>1, DivUnique
  <2> QED
    BY <2>2 DEF x, rest
<1>5. r.addr % SecWords = 0 => q * SecWords = r.addr
  BY <1>2, <1>3
<1>6. CommandAddr(r) = IF r.op = "e" THEN q * SecWords ELSE r.addr
  BY DEF CommandAddr, q
<1> QED
  BY <1>3, <1>4, <1>5, <1>6

\* What the device does with a command line
LEMMA CommandStep ==
  ASSUME PortInv, Flow, DevCommand
  PROVE  \E t \in Tasks :
           /\ owner = t /\ pc[t] # "idle" /\ Sound(req[t]) /\ req[t].op \in {"e", "w", "r"}
           /\ CommandAddr(req[t]) \in Nat
           /\ \/ /\ DeviceError
                 /\ \/ req[t].op # "w" /\ rangeof(CommandAddr(req[t])) = 0
                    \/ req[t].op = "w" /\ ~WriteLegal(req[t].addr, sizew(req[t].size))
              \/ /\ cmd'.addr = CommandAddr(req[t]) /\ UNCHANGED stopped
                 /\ \/ req[t].op = "e" /\ dpc' = "erase" /\ rangeof(CommandAddr(req[t])) # 0
                    \/ req[t].op = "w" /\ dpc' = "d" /\ WriteLegal(req[t].addr, sizew(req[t].size))
                    \/ req[t].op = "r" /\ dpc' = "read" /\ rangeof(CommandAddr(req[t])) # 0
<1>1. PICK t \in Tasks : owner = t
  BY FreeFacts DEF PortInv, PortType, DevCommand
<1>2. dpc = "line" /\ rx # <<>>
  BY DEF DevCommand
<1>3. /\ Head(rx)[2] = req[t].op /\ req[t].op \in {"e", "w", "r"}
      /\ Head(rx)[3] = IF req[t].op = "e" THEN req[t].addr \div SecWords ELSE req[t].addr
      /\ req[t].op = "w" => Head(rx)[4] = sizew(req[t].size)
      /\ req[t].addr \in Nat /\ Sound(req[t]) /\ pc[t] # "idle"
  BY <1>1, <1>2, CommandFacts
<1>4. CommandAddr(req[t]) \in Nat
  BY <1>3, CommandAddrFacts
<1> DEFINE op == Head(rx)[2]
           addr == IF op = "e" THEN Head(rx)[3] * SecWords ELSE Head(rx)[3]
           n == Head(rx)[4]
<1>5. addr = CommandAddr(req[t]) /\ op = req[t].op
  BY <1>3 DEF CommandAddr
<1>6. \/ op = "e" /\ rangeof(addr) = 0 /\ DeviceError
      \/ op = "e" /\ rangeof(addr) # 0 /\ dpc' = "erase" /\ cmd'.addr = addr /\ UNCHANGED stopped
      \/ op = "w" /\ ~WriteLegal(addr, n) /\ DeviceError
      \/ op = "w" /\ WriteLegal(addr, n) /\ dpc' = "d" /\ cmd'.addr = addr /\ UNCHANGED stopped
      \/ op = "r" /\ rangeof(addr) = 0 /\ DeviceError
      \/ op = "r" /\ rangeof(addr) # 0 /\ dpc' = "read" /\ cmd'.addr = addr /\ UNCHANGED stopped
  BY DEF DevCommand
<1>7. op = "w" => addr = req[t].addr /\ n = sizew(req[t].size)
  BY <1>3
<1> HIDE DEF op, addr, n
<1>8. CASE op = "w"
  BY <1>1, <1>3, <1>4, <1>5, <1>6, <1>7, <1>8
<1>9. CASE op # "w"
  BY <1>1, <1>3, <1>4, <1>5, <1>6, <1>9
<1> QED
  BY <1>8, <1>9

\* A command is accepted.
LEMMA EmptyCommand == ASSUME PortInv, Flow, EmptyInv, DevCommand PROVE EmptyInv'
<1>1. PICK t \in Tasks :
        /\ CommandAddr(req[t]) \in Nat /\ Sound(req[t])
        /\ \/ DeviceError
           \/ /\ cmd'.addr = CommandAddr(req[t])
              /\ \/ req[t].op = "e" /\ dpc' = "erase" /\ rangeof(CommandAddr(req[t])) # 0
                 \/ req[t].op = "w" /\ dpc' = "d" /\ WriteLegal(req[t].addr, sizew(req[t].size))
                 \/ req[t].op = "r" /\ dpc' = "read"
  BY CommandStep
<1>2. UNCHANGED <<secs, pgm>> /\ dpc = "line"
  BY DEF DevCommand
<1>3. CASE DeviceError
  BY <1>2, <1>3 DEF DeviceError, EmptyInv, sectorof, rangeof
<1>4. CASE cmd'.addr = CommandAddr(req[t]) /\ req[t].op = "e" /\ dpc' = "erase"
           /\ rangeof(CommandAddr(req[t])) # 0
  <2>1. cmd'.addr \in Nat /\ rangeof(cmd'.addr) # 0 /\ cmd'.addr % SecWords = 0
    BY <1>1, <1>4, CommandAddrFacts DEF Sound
  <2> QED
    BY <1>2, <1>4, <2>1 DEF EmptyInv, rangeof
<1>5. CASE cmd'.addr = CommandAddr(req[t]) /\ req[t].op = "w" /\ dpc' = "d"
           /\ WriteLegal(req[t].addr, sizew(req[t].size))
  <2>1. cmd'.addr \in Nat /\ rangeof(cmd'.addr) # 0
    BY <1>1, <1>5 DEF CommandAddr, WriteLegal
  <2> QED
    BY <1>2, <1>5, <2>1 DEF EmptyInv, rangeof
<1>6. CASE dpc' = "read"
  BY <1>2, <1>6 DEF EmptyInv
<1> QED
  BY <1>1, <1>3, <1>4, <1>5, <1>6

\* An erasure empties exactly the pages of its sector.
LEMMA EmptyErase == ASSUME EmptyInv, DevErase PROVE EmptyInv'
<1> DEFINE s == sectorof(cmd.addr)
           first == pageof(cmd.addr)
<1>1. /\ dpc = "erase" /\ dpc' = "line"
      /\ secs' = [secs EXCEPT ![s] = "ERS"]
      /\ pgm' = [p \in Pages |-> IF p \in first..(first + SecPages - 1) THEN <<>> ELSE pgm[p]]
  BY DEF DevErase
<1>2. DOMAIN secs = Sectors /\ DOMAIN pgm = Pages /\ cmd.addr \in Nat /\ rangeof(cmd.addr) # 0
      /\ cmd.addr % SecWords = 0
  BY <1>1 DEF EmptyInv
<1>3. s \in Nat /\ s \in Sectors /\ first = s * SecPages
  BY <1>2, AddrFacts
<1> HIDE DEF s, first
<1>4. ASSUME NEW p \in Pages, secs'[p \div SecPages] # "PROG" PROVE pgm'[p] = <<>>
  <2>1. p \in Nat /\ (p \in first..(first + SecPages - 1) <=> p \div SecPages = s)
    BY <1>3, PageInSector, PagesOfSector
  <2>2. CASE p \div SecPages = s
    BY <1>1, <2>1, <2>2
  <2>3. CASE p \div SecPages # s
    <3>1. secs[p \div SecPages] # "PROG"
      <4> DEFINE k == p \div SecPages
      <4>1. CASE k \in Sectors
        BY <1>1, <1>2, <1>4, <2>3, <4>1
      <4>2. k \in Sectors
        BY PageInSector
      <4> QED
        BY <4>1, <4>2
    <3>2. pgm[p] = <<>>
      BY <3>1 DEF EmptyInv
    <3> QED
      BY <1>1, <2>1, <2>3, <3>2
  <2> QED
    BY <2>2, <2>3
<1>5. DOMAIN secs' = Sectors /\ DOMAIN pgm' = Pages
  BY <1>1, <1>2
<1> QED
  BY <1>1, <1>4, <1>5 DEF EmptyInv

\* The start of a program operation and the words it stores: only pages of sectors that are
\* marked change.
LEMMA EmptyProgram == ASSUME EmptyInv, DevProgram PROVE EmptyInv'
<1> DEFINE s == sectorof(cmd.addr)
           page == pageof(cmd.addr)
<1>1. /\ dpc = "prog" /\ dpc' = "store" /\ cmd' = cmd
      /\ secs' = [secs EXCEPT ![s] = "PROG"]
      /\ \E v : pgm' = [pgm EXCEPT ![page] = v]
  BY DEF DevProgram
<1>2. DOMAIN secs = Sectors /\ DOMAIN pgm = Pages /\ cmd.addr \in Nat /\ rangeof(cmd.addr) # 0
  BY <1>1 DEF EmptyInv
<1>3. s \in Sectors /\ page \in Pages /\ page \div SecPages = s
  BY <1>2, AddrFacts
<1>4. sectorof(cmd.addr)' = s /\ rangeof(cmd.addr)' = rangeof(cmd.addr)
  BY <1>1 DEF sectorof, rangeof
<1> HIDE DEF s, page
<1>5. ASSUME NEW p \in Pages, secs'[p \div SecPages] # "PROG" PROVE pgm'[p] = <<>>
  <2> DEFINE k == p \div SecPages
  <2>1. k \in Sectors
    BY PageInSector
  <2>2. k # s /\ p # page
    BY <1>1, <1>2, <1>3, <1>5
  <2>3. secs[k] # "PROG"
    <3> HIDE DEF k
    <3>1. secs'[k] # "PROG"
      BY <1>5 DEF k
    <3> QED
      BY <1>1, <1>2, <2>1, <2>2, <3>1
  <2>4. pgm[p] = <<>>
    BY <2>3 DEF EmptyInv
  <2> QED
    BY <1>1, <1>2, <2>2, <2>4
<1>6. DOMAIN secs' = Sectors /\ DOMAIN pgm' = Pages /\ secs'[s] = "PROG"
  BY <1>1, <1>2, <1>3
<1> QED
  BY <1>1, <1>2, <1>4, <1>5, <1>6 DEF EmptyInv

LEMMA EmptyStore == ASSUME EmptyInv, DevStore PROVE EmptyInv'
<1> DEFINE s == sectorof(cmd.addr)
           page == pageof(cmd.addr)
<1>1. /\ dpc = "store" /\ dpc' \in {"store", "eol"} /\ cmd' = cmd /\ secs' = secs
      /\ pgm' = pgm \/ \E v : pgm' = [pgm EXCEPT ![page] = v]
  BY DEF DevStore
<1>2. DOMAIN secs = Sectors /\ DOMAIN pgm = Pages /\ cmd.addr \in Nat /\ rangeof(cmd.addr) # 0
      /\ secs[s] = "PROG"
  BY <1>1 DEF EmptyInv
<1>3. s \in Sectors /\ page \in Pages /\ page \div SecPages = s
  BY <1>2, AddrFacts
<1>4. sectorof(cmd.addr)' = s /\ rangeof(cmd.addr)' = rangeof(cmd.addr)
  BY <1>1 DEF sectorof, rangeof
<1> HIDE DEF s, page
<1>5. ASSUME NEW p \in Pages, secs'[p \div SecPages] # "PROG" PROVE pgm'[p] = <<>>
  <2>1. p # page /\ secs[p \div SecPages] # "PROG"
    BY <1>1, <1>2, <1>3, <1>5
  <2>2. pgm[p] = <<>>
    BY <2>1 DEF EmptyInv
  <2> QED
    BY <1>1, <1>2, <2>1, <2>2
<1>6. DOMAIN pgm' = Pages
  BY <1>1, <1>2
<1> QED
  BY <1>1, <1>2, <1>4, <1>5, <1>6 DEF EmptyInv

LEMMA EmptyStep == StepInv /\ EmptyInv /\ [Next]_vars => EmptyInv'
<1> SUFFICES ASSUME StepInv, EmptyInv, [Next]_vars PROVE EmptyInv'
  OBVIOUS
<1>1. CASE UNCHANGED dev
  BY <1>1 DEF dev, EmptyInv, sectorof, rangeof
<1>2. CASE ~UNCHANGED vars
  <2>1. ~stopped /\ (DeviceStep \/ \E t \in Tasks : Call(t) \/ DriverStep(t)) /\ PortInv /\ Flow
    BY <1>2 DEF Next, StepInv
  <2>2. CASE DevCommand
    BY <2>1, <2>2, EmptyCommand
  <2>3. CASE DevErase \/ DevProgram \/ DevStore
    BY <2>3, EmptyErase, EmptyProgram, EmptyStore
  <2>4. CASE DevData
    BY <2>4 DEF DevData, EmptyInv, rangeof
  <2>5. CASE DevEol \/ DevRead \/ DevReply \/ DevFlood
    <3>1. UNCHANGED <<secs, pgm>> /\ dpc' \notin {"erase", "d", "prog", "store"}
      BY <2>5 DEF DevEol, DevRead, DevReply, DevFlood
    <3> QED
      BY <3>1 DEF EmptyInv
  <2>6. ASSUME NEW t \in Tasks, Call(t) \/ DriverStep(t) PROVE EmptyInv'
    BY <1>1, <2>6, DriverLeavesDevice
  <2> QED
    BY <2>1, <2>2, <2>3, <2>4, <2>5, <2>6 DEF DeviceStep
<1> QED
  BY <1>1, <1>2 DEF vars

LEMMA EmptyInit == Init => EmptyInv
  BY DEF Init, EmptyInv

\* For every geometry and layout, and every set of calls of whole words: only sectors that
\* are marked as programmed have stored words (the "e" command of flash() and the pages that
\* it clears), so that nothing that was erased comes back.
THEOREM ErasedStaysEmpty == "small" \notin Habits /\ Spec => []ErasedIsEmpty
<1>1. EmptyInv => ErasedIsEmpty
  <2> SUFFICES ASSUME EmptyInv, NEW a \in 0..rangeend[Len(rangeend)], rangeof(a) # 0,
                      secs[sectorof(a)] # "PROG"
               PROVE  pgm[pageof(a)] = <<>>
    BY DEF ErasedIsEmpty
  <2>1. rangeend \in Seq(Nat) /\ Len(rangeend) \in Nat /\ Len(rangeend) > 0
    BY LayoutAssumption DEF LayoutOK
  <2>2. rangeend[Len(rangeend)] \in Nat
    BY <2>1
  <2>3. a \in Nat
    BY <2>2
  <2>4. pageof(a) \in Pages /\ pageof(a) \div SecPages = sectorof(a)
    BY <2>3, AddrFacts
  <2> QED
    BY <2>4 DEF EmptyInv
<1> SUFFICES ASSUME "small" \notin Habits PROVE Spec => []ErasedIsEmpty
  OBVIOUS
<1>2. StepInv /\ EmptyInv /\ [Next]_vars => (StepInv /\ EmptyInv)'
  BY StepInvStep, EmptyStep
<1> QED
  BY StepInvInit, EmptyInit, <1>1, <1>2, PTL DEF Spec

----------------------------------------------------------------------------
(* Legal calls do not stop the simulation.                                 *)

LegalInv ==
  "illegal" \notin Habits =>
    ~stopped /\ \A t \in Tasks : pc[t] # "idle" => ~Illegal(req[t])

\* No sector becomes unknown again.
LEMMA KnownStays ==
  ASSUME EmptyInv, [Next]_vars, NEW s \in Sectors, secs[s] # "UNK"
  PROVE  secs'[s] # "UNK"
<1>0. DOMAIN secs = Sectors
  BY DEF EmptyInv
<1>1. CASE DevProgram
  BY <1>0, <1>1 DEF DevProgram
<1>2. CASE DevErase
  BY <1>0, <1>2 DEF DevErase
<1>3. CASE DevCommand \/ DevData \/ DevStore \/ DevEol \/ DevRead \/ DevReply \/ DevFlood
  BY <1>3 DEF DevCommand, DevData, DevStore, DevEol, DevRead, DevReply, DevFlood
<1>4. ASSUME NEW t \in Tasks, Call(t) \/ DriverStep(t) PROVE secs' = secs
  BY <1>4, DriverLeavesDevice DEF dev
<1>5. CASE UNCHANGED vars
  BY <1>5 DEF vars, dev
<1> QED
  BY <1>1, <1>2, <1>3, <1>4, <1>5 DEF Next, DeviceStep

\* What was legal when the call was made stays legal.
LEMMA LegalStays ==
  ASSUME EmptyInv, [Next]_vars, NEW r, r.addr \in Nat, ~Illegal(r)
  PROVE  ~Illegal(r)'
<1>1. r.op = "w" => WriteLegal(r.addr, sizew(r.size))'
  <2> SUFFICES ASSUME r.op = "w" PROVE WriteLegal(r.addr, sizew(r.size))'
    OBVIOUS
  <2>1. WriteLegal(r.addr, sizew(r.size))
    BY DEF Illegal
  <2>2. rangeof(r.addr) # 0 /\ secs[sectorof(r.addr)] # "UNK"
    BY <2>1 DEF WriteLegal
  <2>3. secs'[sectorof(r.addr)] # "UNK"
    BY <2>2, AddrFacts, KnownStays
  <2> QED
    BY <2>1, <2>3 DEF WriteLegal
<1>2. Illegal(r)' <=> \/ Reported(r)
                      \/ r.op = "e" /\ \E i \in 0..(r.size \div (SecWords * WordBytes) - 1) :
                                          rangeof(r.addr + i * SecWords) = 0
                      \/ r.op = "w" /\ ~WriteLegal(r.addr, sizew(r.size))'
                      \/ r.op = "r" /\ \E i \in 0..((r.size - 1) \div PageBytes) :
                                          rangeof(r.addr + i * PageWords) = 0
  BY DEF Illegal
<1> QED
  BY <1>1, <1>2 DEF Illegal

LEMMA StepDiv ==
  ASSUME NEW d \in Nat \ {0}, NEW x \in Nat, NEW y \in Nat, y = x + d
  PROVE  y % d = x % d /\ y \div d = (x \div d) + 1
<1> DEFINE q == x \div d
           r == x % d
           k == q + 1
<1>1. q \in Nat /\ r \in Nat /\ r < d /\ x = d * q + r
  BY DivFacts
<1> HIDE DEF q, r
<1>2. k \in Nat /\ d * k = d * q + d /\ d * q \in Nat
  BY <1>1
<1>3. y = d * k + r
  BY <1>1, <1>2
<1> HIDE DEF k
<1>4. y \div d = k /\ y % d = r
  BY <1>1, <1>2, <1>3, DivUnique
<1> QED
  BY <1>4 DEF k, q, r

\* What is left of a legal call is legal.
LEMMA RestLegal ==
  ASSUME NEW r, Sound(r), ~Illegal(r), NEW resp, Rest(r, resp) # NoReq
  PROVE  ~Illegal(Rest(r, resp))
<1> DEFINE SB == SecWords * WordBytes
           PB == PageWords * WordBytes
           rest == Rest(r, resp)
<1>1. /\ r \in [op: {"e", "w", "r"}, addr: Nat, size: Nat \ {0}, data: Seq([1..WordBytes -> 0..255])]
      /\ r.addr \in Nat /\ r.size \in Nat
  BY DEF Sound
<1>2. SecWords \in Nat \ {0} /\ SB \in Nat \ {0} /\ PageWords \in Nat \ {0} /\ PB \in Nat \ {0}
  <2>1. SecWords \in Nat \ {0} /\ PageWords \in Nat \ {0} /\ WordBytes \in Nat \ {0}
    BY WordAssumption, GeomAssumption DEF SecWords
  <2> QED
    BY <2>1
<1>3. CASE r.op = "e" /\ r.size > SB
  <2> DEFINE q == r.size - SB
             a == r.addr + SecWords
  <2>1. rest = [r EXCEPT !.addr = r.addr + SecWords, !.size = r.size - SecWords * WordBytes]
    BY <1>3 DEF Rest
  <2>2. rest.op = "e" /\ rest.addr = a /\ rest.size = q
    BY <1>1, <1>3, <2>1
  <2>3. a \in Nat /\ q \in Nat /\ r.size = q + SB
    BY <1>1, <1>2, <1>3
  <2> HIDE DEF rest, q
  <2>4. r.addr % SecWords = 0 /\ r.size % SB = 0
        /\ \A i \in 0..(r.size \div SB - 1) : rangeof(r.addr + i * SecWords) # 0
    BY <1>3 DEF Illegal, Reported
  <2>5. a % SecWords = 0
    BY <1>1, <1>2, <2>3, <2>4, StepDiv
  <2>6. q % SB = 0 /\ r.size \div SB = (q \div SB) + 1 /\ q \div SB \in Nat
    <3> HIDE DEF SB
    <3> QED
      BY <1>1, <1>2, <2>3, <2>4, StepDiv, DivFacts
  <2>7. ASSUME NEW i \in 0..(q \div SB - 1) PROVE rangeof(a + i * SecWords) # 0
    <3>1. i + 1 \in 0..(r.size \div SB - 1)
      BY <2>6
    <3>2. a + i * SecWords = r.addr + (i + 1) * SecWords
      BY <1>1, <1>2, <2>6
    <3>3. rangeof(r.addr + (i + 1) * SecWords) # 0
      <4> DEFINE j == i + 1
      <4> HIDE DEF j
      <4>1. rangeof(r.addr + j * SecWords) # 0
        BY <2>4, <3>1 DEF j
      <4> QED
        BY <4>1 DEF j
    <3> QED
      BY <3>2, <3>3
  <2>8. ~Reported(rest)
    BY <2>2, <2>5, <2>6 DEF Reported
  <2>9. \A i \in 0..(rest.size \div (SecWords * WordBytes) - 1) : rangeof(rest.addr + i * SecWords) # 0
    BY <2>2, <2>7
  <2>10. rest.op = "e"
    BY <2>2
  <2>11. ~Illegal(rest)
    BY <2>8, <2>9, <2>10 DEF Illegal
  <2> QED
    BY <2>11 DEF rest
<1>4. CASE r.op = "r" /\ r.size > Chunk(r) /\ resp = "OK"
  <2> DEFINE q == r.size - PB
             a == r.addr + PageWords
  <2>1. rest = [r EXCEPT !.addr = r.addr + PageWords, !.size = r.size - Chunk(r)] /\ Chunk(r) = PB
    BY <1>4, ChunkFacts DEF Rest
  <2>2. rest.op = "r" /\ rest.addr = a /\ rest.size = q
    BY <1>1, <1>4, <2>1
  <2> DEFINE x == q - 1
             y == r.size - 1
  <2>3. a \in Nat /\ x \in Nat /\ y \in Nat /\ y = x + PB
    BY <1>1, <1>2, <1>4, <2>1
  <2>4. \A i \in 0..(y \div PB) : rangeof(r.addr + i * PageWords) # 0
    BY <1>4 DEF Illegal, PageBytes
  <2> HIDE DEF rest, x, y, PB
  <2>5. y \div PB = (x \div PB) + 1 /\ x \div PB \in Nat
    BY <1>2, <2>3, StepDiv, DivFacts
  <2>6. ASSUME NEW i \in 0..(x \div PB) PROVE rangeof(a + i * PageWords) # 0
    <3>1. i + 1 \in 0..(y \div PB)
      BY <2>5
    <3>2. a + i * PageWords = r.addr + (i + 1) * PageWords
      BY <1>1, <1>2, <2>5
    <3>3. rangeof(r.addr + (i + 1) * PageWords) # 0
      <4> DEFINE j == i + 1
      <4> HIDE DEF j
      <4>1. rangeof(r.addr + j * PageWords) # 0
        BY <2>4, <3>1 DEF j
      <4> QED
        BY <4>1 DEF j
    <3> QED
      BY <3>2, <3>3
  <2>7. ~Reported(rest)
    BY <2>2 DEF Reported
  <2>8. \A i \in 0..((rest.size - 1) \div PageBytes) : rangeof(rest.addr + i * PageWords) # 0
    <3>1. rest.size - 1 = x /\ PageBytes = PB
      BY <2>2 DEF x, PB, PageBytes
    <3> QED
      BY <2>2, <2>6, <3>1
  <2>9. rest.op = "r"
    BY <2>2
  <2>10. ~Illegal(rest)
    BY <2>7, <2>8, <2>9 DEF Illegal
  <2> QED
    BY <2>10 DEF rest
<1> QED
  BY <1>3, <1>4 DEF Rest

LEMMA LegalKept ==
  ASSUME EmptyInv, [Next]_vars, NEW x \in Tasks, NEW r, r.addr \in Nat, ~Illegal(r), req'[x] = r
  PROVE  ~Illegal(req[x])'
<1>1. ~Illegal(r)'
  BY LegalStays
<1>2. Illegal(req[x])' <=> Illegal(r)'
  <2>1. Reported(req[x])' <=> Reported(r)'
    BY DEF Reported
  <2>2. WriteLegal(req[x].addr, sizew(req[x].size))' <=> WriteLegal(r.addr, sizew(r.size))'
    BY DEF WriteLegal, sizew, rangeof, sectorof, Crosses
  <2> QED
    BY <2>1, <2>2 DEF Illegal, rangeof
<1> QED
  BY <1>1, <1>2

\* A legal call is accepted by the device, whatever happened since it was made.
LEMMA LegalCommand ==
  ASSUME PortInv, Flow, ~stopped, DevCommand, \A t \in Tasks : pc[t] # "idle" => ~Illegal(req[t])
  PROVE  ~stopped'
<1>1. PICK t \in Tasks :
        /\ pc[t] # "idle" /\ Sound(req[t]) /\ req[t].op \in {"e", "w", "r"}
        /\ \/ req[t].op # "w" /\ rangeof(CommandAddr(req[t])) = 0
           \/ req[t].op = "w" /\ ~WriteLegal(req[t].addr, sizew(req[t].size))
           \/ UNCHANGED stopped
  BY CommandStep
<1>2. ~Illegal(req[t]) /\ req[t].addr \in Nat /\ req[t].size \in Nat /\ req[t].size > 0
  BY <1>1 DEF Sound
<1>3. req[t].op = "w" => WriteLegal(req[t].addr, sizew(req[t].size))
  BY <1>2 DEF Illegal
<1>4. ASSUME req[t].op = "e" PROVE rangeof(CommandAddr(req[t])) # 0
  <2> DEFINE a == req[t].addr
             n == req[t].size
             SB == SecWords * WordBytes
  <2>1. a % SecWords = 0 /\ n % SB = 0 /\ \A i \in 0..(n \div SB - 1) : rangeof(a + i * SecWords) # 0
    BY <1>2, <1>4 DEF Illegal, Reported
  <2>2. SecWords \in Nat \ {0} /\ SB \in Nat \ {0}
    <3>1. SecWords \in Nat \ {0} /\ WordBytes \in Nat \ {0}
      BY WordAssumption, GeomAssumption DEF SecWords
    <3> QED
      BY <3>1
  <2>3. a \in Nat /\ n \in Nat /\ n > 0 /\ CommandAddr(req[t]) = a
    BY <1>2, <2>1, CommandAddrFacts
  <2> HIDE DEF n, SB, a
  <2>4. n \div SB \in Nat /\ n = SB * (n \div SB) + 0
    <3>1. n = SB * (n \div SB) + (n % SB) /\ n \div SB \in Nat
      BY <2>2, <2>3, DivFacts
    <3> QED
      BY <2>1, <3>1
  <2>5. n \div SB # 0
    <3> SUFFICES ASSUME n \div SB = 0 PROVE FALSE
      OBVIOUS
    <3>1. SB * (n \div SB) = 0
      BY <2>2
    <3> QED
      BY <2>3, <2>4, <3>1
  <2>6. 0 \in 0..(n \div SB - 1) /\ a + 0 * SecWords = a
    BY <2>2, <2>3, <2>4, <2>5
  <2>7. rangeof(a) # 0
    BY <2>1, <2>6
  <2> QED
    BY <2>3, <2>7
<1>5. ASSUME req[t].op = "r" PROVE rangeof(CommandAddr(req[t])) # 0
  <2> DEFINE a == req[t].addr
             y == req[t].size - 1
  <2>1. \A i \in 0..(y \div PageBytes) : rangeof(a + i * PageWords) # 0
    BY <1>2, <1>5 DEF Illegal
  <2>2. PageWords \in Nat \ {0} /\ PageBytes \in Nat \ {0}
    BY WordAssumption, GeomAssumption DEF PageBytes
  <2>3. a \in Nat /\ y \in Nat /\ CommandAddr(req[t]) = a
    BY <1>2, <1>5 DEF CommandAddr
  <2> HIDE DEF y, a
  <2>4. y \div PageBytes \in Nat
    BY <2>2, <2>3, DivFacts
  <2>5. 0 \in 0..(y \div PageBytes) /\ a + 0 * PageWords = a
    BY <2>2, <2>3, <2>4
  <2>6. rangeof(a) # 0
    BY <2>1, <2>5
  <2> QED
    BY <2>3, <2>6
<1> QED
  BY <1>1, <1>3, <1>4, <1>5

LEMMA LegalStep == StepInv /\ EmptyInv /\ LegalInv /\ [Next]_vars => LegalInv'
<1> SUFFICES ASSUME StepInv, EmptyInv, LegalInv, [Next]_vars, "illegal" \notin Habits
             PROVE  ~stopped' /\ \A x \in Tasks : pc'[x] # "idle" => ~Illegal(req[x])'
  BY DEF LegalInv
<1>1. ~stopped /\ (\A x \in Tasks : pc[x] # "idle" => ~Illegal(req[x])) /\ PortInv /\ Flow
  BY DEF LegalInv, StepInv
<1>2. pc \in [Tasks -> PCs] /\ DOMAIN req = Tasks /\ \A x \in Tasks : pc[x] # "idle" => req[x].addr \in Nat
  BY <1>1 DEF PortInv, PortType, Flow, FlowType, Sound
<1>3. ASSUME NEW x \in Tasks, pc[x] # "idle", req'[x] = req[x] PROVE ~Illegal(req[x])'
  <2>1. PICK r : r = req[x]
    OBVIOUS
  <2>2. r.addr \in Nat /\ ~Illegal(r) /\ req'[x] = r
    BY <1>1, <1>2, <1>3, <2>1
  <2> QED
    BY <2>2, LegalKept
<1>4. ASSUME UNCHANGED req, \A x \in Tasks : pc'[x] # "idle" => pc[x] # "idle", NEW x \in Tasks, pc'[x] # "idle"
      PROVE  ~Illegal(req[x])'
  BY <1>3, <1>4
<1>5. CASE UNCHANGED vars
  <2>1. UNCHANGED <<req, pc, stopped>>
    BY <1>5 DEF vars, drv
  <2> QED
    BY <1>1, <1>4, <2>1
<1>6. CASE DeviceStep
  <2>1. UNCHANGED <<req, pc>>
    BY <1>6 DEF DeviceStep, DevCommand, DevErase, DevData, DevProgram, DevStore, DevEol, DevRead,
                DevReply, DevFlood, drv
  <2>2. ~stopped'
    <3>1. CASE DevCommand
      BY <1>1, <3>1, LegalCommand
    <3>2. CASE ~DevCommand
      BY <1>1, <1>6, <3>2 DEF DeviceStep, DevErase, DevData, DevProgram, DevStore, DevEol, DevRead,
                              DevReply, DevFlood
    <3> QED
      BY <3>1, <3>2
  <2> QED
    BY <1>4, <2>1, <2>2
<1>7. ASSUME NEW t \in Tasks, Call(t)
      PROVE  ~stopped' /\ \A x \in Tasks : pc'[x] # "idle" => ~Illegal(req[x])'
  <2>1. PICK r \in Requests :
          /\ Permitted(r)
          /\ \/ Reported(r) /\ stopped' = TRUE
             \/ /\ pc' = [pc EXCEPT ![t] = "lock"]
                /\ req' = [req EXCEPT ![t] = r]
                /\ UNCHANGED stopped
    BY <1>7 DEF Call
  <2>2. ~Illegal(r) /\ ~Reported(r) /\ r.addr \in Nat
    BY <2>1, RequestAssumption DEF Permitted, Illegal
  <2>3. ASSUME NEW x \in Tasks, pc'[x] # "idle" PROVE ~Illegal(req[x])'
    <3>1. CASE x = t
      <4>1. req'[x] = r
        BY <1>2, <2>1, <2>2, <3>1
      <4> QED
        BY <2>2, <4>1, LegalKept
    <3>2. CASE x # t
      BY <1>2, <1>3, <2>1, <2>2, <2>3, <3>2
    <3> QED
      BY <3>1, <3>2
  <2> QED
    BY <1>1, <2>1, <2>2, <2>3
<1>8. ASSUME NEW t \in Tasks, TakeStatus(t)
      PROVE  ~stopped' /\ \A x \in Tasks : pc'[x] # "idle" => ~Illegal(req[x])'
  <2>1. PICK resp : resp = retflerr(Head(tx))
    OBVIOUS
  <2>2. PICK r : r = req[t]
    OBVIOUS
  <2>3. PICK rest : rest = Rest(r, resp)
    OBVIOUS
  <2>4. /\ pc[t] = "status" /\ UNCHANGED stopped /\ req' = [req EXCEPT ![t] = rest]
        /\ rest = NoReq => pc' = [pc EXCEPT ![t] = "idle"]
        /\ rest # NoReq => pc' = [pc EXCEPT ![t] = "lock"]
    BY <1>8, <2>1, <2>2, <2>3 DEF TakeStatus
  <2>5. Sound(r) /\ ~Illegal(r)
    BY <1>1, <2>2, <2>4 DEF Flow
  <2>6. rest # NoReq => ~Illegal(rest) /\ Sound(rest)
    BY <2>3, <2>5, RestLegal, RestSound
  <2>7. ASSUME NEW x \in Tasks, pc'[x] # "idle" PROVE ~Illegal(req[x])'
    <3>1. CASE x = t
      <4>1. rest # NoReq /\ req'[x] = rest
        BY <1>2, <2>4, <2>7, <3>1
      <4>2. ~Illegal(rest) /\ rest.addr \in Nat
        BY <2>6, <4>1 DEF Sound
      <4> QED
        BY <4>1, <4>2, LegalKept
    <3>2. CASE x # t
      BY <1>2, <1>3, <2>4, <2>7, <3>2
    <3> QED
      BY <3>1, <3>2
  <2> QED
    BY <1>1, <2>4, <2>7
<1>9. ASSUME NEW t \in Tasks, Lock(t) \/ Send(t) \/ TakeWord(t)
      PROVE  ~stopped' /\ \A x \in Tasks : pc'[x] # "idle" => ~Illegal(req[x])'
  <2>1. UNCHANGED <<req, stopped>> /\ pc[t] # "idle" /\ \E v : pc' = [pc EXCEPT ![t] = v]
    BY <1>9 DEF Lock, Send, TakeWord
  <2>2. \A x \in Tasks : pc'[x] # "idle" => pc[x] # "idle"
    BY <1>2, <2>1
  <2> QED
    BY <1>1, <1>4, <2>1, <2>2
<1> QED
  BY <1>5, <1>6, <1>7, <1>8, <1>9 DEF Next, DriverStep

\* For every geometry, layout, number of tasks and set of calls of whole words: a simulation
\* whose tasks make only calls that are legal when they are made is never stopped by an
\* error of the driver or of the device, although other tasks erase and write between the
\* call and the moment the device reads its command.
THEOREM LegalCallsNeverStop == "small" \notin Habits /\ Spec => []LegalNeverStops
<1>1. Init => LegalInv
  BY DEF Init, LegalInv
<1>2. LegalInv => LegalNeverStops
  BY DEF LegalInv, LegalNeverStops
<1> SUFFICES ASSUME "small" \notin Habits PROVE Spec => []LegalNeverStops
  OBVIOUS
<1>3. StepInv /\ EmptyInv /\ LegalInv /\ [Next]_vars => (StepInv /\ EmptyInv /\ LegalInv)'
  BY StepInvStep, EmptyStep, LegalStep
<1> QED
  BY StepInvInit, EmptyInit, <1>1, <1>2, <1>3, PTL DEF Spec

----------------------------------------------------------------------------
(* What a read returns.                                                    *)

IsWord(w) == IsSeq(w) /\ Len(w) = WordBytes

HoldsWords(s) == IsSeq(s) /\ \A k \in 1..Len(s) : IsWord(s[k])

\* The words of the message that a task is working on
Total(t) == sizew(Chunk(req[t]))

\* The contents of the address are known.
Known(a) == rangeof(a) # 0 /\ secs[sectorof(a)] # "UNK"

\* Byte j of what the driver has still to read
Coming(j) == IF j <= Len(tx) THEN tx[j] ELSE reply[j - Len(tx)]

\* The answer to a read is under way: the words that the task has taken and the bytes that
\* are still to come are together the words that the flash holds, and then the status.
Arriving(t) ==
  LET n == Total(t) - need
  IN  /\ n \in Nat /\ n <= Len(got[t])
      /\ \/ dpc = "reply" /\ Len(tx) + Len(reply) = need * WordBytes
         \/ dpc = "line" /\ Len(tx) = need * WordBytes + 1
      /\ \A i \in 1..n : Known(req[t].addr + i - 1)
           => got[t][Len(got[t]) - n + i] = StoredWord(req[t].addr + i - 1)
      /\ \A i \in 1..need, b \in 1..WordBytes : Known(req[t].addr + n + i - 1)
           => Coming((i - 1) * WordBytes + b) = StoredWord(req[t].addr + n + i - 1)[b]

\* The pages hold words, and what is read stays in its page.
ReadType ==
  /\ \A p \in Pages : HoldsWords(pgm[p])
  /\ DOMAIN got = Tasks /\ \A t \in Tasks : IsSeq(got[t])

InPage == \A t \in Tasks : pc[t] # "idle" /\ req[t].op = "r" => ~Crosses(req[t].addr, Total(t))

Answering ==
  /\ dpc = "read" => cmd.addr = req[owner].addr /\ rangeof(cmd.addr) # 0
  /\ owner # NoTask /\ req[owner].op = "r" /\ dpc # "read" /\ Used(owner) = 1 => Arriving(owner)

\* The inductive invariant, as long as the simulation runs
ReadInv == ~stopped => ReadType /\ InPage /\ Answering

\* Sequences of the same elements are equal.
LEMMA SameSeq ==
  ASSUME NEW s, NEW t, IsSeq(s), IsSeq(t), Len(s) = Len(t), \A i \in 1..Len(s) : s[i] = t[i]
  PROVE  s = t
<1>1. PICK S : s \in Seq(S)
  BY DEF IsSeq
<1>2. PICK T : t \in Seq(T)
  BY DEF IsSeq
<1>3. s \in Seq(S \cup T) /\ t \in Seq(S \cup T)
  BY <1>1, <1>2
<1> QED
  BY <1>3, SeqEqual

LEMMA FillFacts ==
  ASSUME NEW e, NEW n \in Nat
  PROVE  IsSeq(Fill(e, n)) /\ Len(Fill(e, n)) = n /\ \A i \in 1..n : Fill(e, n)[i] = e
<1>1. Fill(e, n) \in Seq({e}) /\ Len(Fill(e, n)) = n /\ \A i \in 1..n : Fill(e, n)[i] = e
  BY DEF Fill
<1> QED
  BY <1>1 DEF IsSeq

LEMMA ExceptFacts ==
  ASSUME NEW s, IsSeq(s), NEW k, NEW e
  PROVE  /\ IsSeq([s EXCEPT ![k] = e]) /\ Len([s EXCEPT ![k] = e]) = Len(s)
         /\ \A i \in 1..Len(s) : [s EXCEPT ![k] = e][i] = IF i = k THEN e ELSE s[i]
<1>1. PICK S : s \in Seq(S)
  BY DEF IsSeq
<1> DEFINE T == S \cup {e}
<1>2. s \in Seq(T) /\ e \in T
  BY <1>1
<1> HIDE DEF T
<1>3. [s EXCEPT ![k] = e] \in Seq(T) /\ Len([s EXCEPT ![k] = e]) = Len(s)
  <2>1. CASE k \in 1..Len(s)
    BY <1>2, <2>1, ExceptSeq
  <2>2. CASE k \notin 1..Len(s)
    <3>1. s = [i \in 1..Len(s) |-> s[i]]
      BY <1>2
    <3>2. [s EXCEPT ![k] = e] = s
      BY <2>2, <3>1
    <3> QED
      BY <1>2, <3>2
  <2> QED
    BY <2>1, <2>2
<1>4. \A i \in 1..Len(s) : [s EXCEPT ![k] = e][i] = IF i = k THEN e ELSE s[i]
  BY <1>2
<1> QED
  BY <1>3, <1>4 DEF IsSeq

LEMMA FirstFacts ==
  ASSUME NEW s, IsSeq(s), NEW n \in Nat, n <= Len(s)
  PROVE  /\ IsSeq(SubSeq(s, 1, n)) /\ Len(SubSeq(s, 1, n)) = n
         /\ \A i \in 1..n : SubSeq(s, 1, n)[i] = s[i]
         /\ \A i \in 1..(Len(s) - n) : SubSeq(s, n + 1, Len(s))[i] = s[n + i]
<1>1. PICK S : s \in Seq(S)
  BY DEF IsSeq
<1>2. Len(s) \in Nat /\ \A i \in 1..Len(s) : s[i] \in S
  BY <1>1
<1>3. SubSeq(s, 1, n) \in Seq(S) /\ Len(SubSeq(s, 1, n)) = n
  BY <1>1, <1>2
<1>4. \A i \in 1..n : SubSeq(s, 1, n)[i] = s[i]
  BY <1>1, <1>2
<1>5. \A i \in 1..(Len(s) - n) : SubSeq(s, n + 1, Len(s))[i] = s[n + i]
  BY <1>1, <1>2
<1> QED
  BY <1>3, <1>4, <1>5 DEF IsSeq

LEMMA PlainWords == IsWord(BlankWord) /\ IsWord(ZeroWord)
  BY WordAssumption, FillFacts DEF IsWord, BlankWord, ZeroWord

\* Where the bytes of a word are among the bytes of all words
LEMMA ByteAt ==
  ASSUME NEW n \in Nat, NEW i \in 1..n, NEW b \in 1..WordBytes, NEW j, j = (i - 1) * WordBytes + b
  PROVE  /\ j \in 1..(n * WordBytes)
         /\ (j - 1) \div WordBytes = i - 1 /\ (j - 1) % WordBytes = b - 1
<1> DEFINE k == i - 1
           r == b - 1
           x == j - 1
           m == n - i
<1>1. WordBytes \in Nat \ {0} /\ k \in Nat /\ r \in Nat /\ r < WordBytes /\ m \in Nat
  BY WordAssumption
<1>2. n = k + 1 + m
  BY <1>1
<1> HIDE DEF k, m
<1>3. k * WordBytes \in Nat /\ m * WordBytes \in Nat /\ n * WordBytes = k * WordBytes + WordBytes + m * WordBytes
      /\ k * WordBytes = WordBytes * k
  BY <1>1, <1>2
<1>4. j = k * WordBytes + b
  BY DEF k
<1>5. j \in 1..(n * WordBytes) /\ x \in Nat /\ x = WordBytes * k + r
  <2> DEFINE p == k * WordBytes
             q == m * WordBytes
             nw == n * WordBytes
  <2>1. p \in Nat /\ q \in Nat /\ nw = p + WordBytes + q /\ j = p + b /\ WordBytes * k = p
    BY <1>3, <1>4
  <2> HIDE DEF p, q, nw
  <2>2. j \in 1..nw /\ x \in Nat /\ x = p + r
    BY <1>1, <2>1
  <2> QED
    BY <2>1, <2>2 DEF nw
<1> HIDE DEF x, r
<1>6. x \div WordBytes = k /\ x % WordBytes = r
  BY <1>1, <1>5, DivUnique
<1> QED
  BY <1>5, <1>6, Zenon DEF x, r, k

LEMMA BytesAt ==
  ASSUME NEW w, Len(w) \in Nat, NEW i \in 1..Len(w), NEW b \in 1..WordBytes
  PROVE  Bytes(w)[(i - 1) * WordBytes + b] = w[i][b]
<1>0. PICK j : j = (i - 1) * WordBytes + b
  OBVIOUS
<1>1. j \in 1..(Len(w) * WordBytes) /\ (j - 1) \div WordBytes = i - 1 /\ (j - 1) % WordBytes = b - 1
  BY <1>0, ByteAt
<1>2. (i - 1) + 1 = i /\ (b - 1) + 1 = b
  BY WordAssumption
<1>3. Bytes(w)[j] = w[((j - 1) \div WordBytes) + 1][((j - 1) % WordBytes) + 1]
  BY <1>1 DEF Bytes
<1>4. Bytes(w)[j] = w[(i - 1) + 1][(b - 1) + 1]
  BY <1>1, <1>3
<1> QED
  BY <1>0, <1>2, <1>4

\* Addresses of one page that begins in a range are in that range, in one page of the model
\* and in one sector.
LEMMA OnePage ==
  ASSUME NEW a \in Nat, NEW b \in Nat, a <= b, a \div PageWords = b \div PageWords, rangeof(a) # 0
  PROVE  /\ rangeof(b) = rangeof(a) /\ pageof(b) = pageof(a) /\ sectorof(b) = sectorof(a)
         /\ b % PageWords = (a % PageWords) + (b - a)
<1> DEFINE rs == rangestart
           re == rangeend
           r == rangeof(a)
           d == PageWords
           q == a \div PageWords
           va == a % PageWords
           vb == b % PageWords
<1>1. d \in Nat \ {0} /\ SecPages \in Nat \ {0} /\ SecWords = d * SecPages /\ SecWords \in Nat \ {0}
  BY GeomAssumption DEF SecWords
<1>2. /\ r \in 1..Len(rs) /\ rs[r] \in Nat /\ re[r] \in Nat /\ rs[r] <= a /\ a <= re[r]
  BY LayoutAssumption, RangeFacts DEF rangeof
<1>3. /\ q \in Nat /\ va \in Nat /\ va < d /\ d * q \in Nat /\ a = d * q + va
      /\ vb \in Nat /\ vb < d /\ b = d * q + vb
  <2>1. q \in Nat /\ va \in Nat /\ va < d /\ d * q \in Nat /\ a = d * q + va
    BY <1>1, DivFacts
  <2>2. vb \in Nat /\ vb < d /\ b = d * (b \div d) + vb
    BY <1>1, DivFacts
  <2> QED
    BY <2>1, <2>2
<1>4. vb = va + (b - a)
  <2> HIDE DEF va, vb, q
  <2> DEFINE dq == d * q
  <2>1. dq \in Nat /\ a = dq + va /\ b = dq + vb /\ va \in Nat /\ vb \in Nat
    BY <1>3
  <2> HIDE DEF dq
  <2> QED
    BY <2>1
\* The bounds of the range are those of pages.
<1>5. /\ rs[r] % SecWords = 0 /\ (re[r] + 1) % SecWords = 0 /\ DOMAIN rs = 1..Len(rs) /\ Len(rs) \in Nat
      /\ \A k \in 1..Len(rs) : rs[k] \in Nat /\ re[k] \in Nat
  <2>1. /\ rs \in Seq(Nat) /\ re \in Seq(Nat) /\ Len(rs) = Len(re)
        /\ \A k \in DOMAIN rs : rs[k] % SecWords = 0 /\ (re[k] + 1) % SecWords = 0
    BY LayoutAssumption, Zenon DEF LayoutOK
  <2> HIDE DEF rs, re, r
  <2>2. /\ DOMAIN rs = 1..Len(rs) /\ Len(rs) \in Nat
        /\ \A k \in 1..Len(rs) : rs[k] \in Nat /\ re[k] \in Nat
    BY <2>1
  <2>3. rs[r] % SecWords = 0 /\ (re[r] + 1) % SecWords = 0
    BY <1>2, <2>1, <2>2, Zenon
  <2> QED
    BY <2>2, <2>3
<1>6. \A y \in Nat : y % SecWords = 0 => \E k \in Nat : y = d * k
  <2> SUFFICES ASSUME NEW y \in Nat, y % SecWords = 0 PROVE \E k \in Nat : y = d * k
    OBVIOUS
  <2>1. PICK m \in Nat : y = SecWords * m
    <3> DEFINE m == y \div SecWords
    <3>1. m \in Nat /\ y = SecWords * m + 0 /\ SecWords * m \in Nat
      BY <1>1, DivFacts
    <3> HIDE DEF m
    <3> QED
      BY <3>1
  <2>2. y = d * (SecPages * m) /\ SecPages * m \in Nat
    BY <1>1, <2>1
  <2> QED
    BY <2>2
<1>7. PICK first \in Nat : rs[r] = d * first
  BY <1>2, <1>5, <1>6
<1>8. PICK past \in Nat : re[r] + 1 = d * past
  BY <1>2, <1>5, <1>6
<1> HIDE DEF q, va, vb, rs, re, r, d
<1>9. first <= q
  <2> SUFFICES ASSUME ~(first <= q) PROVE FALSE
    OBVIOUS
  <2>1. PICK k \in Nat : first = q + 1 + k
    <3>1. first - q - 1 \in Nat /\ first = q + 1 + (first - q - 1)
      BY <1>3, <1>7
    <3> QED
      BY <3>1
  <2> DEFINE dk == d * k
             dq == d * q
             df == d * first
  <2>2. df = dq + d + dk /\ dk \in Nat /\ dq \in Nat /\ d \in Nat
    BY <1>1, <1>3, <2>1
  <2>3. df <= a /\ a = dq + va /\ va < d /\ va \in Nat
    BY <1>2, <1>3, <1>7
  <2> HIDE DEF dk, dq, df
  <2> QED
    BY <2>2, <2>3
<1>10. b <= re[r]
  <2>1. q < past
    <3> SUFFICES ASSUME ~(q < past) PROVE FALSE
      OBVIOUS
    <3>1. PICK k \in Nat : q = past + k
      <4>1. q - past \in Nat /\ q = past + (q - past)
        BY <1>3, <1>8
      <4> QED
        BY <4>1
    <3> DEFINE dk == d * k
               dq == d * q
               dp == d * past
    <3>2. dq = dp + dk /\ dk \in Nat /\ dp \in Nat
      BY <1>1, <1>8, <3>1
    <3>3. a <= re[r] /\ re[r] + 1 = dp /\ a = dq + va /\ va \in Nat /\ re[r] \in Nat
      BY <1>2, <1>3, <1>8
    <3> HIDE DEF dk, dq, dp
    <3> QED
      BY <3>2, <3>3
  <2>2. PICK k \in Nat : past = q + 1 + k
    <3>1. past - q - 1 \in Nat /\ past = q + 1 + (past - q - 1)
      BY <1>3, <1>8, <2>1
    <3> QED
      BY <3>1
  <2> DEFINE dk == d * k
             dq == d * q
             dp == d * past
  <2>3. dp = dq + d + dk /\ dk \in Nat /\ dq \in Nat /\ d \in Nat
    BY <1>1, <1>3, <2>2
  <2>4. re[r] + 1 = dp /\ b = dq + vb /\ vb < d /\ vb \in Nat /\ re[r] \in Nat
    BY <1>2, <1>3, <1>8
  <2> HIDE DEF dk, dq, dp
  <2> QED
    BY <2>3, <2>4
\* getrange stops at the same range.
<1>11. rangeof(b) = r
  <2> DEFINE sa == {k \in 1..Len(rs) : a < rs[k] \/ a <= re[k]}
             sb == {k \in 1..Len(rs) : b < rs[k] \/ b <= re[k]}
  <2>1. sb \subseteq sa
    BY <1>5
  <2>2. r \in sb
    BY <1>2, <1>10
  <2>3. r = Min(sa)
    BY <1>5 DEF rangeof, getrange, r, rs, re
  <2>4. \A y \in sa : r <= y
    <3>1. sa # {} /\ sa \subseteq Nat
      BY <2>1, <2>2
    <3> HIDE DEF sa, sb
    <3>2. \E x \in sa : \A y \in sa : x <= y
      BY <3>1, LeastNat
    <3> QED
      BY <2>3, <3>2 DEF Min
  <2>5. Min(sb) = r
    <3>1. r \in sb /\ (\A y \in sb : r <= y) /\ sb \subseteq Nat
      BY <2>1, <2>2, <2>4
    <3> HIDE DEF sa, sb
    <3>2. Min(sb) \in sb /\ \A y \in sb : Min(sb) <= y
      BY <3>1 DEF Min
    <3>3. Min(sb) <= r /\ r <= Min(sb) /\ r \in Nat /\ Min(sb) \in Nat
      BY <3>1, <3>2
    <3> QED
      BY <3>3
  <2>6. ~(b < rs[r]) /\ sb # {}
    BY <1>2, <2>2
  <2> QED
    BY <1>5, <2>5, <2>6 DEF rangeof, getrange, rs, re
\* The page is counted from the start of the range.
<1>12. /\ (a - rs[r]) \div PageWords = q - first /\ (b - rs[r]) \div PageWords = q - first
  <2> DEFINE k == q - first
  <2>1. k \in Nat /\ q = first + k
    BY <1>3, <1>7, <1>9
  <2> HIDE DEF k
  <2>2. d * q = d * first + d * k /\ d * first \in Nat /\ d * k \in Nat
    BY <1>1, <1>7, <2>1
  <2>3. ASSUME NEW y \in Nat, NEW v \in Nat, v < d, y = d * q + v
        PROVE  (y - rs[r]) \div PageWords = k
    <3>1. PICK z : z = y - rs[r]
      OBVIOUS
    <3>2. z \in Nat /\ z = d * k + v
      <4> DEFINE dq == d * q
                 df == d * first
                 dk == d * k
      <4>1. dq = df + dk /\ df \in Nat /\ dk \in Nat /\ y = dq + v /\ z = y - df
        BY <1>7, <2>2, <2>3, <3>1
      <4> HIDE DEF dq, df, dk
      <4>2. z \in Nat /\ z = dk + v
        BY <2>3, <4>1
      <4> QED
        BY <4>2 DEF dk
    <3>3. z \div d = k
      BY <1>1, <2>1, <2>3, <3>2, DivUnique
    <3> QED
      BY <3>1, <3>3 DEF d
  <2> QED
    BY <1>3, <2>3 DEF k
<1>13. pageof(b) = pageof(a)
  BY <1>11, <1>12 DEF pageof, PAGEADDR, r, rs
<1>14. sectorof(b) = sectorof(a)
  BY <1>11, <1>13, AddrFacts DEF r
<1> QED
  BY <1>4, <1>11, <1>13, <1>14 DEF r, va, vb

\* The words of a read that stays in its page
LEMMA ReadPlace ==
  ASSUME NEW a \in Nat, NEW n \in Nat, ~Crosses(a, n), rangeof(a) # 0, NEW i \in 1..n
  PROVE  /\ rangeof(a + i - 1) # 0 /\ pageof(a + i - 1) = pageof(a) /\ sectorof(a + i - 1) = sectorof(a)
         /\ (a + i - 1) % PageWords = (a % PageWords) + (i - 1)
<1>1. PICK b : b = a + i - 1
  OBVIOUS
<1>2. PICK e : e = a + n - 1
  OBVIOUS
<1>3. b \in Nat /\ e \in Nat /\ a <= b /\ b <= e /\ b - a = i - 1
  BY <1>1, <1>2
<1>4. e \div PageWords = a \div PageWords
  BY <1>2 DEF Crosses
<1>5. b \div PageWords = a \div PageWords
  <2> DEFINE q == a \div PageWords
             dq == PageWords * q
             va == a % PageWords
             ve == e % PageWords
             v == b - dq
  <2>1. PageWords \in Nat \ {0}
    BY GeomAssumption
  <2>2. q \in Nat /\ dq \in Nat /\ va \in Nat /\ a = dq + va /\ ve \in Nat /\ ve < PageWords /\ e = dq + ve
    <3>1. q \in Nat /\ dq \in Nat /\ va \in Nat /\ a = dq + va
      BY <2>1, DivFacts
    <3>2. ve \in Nat /\ ve < PageWords /\ e = PageWords * (e \div PageWords) + ve
      BY <1>3, <2>1, DivFacts
    <3> QED
      BY <1>4, <3>1, <3>2
  <2> HIDE DEF q, va, ve
  <2>3. v \in Nat /\ v < PageWords /\ b = PageWords * q + v
    <3> HIDE DEF dq
    <3>1. v \in Nat /\ v < PageWords /\ b = dq + v
      BY <1>3, <2>1, <2>2
    <3> QED
      BY <3>1 DEF dq
  <2> HIDE DEF v
  <2>4. b \div PageWords = q
    BY <1>3, <2>1, <2>2, <2>3, DivUnique
  <2> QED
    BY <2>4 DEF q
<1>6. /\ rangeof(b) = rangeof(a) /\ pageof(b) = pageof(a) /\ sectorof(b) = sectorof(a)
      /\ b % PageWords = (a % PageWords) + (b - a)
  BY <1>3, <1>5, OnePage
<1> QED
  BY <1>1, <1>3, <1>6

LEMMA StoredIsWord ==
  ASSUME ReadType, NEW a \in Nat, rangeof(a) # 0
  PROVE  IsWord(StoredWord(a))
<1> DEFINE page == pgm[pageof(a)]
           w == (a % PageWords) + 1
<1>1. pageof(a) \in Pages
  BY AddrFacts
<1>2. IsSeq(page) /\ \A k \in 1..Len(page) : IsWord(page[k])
  BY <1>1 DEF ReadType, HoldsWords
<1>3. Len(page) \in Nat
  BY <1>2, LenFacts
<1>4. a % PageWords \in Nat
  BY GeomAssumption, DivFacts
<1>5. w \in Nat /\ w >= 1
  BY <1>4
<1>6. StoredWord(a) = IF w <= Len(page) THEN page[w] ELSE BlankWord
  BY DEF StoredWord
<1> HIDE DEF page, w
<1>7. w <= Len(page) => w \in 1..Len(page)
  BY <1>3, <1>5
<1> QED
  BY <1>2, <1>6, <1>7, PlainWords

LEMMA WordsAreWords == \A w \in Words : IsWord(w)
<1> SUFFICES ASSUME NEW w \in [1..WordBytes -> 0..255] PROVE IsWord(w)
  BY DEF Words
<1> DEFINE S == 0..255
<1>1. w \in [1..WordBytes -> S] /\ WordBytes \in Nat
  BY WordAssumption
<1> HIDE DEF S
<1>2. w \in Seq(S) /\ Len(w) = WordBytes
  BY <1>1
<1> QED
  BY <1>2 DEF IsWord, IsSeq

\* The words that the device reads: what it holds, or anything if the sector is unknown
LEMMA ReadWords ==
  ASSUME PortInv, Flow, EmptyInv, ReadType, InPage, Answering, NEW t \in Tasks, owner = t, DevRead
  PROVE  LET a == cmd.addr
             n == cmd.size
             s == sectorof(cmd.addr)
         IN  /\ req[t].op = "r" /\ Len(tx) = 0 /\ n = need /\ need = Total(t) /\ n \in Nat /\ n > 0
             /\ a = req[t].addr /\ a \in Nat /\ dpc' = "reply"
             /\ \A i \in 1..n : rangeof(a + i - 1) # 0 /\ sectorof(a + i - 1) = s
             /\ \E w : /\ reply' = Bytes(w) /\ IsSeq(w) /\ Len(w) = n /\ \A i \in 1..n : IsWord(w[i])
                       /\ secs[s] = "UNK" => w \in [1..n -> Junk]
                       /\ secs[s] # "UNK" => \A i \in 1..n : w[i] = StoredWord(a + i - 1)
<1> DEFINE a == cmd.addr
           n == cmd.size
           s == sectorof(cmd.addr)
           page == pgm[pageof(cmd.addr)]
<1>1. dpc = "read" /\ UNCHANGED <<drv, rx, tx, cmd, secs, pgm>> /\ UNCHANGED <<need, got, req>>
  BY DEF DevRead, drv
<1>2. InTouch(t) /\ req[t].op \in {"e", "w", "r"} /\ IsSeq(tx) /\ Sound(req[t]) /\ pc[t] # "idle"
  BY HolderFacts DEF Flow, FlowType
<1>3. req[t].op = "r" /\ Len(tx) = 0 /\ n = need /\ need = Total(t)
  BY <1>1, <1>2 DEF InTouch, EraseStage, ReadStage, WriteStage, Total
<1>4. n \in Nat /\ n > 0 /\ req[t].addr \in Nat
  BY <1>2, <1>3, ChunkFacts DEF Total, Sound
<1>5. a = req[t].addr /\ rangeof(a) # 0 /\ ~Crosses(a, n) /\ a \in Nat
  BY <1>1, <1>2, <1>3, <1>4 DEF Answering, InPage
<1>6. ~Endless /\ dpc' = "reply"
  BY <1>4 DEF Endless, DevRead
<1>7. pageof(a) \in Pages /\ pageof(a) \div SecPages = s /\ a % PageWords \in Nat
  BY <1>5, AddrFacts, DivFacts, GeomAssumption
<1>8. IsSeq(page) /\ Len(page) \in Nat
  BY <1>7, LenFacts DEF ReadType, HoldsWords
<1>9. ASSUME NEW i \in 1..n
      PROVE  /\ rangeof(a + i - 1) # 0 /\ sectorof(a + i - 1) = s /\ a + i - 1 \in Nat
             /\ StoredWord(a + i - 1) =
                  IF (a % PageWords) + i <= Len(page) THEN page[(a % PageWords) + i] ELSE BlankWord
  <2>1. rangeof(a + i - 1) # 0 /\ pageof(a + i - 1) = pageof(a) /\ sectorof(a + i - 1) = s
        /\ (a + i - 1) % PageWords = (a % PageWords) + (i - 1)
    BY <1>4, <1>5, ReadPlace
  <2>2. ((a + i - 1) % PageWords) + 1 = (a % PageWords) + i
    <3> DEFINE v == a % PageWords
    <3>1. v \in Nat /\ (a + i - 1) % PageWords = v + (i - 1)
      BY <1>7, <2>1
    <3> HIDE DEF v
    <3>2. v + (i - 1) + 1 = v + i
      BY <3>1
    <3> QED
      BY <3>1, <3>2 DEF v
  <2>3. a + i - 1 \in Nat
    BY <1>4, <1>5
  <2> QED
    BY <2>1, <2>2, <2>3 DEF StoredWord
\* The words that are sent, in each state of the sector
<1>10. \E w : /\ reply' = Bytes(w) /\ IsSeq(w) /\ Len(w) = n
              /\ secs[s] = "UNK" => w \in [1..n -> Junk]
              /\ secs[s] # "UNK" => \A i \in 1..n : w[i] = StoredWord(a + i - 1)
  <2>1. CASE secs[s] = "UNK" /\ \E w \in [1..n -> Junk] : reply' = Bytes(w)
    <3>1. PICK w \in [1..n -> Junk] : reply' = Bytes(w)
      BY <2>1
    <3>2. w \in Seq(Junk) /\ Len(w) = n
      BY <1>4, <3>1
    <3>3. IsSeq(w)
      BY <3>2 DEF IsSeq
    <3> QED
      BY <2>1, <3>1, <3>2, <3>3
  <2>2. CASE secs[s] = "ERS" /\ reply' = Bytes(Fill(BlankWord, n))
    <3>1. page = <<>>
      BY <1>7, <2>2 DEF EmptyInv
    <3>2. Len(page) = 0
      BY <3>1
    <3>3. \A i \in 1..n : StoredWord(a + i - 1) = BlankWord
      <4> TAKE i \in 1..n
      <4>1. ~((a % PageWords) + i <= Len(page))
        BY <1>4, <1>7, <3>2
      <4> QED
        BY <1>9, <4>1
    <3>4. IsSeq(Fill(BlankWord, n)) /\ Len(Fill(BlankWord, n)) = n /\ \A i \in 1..n : Fill(BlankWord, n)[i] = BlankWord
      BY <1>4, FillFacts
    <3> QED
      BY <2>2, <3>3, <3>4
  <2>3. CASE secs[s] = "PROG" /\ reply' = Bytes(Stored(a, n))
    <3>1. Stored(a, n) = [i \in 1..n |-> IF (a % PageWords) + i <= Len(page) THEN page[(a % PageWords) + i]
                                         ELSE BlankWord]
      BY DEF Stored
    <3>2. \A i \in 1..n : Stored(a, n)[i] = StoredWord(a + i - 1)
      BY <1>9, <3>1
    <3>3. IsSeq(Stored(a, n)) /\ Len(Stored(a, n)) = n
      <4> DEFINE f == Stored(a, n)
                 T == {f[i] : i \in 1..n}
      <4>1. f \in [1..n -> T]
        BY <3>1
      <4> HIDE DEF f
      <4>2. f \in Seq(T) /\ Len(f) = n
        BY <1>4, <4>1
      <4> QED
        BY <4>2 DEF IsSeq, f
    <3> QED
      BY <2>3, <3>2, <3>3
  <2> QED
    BY <1>6, <2>1, <2>2, <2>3 DEF DevRead
<1>11. PICK w : /\ reply' = Bytes(w) /\ IsSeq(w) /\ Len(w) = n
                /\ secs[s] = "UNK" => w \in [1..n -> Junk]
                /\ secs[s] # "UNK" => \A i \in 1..n : w[i] = StoredWord(a + i - 1)
  BY <1>10
<1>12. ASSUME NEW i \in 1..n PROVE IsWord(w[i])
  <2>1. CASE secs[s] = "UNK"
    <3>1. w[i] \in Words
      BY <1>11, <2>1, JunkAssumption DEF Words
    <3> QED
      BY <3>1, WordsAreWords
  <2>2. CASE secs[s] # "UNK"
    <3>1. IsWord(StoredWord(a + i - 1))
      BY <1>9, StoredIsWord
    <3> QED
      BY <1>11, <2>2, <3>1
  <2> QED
    BY <2>1, <2>2
<1> HIDE DEF s
<1> QED
  BY <1>3, <1>4, <1>5, <1>6, <1>9, <1>11, <1>12 DEF s

\* The device has read the words: they are what the flash holds.
LEMMA ReadAnswers ==
  ASSUME PortInv, Flow, EmptyInv, ReadType, InPage, Answering, NEW t \in Tasks, owner = t, DevRead
  PROVE  req[t].op = "r" /\ dpc' = "reply" /\ Arriving(t)'
<1> DEFINE a == cmd.addr
           n == cmd.size
           s == sectorof(cmd.addr)
<1>1. UNCHANGED <<drv, rx, tx, cmd, secs, pgm>> /\ UNCHANGED <<need, got, req>>
  BY DEF DevRead, drv
<1>2. /\ req[t].op = "r" /\ Len(tx) = 0 /\ n = need /\ need = Total(t) /\ n \in Nat /\ n > 0
      /\ a = req[t].addr /\ a \in Nat /\ dpc' = "reply"
      /\ \A i \in 1..n : sectorof(a + i - 1) = s
      /\ \E w : /\ reply' = Bytes(w) /\ Len(w) = n
                /\ secs[s] # "UNK" => \A i \in 1..n : w[i] = StoredWord(a + i - 1)
  BY ReadWords
<1>3. PICK w : /\ reply' = Bytes(w) /\ Len(w) = n
               /\ secs[s] # "UNK" => \A i \in 1..n : w[i] = StoredWord(a + i - 1)
  BY <1>2
<1>4. Len(reply') = n * WordBytes
  BY <1>2, <1>3, BytesFacts
<1>5. \A i \in 1..n, b \in 1..WordBytes : (i - 1) * WordBytes + b \in Nat \ {0}
  <2>1. n \in Nat
    BY <1>2
  <2> HIDE DEF n
  <2> QED
    BY <2>1, WordAssumption, ByteAt
<1>6. ASSUME NEW i \in 1..n, NEW b \in 1..WordBytes, Known(a + i - 1)
       PROVE  Coming((i - 1) * WordBytes + b)' = StoredWord(a + i - 1)[b]
  <2>1. PICK j : j = (i - 1) * WordBytes + b
    OBVIOUS
  <2>2. j \in Nat /\ j > 0
    BY <1>5, <2>1
  <2>3. Coming(j)' = reply'[j]
    <3>1. ~(j <= Len(tx')) /\ j - Len(tx') = j
      BY <1>1, <1>2, <2>2
    <3> QED
      BY <3>1 DEF Coming
  <2>4. secs[s] # "UNK"
    BY <1>2, <1>6 DEF Known
  <2>5. reply'[j] = w[i][b]
    BY <1>2, <1>3, <2>1, BytesAt
  <2> QED
    BY <1>3, <2>1, <2>3, <2>4, <2>5
<1>7. \A x : StoredWord(x)' = StoredWord(x) /\ Known(x)' = Known(x)
  BY <1>1 DEF StoredWord, Known, rangeof, sectorof, pageof
<1>8. Total(t)' = Total(t) /\ Total(t) - need = 0 /\ need' = need /\ req'[t].addr = a
  BY <1>1, <1>2 DEF Total
<1>9. Len(got'[t]) \in Nat
  BY <1>1, LenFacts DEF ReadType
<1>10. Len(tx') + Len(reply') = need' * WordBytes
  BY <1>1, <1>2, <1>4, WordAssumption
<1>11. ASSUME NEW i \in 1..n, NEW b \in 1..WordBytes, NEW x, x = a + i - 1, Known(x)'
       PROVE  Coming((i - 1) * WordBytes + b)' = StoredWord(x)'[b]
  BY <1>6, <1>7, <1>11
<1>12. \A i \in 1..need', b \in 1..WordBytes : \A x : x = req'[t].addr + 0 + i - 1 /\ Known(x)'
         => Coming((i - 1) * WordBytes + b)' = StoredWord(x)'[b]
  <2> TAKE i \in 1..need', b \in 1..WordBytes
  <2> TAKE x
  <2> HAVE x = req'[t].addr + 0 + i - 1 /\ Known(x)'
  <2>1. i \in 1..n /\ x = a + i - 1
    BY <1>2, <1>8
  <2> QED
    BY <1>11, <2>1
<1>13. Total(t)' - need' = 0
  BY <1>8
<1>14. Arriving(t)'
  BY <1>2, <1>9, <1>10, <1>12, <1>13 DEF Arriving
<1> QED
  BY <1>2, <1>14

\* A step that leaves the sectors and pages alone leaves their contents alone.
LEMMA SameContents ==
  ASSUME UNCHANGED <<secs, pgm>>
  PROVE  \A x : StoredWord(x)' = StoredWord(x) /\ Known(x)' = Known(x)
  BY DEF StoredWord, Known, rangeof, sectorof, pageof

LEMMA ArrivingKept ==
  ASSUME NEW t \in Tasks, Arriving(t), UNCHANGED <<need, dpc, tx, reply, secs, pgm>>,
         got'[t] = got[t], req'[t] = req[t]
  PROVE  Arriving(t)'
<1>1. \A x : StoredWord(x)' = StoredWord(x) /\ Known(x)' = Known(x)
  BY SameContents
<1>2. Total(t)' = Total(t) /\ \A j : Coming(j)' = Coming(j)
  BY DEF Total, Coming
<1> QED
  BY <1>1, <1>2 DEF Arriving

\* There is room for every byte of the answer.
LEMMA ReplyRoom ==
  ASSUME PortInv, Flow, PageBytes < TxCap, NEW t \in Tasks, owner = t, Arriving(t), dpc = "reply"
  PROVE  Len(tx) < TxCap /\ req[t].op = "r"
<1>1. InTouch(t) /\ req[t].op \in {"e", "w", "r"} /\ IsSeq(tx) /\ IsSeq(reply) /\ Sound(req[t]) /\ need \in Nat
  BY HolderFacts DEF Flow, FlowType
<1>2. InTouch(t) /\ req[t].op \in {"e", "w", "r"} /\ Sound(req[t]) /\ need \in Nat
  BY <1>1
<1>3. Len(tx) \in Nat /\ Len(reply) \in Nat
  BY <1>1, LenFacts
<1>4. Len(tx) + Len(reply) = need * WordBytes /\ Total(t) - need \in Nat
  BY DEF Arriving
<1>5. req[t].op = "r"
  BY <1>2 DEF InTouch, EraseStage, WriteStage
<1>6. Len(tx) < TxCap
  <2>1. Total(t) \in Nat /\ Total(t) * WordBytes <= PageBytes
    <3>1. Chunk(req[t]) \in Nat /\ Chunk(req[t]) % WordBytes = 0 /\ Total(t) \in Nat
      BY <1>2, <1>5, ChunkFacts DEF Total
    <3>2. Total(t) * WordBytes = Chunk(req[t])
      BY <3>1, WholeWords DEF Total
    <3>3. PageBytes \in Nat /\ req[t].size \in Nat
      BY <1>2, WordAssumption, GeomAssumption DEF PageBytes, Sound
    <3>4. Chunk(req[t]) <= PageBytes
      BY <1>5, <3>3 DEF Chunk
    <3> QED
      BY <3>1, <3>2, <3>4
  <2>2. need * WordBytes <= Total(t) * WordBytes
    <3>1. PICK k \in Nat : Total(t) = need + k
      BY <1>2, <1>4, <2>1
    <3>2. Total(t) * WordBytes = need * WordBytes + k * WordBytes /\ k * WordBytes \in Nat
          /\ need * WordBytes \in Nat
      BY <1>2, <3>1, WordAssumption
    <3> QED
      BY <3>2
  <2>3. need * WordBytes \in Nat /\ Total(t) * WordBytes \in Nat /\ PageBytes \in Nat /\ TxCap \in Nat
    BY <1>2, <2>1, WordAssumption, CapAssumption, GeomAssumption DEF PageBytes
  <2> QED
    BY <1>3, <1>4, <2>1, <2>2, <2>3
<1> QED
  BY <1>5, <1>6

\* One more byte of the answer, or its status
LEMMA ArrivingReply ==
  ASSUME PortInv, Flow, PageBytes < TxCap, NEW t \in Tasks, owner = t, Arriving(t), DevReply
  PROVE  Arriving(t)'
<1>1. /\ dpc = "reply" /\ UNCHANGED <<secs, pgm>> /\ UNCHANGED <<need, got, req>>
  BY DEF DevReply, drv
<1>2. InTouch(t) /\ req[t].op \in {"e", "w", "r"} /\ IsSeq(tx) /\ IsSeq(reply) /\ Sound(req[t]) /\ need \in Nat
  BY <1>1, HolderFacts DEF Flow, FlowType
<1>3. Len(tx) \in Nat /\ Len(reply) \in Nat
  BY <1>2, LenFacts
<1>4. Len(tx) + Len(reply) = need * WordBytes /\ Total(t) - need \in Nat
  BY <1>1 DEF Arriving
<1>5. req[t].op = "r"
  BY <1>1, <1>2 DEF InTouch, EraseStage, WriteStage
<1>6. Len(tx) < TxCap
  BY <1>1, ReplyRoom
<1>7. \A x : StoredWord(x)' = StoredWord(x) /\ Known(x)' = Known(x)
  BY <1>1, SameContents
<1>8. Total(t)' = Total(t) /\ need' = need /\ got'[t] = got[t] /\ req'[t] = req[t]
  BY <1>1 DEF Total
<1>9. \A i \in 1..need, b \in 1..WordBytes : (i - 1) * WordBytes + b \in 1..(need * WordBytes)
  BY <1>2, ByteAt
<1>10. CASE reply # <<>>
  <2>1. tx' = Append(tx, Head(reply)) /\ reply' = Tail(reply) /\ dpc' = dpc
    BY <1>6, <1>10 DEF DevReply, Answer
  <2>2. Len(reply) > 0
    BY <1>2, <1>3, <1>10, LenFacts
  <2>3. /\ Len(tx') = Len(tx) + 1 /\ \A i \in 1..Len(tx) : tx'[i] = tx[i]
        /\ tx'[Len(tx) + 1] = Head(reply)
    BY <1>2, <2>1, AppendFacts
  <2>4. /\ Len(reply') = Len(reply) - 1 /\ \A i \in 1..(Len(reply) - 1) : reply'[i] = reply[i + 1]
        /\ Head(reply) = reply[1]
    BY <1>2, <2>1, <2>2, TailFacts
  <2>5. ASSUME NEW j \in 1..(Len(tx) + Len(reply)) PROVE Coming(j)' = Coming(j)
    <3>1. CASE j <= Len(tx)
      BY <1>3, <2>3, <3>1 DEF Coming
    <3>2. CASE j = Len(tx) + 1
      BY <1>3, <2>3, <2>4, <3>2 DEF Coming
    <3>3. CASE j > Len(tx) + 1
      <4>1. j - Len(tx') \in 1..(Len(reply) - 1) /\ j - Len(tx') + 1 = j - Len(tx)
            /\ ~(j <= Len(tx')) /\ ~(j <= Len(tx))
        BY <1>3, <2>3, <3>3
      <4> QED
        BY <2>4, <4>1 DEF Coming
    <3> QED
      BY <1>3, <3>1, <3>2, <3>3
  <2>6. Len(tx') + Len(reply') = need' * WordBytes /\ dpc' = "reply"
    <3>1. Len(tx') + Len(reply') = Len(tx) + Len(reply)
      BY <1>3, <2>3, <2>4
    <3> QED
      BY <1>1, <1>4, <1>8, <2>1, <3>1
  <2>7. \A i \in 1..need, b \in 1..WordBytes :
          Coming((i - 1) * WordBytes + b)' = Coming((i - 1) * WordBytes + b)
    BY <1>4, <1>9, <2>5
  <2> QED
    BY <1>7, <1>8, <2>6, <2>7 DEF Arriving
<1>11. CASE reply = <<>>
  <2>1. tx' = Append(tx, 0) /\ dpc' = "line" /\ Len(reply) = 0
    BY <1>6, <1>11 DEF DevReply, Answer
  <2>2. Len(tx') = Len(tx) + 1 /\ \A i \in 1..Len(tx) : tx'[i] = tx[i]
    BY <1>2, <2>1, AppendFacts
  <2>3. ASSUME NEW j \in 1..(need * WordBytes) PROVE Coming(j)' = Coming(j)
    BY <1>3, <1>4, <2>1, <2>2 DEF Coming
  <2>4. Len(tx') = need' * WordBytes + 1
    BY <1>3, <1>4, <1>8, <2>1, <2>2
  <2>5. \A i \in 1..need, b \in 1..WordBytes :
          Coming((i - 1) * WordBytes + b)' = Coming((i - 1) * WordBytes + b)
    BY <1>9, <2>3
  <2> QED
    BY <1>7, <1>8, <2>1, <2>4, <2>5 DEF Arriving
<1> QED
  BY <1>10, <1>11

\* The task takes a word out of the answer: it is what the flash holds there.
LEMMA ArrivingWord ==
  ASSUME PortInv, Flow, ReadType, NEW t \in Tasks, owner = t, Arriving(t), TakeWord(t)
  PROVE  Arriving(t)'
<1> DEFINE n == Total(t) - need
           a == req[t].addr
           word == SubSeq(tx, 1, WordBytes)
           last == Len(got[t])
<1>1. /\ pc[t] = "words" /\ Len(tx) >= WordBytes /\ got' = [got EXCEPT ![t] = Append(got[t], word)]
      /\ tx' = SubSeq(tx, WordBytes + 1, Len(tx)) /\ need' = need - 1
      /\ UNCHANGED <<req, reply, dpc, secs, pgm>>
  BY DEF TakeWord, dev
<1>2. /\ IsSeq(tx) /\ Sound(req[t]) /\ need \in Nat /\ need > 0 /\ Len(tx) \in Nat /\ a \in Nat
      /\ WordBytes \in Nat /\ WordBytes > 1
  BY <1>1, HolderFacts, WordAssumption DEF Flow, FlowType, InTouch, Sound
<1>3. DOMAIN got = Tasks /\ IsSeq(got[t]) /\ last \in Nat
  BY LenFacts DEF ReadType
<1>4. /\ n \in Nat /\ n <= last
      /\ \/ dpc = "reply" /\ Len(tx) + Len(reply) = need * WordBytes
         \/ dpc = "line" /\ Len(tx) = need * WordBytes + 1
  BY DEF Arriving
<1>5. \A i \in 1..n : Known(a + i - 1) => got[t][last - n + i] = StoredWord(a + i - 1)
  BY DEF Arriving
<1>6. \A i \in 1..need, b \in 1..WordBytes : Known(a + n + i - 1)
        => Coming((i - 1) * WordBytes + b) = StoredWord(a + n + i - 1)[b]
  BY DEF Arriving
<1>7. \A x : StoredWord(x)' = StoredWord(x) /\ Known(x)' = Known(x)
  BY <1>1, SameContents
<1>8. /\ got'[t] = Append(got[t], word) /\ Len(got'[t]) = last + 1
      /\ \A i \in 1..last : got'[t][i] = got[t][i]
      /\ got'[t][last + 1] = word
  <2>1. got'[t] = Append(got[t], word)
    BY <1>1, <1>3
  <2> HIDE DEF word
  <2>2. /\ Len(Append(got[t], word)) = Len(got[t]) + 1
        /\ \A i \in 1..Len(got[t]) : Append(got[t], word)[i] = got[t][i]
        /\ Append(got[t], word)[Len(got[t]) + 1] = word
    BY <1>3, AppendFacts
  <2> QED
    BY <2>1, <2>2
<1>9. /\ IsSeq(word) /\ Len(word) = WordBytes /\ \A b \in 1..WordBytes : word[b] = tx[b]
      /\ \A i \in 1..(Len(tx) - WordBytes) : tx'[i] = tx[WordBytes + i]
  BY <1>1, <1>2, FirstFacts
<1>10. Len(tx') = Len(tx) - WordBytes
  BY <1>1, <1>2, RestFacts
<1>11. Total(t)' - need' = n + 1 /\ req'[t].addr = a
  <2>1. Total(t)' = Total(t)
    BY <1>1 DEF Total
  <2>2. req[t].op = "r"
    BY <1>2, HolderFacts DEF InTouch
  <2>3. Total(t) \in Nat
    BY <1>2, <2>2, ChunkFacts DEF Total
  <2> QED
    BY <1>1, <1>2, <2>1, <2>3
<1> HIDE DEF n, a, word, last
\* The word that is taken
<1>12. Known(a + n) => word = StoredWord(a + n)
  <2> SUFFICES ASSUME Known(a + n) PROVE word = StoredWord(a + n)
    OBVIOUS
  <2>1. a + n + 1 - 1 = a + n /\ a + n \in Nat /\ 1 \in 1..need
    BY <1>2, <1>4
  <2>2. ASSUME NEW b \in 1..WordBytes PROVE word[b] = StoredWord(a + n)[b]
    <3>1. Coming((1 - 1) * WordBytes + b) = StoredWord(a + n)[b]
      BY <1>6, <2>1
    <3>2. (1 - 1) * WordBytes + b = b /\ b <= Len(tx)
      BY <1>1, <1>2
    <3> QED
      BY <1>9, <3>1, <3>2 DEF Coming
  <2>3. IsSeq(StoredWord(a + n)) /\ Len(StoredWord(a + n)) = WordBytes
    BY <2>1, StoredIsWord DEF Known, IsWord
  <2> QED
    BY <1>9, <2>2, <2>3, SameSeq
<1>13. \A i \in 1..(n + 1) : Known(a + i - 1)
         => got'[t][(last + 1) - (n + 1) + i] = StoredWord(a + i - 1)
  <2> TAKE i \in 1..(n + 1)
  <2>1. CASE i <= n
    <3>1. (last + 1) - (n + 1) + i = last - n + i /\ last - n + i \in 1..last /\ i \in 1..n
      BY <1>3, <1>4, <2>1
    <3> QED
      BY <1>5, <1>8, <3>1
  <2>2. CASE i = n + 1
    <3>1. (last + 1) - (n + 1) + i = last + 1 /\ a + i - 1 = a + n
      BY <1>2, <1>3, <1>4, <2>2
    <3> QED
      BY <1>8, <1>12, <3>1
  <2> QED
    BY <1>4, <2>1, <2>2
\* What is still to come moves up by a word.
<1>14. ASSUME NEW j \in Nat, j > 0, NEW k, k = WordBytes + j PROVE Coming(j)' = Coming(k)
  <2>2. CASE j > 0 /\ j <= Len(tx')
    <3>1. j \in 1..(Len(tx) - WordBytes) /\ k <= Len(tx)
      BY <1>2, <1>10, <1>14, <2>2
    <3> QED
      BY <1>9, <1>14, <2>2, <3>1 DEF Coming
  <2>3. CASE ~(j <= Len(tx'))
    <3>1. ~(k <= Len(tx)) /\ k - Len(tx) = j - Len(tx')
      BY <1>2, <1>10, <1>14, <2>3
    <3>2. Coming(j)' = reply'[j - Len(tx')]
      BY <2>3 DEF Coming
    <3>3. Coming(k) = reply[k - Len(tx)]
      BY <3>1 DEF Coming
    <3> QED
      BY <1>1, <3>1, <3>2, <3>3
  <2> QED
    BY <1>14, <2>2, <2>3
<1>15. \A i \in 1..(need - 1), b \in 1..WordBytes : Known(a + (n + 1) + i - 1)
         => Coming((i - 1) * WordBytes + b)' = StoredWord(a + (n + 1) + i - 1)[b]
  <2> TAKE i \in 1..(need - 1), b \in 1..WordBytes
  <2>1. i + 1 \in 1..need /\ a + (n + 1) + i - 1 = a + n + (i + 1) - 1
    BY <1>2, <1>4
  <2>2. PICK j : j = (i - 1) * WordBytes + b
    OBVIOUS
  <2>3. j \in Nat /\ j > 0 /\ ((i + 1) - 1) * WordBytes + b = WordBytes + j
    <3>1. (i - 1) * WordBytes \in Nat /\ ((i + 1) - 1) * WordBytes = WordBytes + (i - 1) * WordBytes
      BY <1>2
    <3> DEFINE x == (i - 1) * WordBytes
               y == ((i + 1) - 1) * WordBytes
    <3>2. x \in Nat /\ y = WordBytes + x /\ j = x + b
      BY <2>2, <3>1
    <3> HIDE DEF x, y
    <3>3. j \in Nat /\ j > 0 /\ y + b = WordBytes + j
      BY <1>2, <3>2
    <3> QED
      BY <3>3 DEF y
  <2>4. Coming(j)' = Coming(((i + 1) - 1) * WordBytes + b)
    BY <1>14, <2>3
  <2> QED
    BY <1>6, <2>1, <2>2, <2>4
<1>16. \/ dpc' = "reply" /\ Len(tx') + Len(reply') = need' * WordBytes
       \/ dpc' = "line" /\ Len(tx') = need' * WordBytes + 1
  <2> DEFINE x == need * WordBytes
             y == need' * WordBytes
  <2>1. x \in Nat /\ y = x - WordBytes
    BY <1>1, <1>2
  <2> HIDE DEF x, y
  <2>2. CASE dpc = "reply" /\ Len(tx) + Len(reply) = x
    <3>1. Len(reply) \in Nat
      BY <2>2, LenFacts DEF Flow, FlowType
    <3>2. Len(tx') + Len(reply') = y
      BY <1>1, <1>2, <1>10, <2>1, <2>2, <3>1
    <3> QED
      BY <1>1, <2>2, <3>2 DEF y
  <2>3. CASE dpc = "line" /\ Len(tx) = x + 1
    <3>1. Len(tx') = y + 1
      BY <1>1, <1>2, <1>10, <2>1, <2>3
    <3> QED
      BY <1>1, <2>3, <3>1 DEF y
  <2> QED
    BY <1>4, <2>2, <2>3 DEF x
<1>17. n + 1 \in Nat /\ n + 1 <= last + 1
  BY <1>3, <1>4
<1> QED
  BY <1>1, <1>7, <1>8, <1>11, <1>13, <1>15, <1>16, <1>17 DEF Arriving

\* A page that is made longer, or one of whose words is replaced, still holds words.
LEMMA ResizedFacts ==
  ASSUME NEW s, HoldsWords(s), NEW n \in Nat
  PROVE  HoldsWords(Resized(s, n))
<1>1. IsSeq(s) /\ Len(s) \in Nat
  BY LenFacts DEF HoldsWords
<1>2. CASE n > Len(s)
  <2> DEFINE m == n - Len(s)
             z == Fill(ZeroWord, m)
  <2>1. m \in Nat
    BY <1>1, <1>2
  <2> HIDE DEF m
  <2>2. IsSeq(z) /\ Len(z) = m /\ \A i \in 1..m : z[i] = ZeroWord
    BY <2>1, FillFacts
  <2> HIDE DEF z
  <2>3. /\ IsSeq(s \o z) /\ Len(s \o z) = Len(s) + Len(z)
        /\ \A j \in 1..Len(s) : (s \o z)[j] = s[j]
        /\ \A j \in 1..Len(z) : (s \o z)[Len(s) + j] = z[j]
    BY <1>1, <2>2, ConcatFacts
  <2>4. ASSUME NEW k \in 1..Len(s \o z) PROVE IsWord((s \o z)[k])
    <3>1. CASE k <= Len(s)
      <4>1. k \in 1..Len(s)
        BY <1>1, <2>1, <2>2, <2>3, <3>1
      <4> QED
        BY <2>3, <4>1 DEF HoldsWords
    <3>2. CASE k > Len(s)
      <4>1. k - Len(s) \in 1..m /\ Len(s) + (k - Len(s)) = k
        BY <1>1, <2>1, <2>2, <2>3, <3>2
      <4>2. (s \o z)[k] = ZeroWord
        BY <2>2, <2>3, <4>1
      <4> QED
        BY <4>2, PlainWords
    <3> QED
      BY <1>1, <2>1, <2>2, <2>3, <3>1, <3>2
  <2>5. Resized(s, n) = s \o z
    BY <1>2 DEF Resized, z, m
  <2> QED
    BY <2>3, <2>4, <2>5 DEF HoldsWords
<1>3. CASE ~(n > Len(s))
  BY <1>3 DEF Resized
<1> QED
  BY <1>2, <1>3

LEMMA ReplacedFacts ==
  ASSUME NEW s, HoldsWords(s), NEW k, NEW w, IsWord(w)
  PROVE  HoldsWords([s EXCEPT ![k] = w])
<1> DEFINE z == [s EXCEPT ![k] = w]
<1>1. IsSeq(s) /\ \A i \in 1..Len(s) : IsWord(s[i])
  BY DEF HoldsWords
<1>2. IsSeq(z)
  BY <1>1, ExceptFacts
<1>3. Len(z) = Len(s)
  BY <1>1, ExceptFacts
<1>4. \A i \in 1..Len(s) : z[i] = IF i = k THEN w ELSE s[i]
  BY <1>1, ExceptFacts
<1> HIDE DEF z
<1>5. \A i \in 1..Len(z) : IsWord(z[i])
  BY <1>1, <1>3, <1>4
<1>6. HoldsWords(z)
  BY <1>2, <1>5 DEF HoldsWords
<1> QED
  BY <1>6 DEF z

\* The offset in the page
LEMMA InPageFacts ==
  ASSUME NEW a \in Nat, rangeof(a) # 0
  PROVE  inpage(a) \in Nat
<1>1. /\ rangeof(a) \in 1..Len(rangestart) /\ rangestart[rangeof(a)] \in Nat /\ rangestart[rangeof(a)] <= a
  BY LayoutAssumption, RangeFacts DEF rangeof
<1> DEFINE d == a - rangestart[rangeof(a)]
<1>2. d \in Nat /\ PageWords \in Nat \ {0}
  BY <1>1, GeomAssumption
<1>3. inpage(a) = d % PageWords
  BY DEF inpage, ADDRINPAGE
<1> HIDE DEF d
<1> QED
  BY <1>2, <1>3, DivFacts

\* Between two commands only the holder of the mutex is being served.
LEMMA Busy ==
  ASSUME PortInv, Flow, dpc # "line"
  PROVE  \E t \in Tasks : owner = t
  BY FreeFacts DEF PortInv, PortType

\* Programming makes the page longer and storing replaces a word of it.
LEMMA ReadTypeProgram ==
  ASSUME PortInv, Flow, EmptyInv, ReadType, DevProgram \/ DevStore
  PROVE  ReadType'
<1> DEFINE page == pageof(cmd.addr)
<1>1. dpc \in {"prog", "store"} /\ UNCHANGED got
  BY DEF DevProgram, DevStore, drv
<1>2. PICK t \in Tasks : owner = t
  BY <1>1, Busy
<1>3. DOMAIN pgm = Pages /\ cmd.addr \in Nat /\ rangeof(cmd.addr) # 0
  BY <1>1 DEF EmptyInv
<1>4. page \in Pages /\ HoldsWords(pgm[page]) /\ inpage(cmd.addr) \in Nat
  BY <1>3, AddrFacts, InPageFacts DEF ReadType
<1>5. ASSUME NEW v, HoldsWords(v), pgm' = [pgm EXCEPT ![page] = v] PROVE ReadType'
  <2>1. \A p \in Pages : pgm'[p] = IF p = page THEN v ELSE pgm[p]
    BY <1>3, <1>5
  <2>2. \A p \in Pages : HoldsWords(pgm'[p])
    BY <1>5, <2>1 DEF ReadType
  <2> QED
    BY <1>1, <2>2 DEF ReadType
<1>6. CASE DevProgram
  <2>1. Sound(req[t]) /\ InTouch(t) /\ req[t].op \in {"e", "w", "r"} /\ dpc = "prog"
    BY <1>2, <1>6, HolderFacts DEF DevProgram
  <2>2. cmd.size = sizew(req[t].size) /\ req[t].size \in Nat /\ req[t].size % WordBytes = 0
    BY <2>1 DEF InTouch, EraseStage, ReadStage, WriteStage, Sound
  <2>3. cmd.size \in Nat
    BY <2>2, WholeWords
  <2>4. HoldsWords(Resized(pgm[page], inpage(cmd.addr) + cmd.size))
    <3>1. PICK n : n = inpage(cmd.addr) + cmd.size
      OBVIOUS
    <3>2. n \in Nat
      BY <1>4, <2>3, <3>1
    <3> QED
      BY <1>4, <3>1, <3>2, ResizedFacts
  <2>5. pgm' = [pgm EXCEPT ![page] = Resized(pgm[page], inpage(cmd.addr) + cmd.size)]
    BY <1>6 DEF DevProgram
  <2> QED
    BY <1>5, <2>4, <2>5
<1>7. CASE DevStore
  <2> DEFINE word == Append(acc, Head(rx)[2])
             k == inpage(cmd.addr) + pos + 1
  <2>1. dpc = "store" /\ (pgm' = pgm \/ (~(Len(word) < WordBytes) /\ pgm' = [pgm EXCEPT ![page][k] = word]))
    BY <1>7 DEF DevStore
  <2>2. IsSeq(acc) /\ Len(acc) \in Nat /\ Len(acc) < WordBytes
    BY <1>2, <2>1, StoreFacts DEF Flow, FlowType
  <2>3. IsSeq(word) /\ Len(word) = Len(acc) + 1
    BY <2>2, AppendFacts
  <2> HIDE DEF word, k
  <2>4. CASE pgm' = pgm
    BY <1>1, <2>4 DEF ReadType
  <2>5. CASE ~(Len(word) < WordBytes) /\ pgm' = [pgm EXCEPT ![page][k] = word]
    <3>1. IsWord(word)
      BY <2>2, <2>3, <2>5, WordAssumption DEF IsWord
    <3>2. HoldsWords([pgm[page] EXCEPT ![k] = word])
      BY <1>4, <3>1, ReplacedFacts
    <3>3. pgm' = [pgm EXCEPT ![page] = [pgm[page] EXCEPT ![k] = word]]
      BY <2>5
    <3> QED
      BY <1>5, <3>2, <3>3
  <2> QED
    BY <2>1, <2>4, <2>5
<1> QED
  BY <1>6, <1>7

LEMMA ReadTypeStep ==
  ASSUME PortInv, Flow, EmptyInv, ReadType, DeviceStep \/ \E t \in Tasks : Call(t) \/ DriverStep(t)
  PROVE  ReadType'
<1>1. CASE DevProgram \/ DevStore
  BY <1>1, ReadTypeProgram
<1>2. CASE DevErase
  <2>1. UNCHANGED got /\ \A p \in Pages : pgm'[p] \in {<<>>, pgm[p]}
    BY <1>2 DEF DevErase, drv
  <2>2. HoldsWords(<<>>)
    BY EmptyFacts DEF HoldsWords
  <2> QED
    BY <2>1, <2>2 DEF ReadType
<1>3. CASE DevCommand \/ DevData \/ DevEol \/ DevRead \/ DevReply \/ DevFlood
  <2>1. UNCHANGED <<pgm, got>>
    BY <1>3 DEF DevCommand, DevData, DevEol, DevRead, DevReply, DevFlood, drv
  <2> QED
    BY <2>1 DEF ReadType
<1>4. ASSUME NEW t \in Tasks, Call(t) \/ DriverStep(t) PROVE ReadType'
  <2>1. pgm' = pgm
    BY <1>4, DriverLeavesDevice DEF dev
  <2>2. got' = got \/ (\E w : got' = [got EXCEPT ![t] = Append(got[t], w)]) \/ got' = [got EXCEPT ![t] = <<>>]
    BY <1>4 DEF Call, DriverStep, Lock, Send, TakeWord, TakeStatus
  <2>3. DOMAIN got' = Tasks /\ \A x \in Tasks : IsSeq(got'[x])
    <3>1. DOMAIN got = Tasks /\ \A x \in Tasks : IsSeq(got[x])
      BY DEF ReadType
    <3>2. CASE got' = got
      BY <3>1, <3>2
    <3>3. ASSUME NEW v, IsSeq(v), got' = [got EXCEPT ![t] = v]
          PROVE  DOMAIN got' = Tasks /\ \A x \in Tasks : IsSeq(got'[x])
      <4>1. \A x \in Tasks : got'[x] = IF x = t THEN v ELSE got[x]
        BY <3>1, <3>3
      <4> QED
        BY <3>1, <3>3, <4>1
    <3>4. \A w : IsSeq(Append(got[t], w))
      BY <3>1, AppendFacts
    <3> QED
      BY <2>2, <3>2, <3>3, <3>4, EmptyFacts
  <2> QED
    BY <2>1, <2>3 DEF ReadType
<1> QED
  BY <1>1, <1>2, <1>3, <1>4 DEF DeviceStep

\* A chunk of a read is at most a page, and a page unless it is the last.
LEMMA ChunkWords ==
  ASSUME NEW r, Sound(r), r.op = "r"
  PROVE  sizew(Chunk(r)) \in 1..PageWords /\ (r.size > Chunk(r) => sizew(Chunk(r)) = PageWords)
<1> DEFINE c == Chunk(r)
           n == sizew(Chunk(r))
<1>1. /\ c \in Nat /\ c % WordBytes = 0 /\ n \in Nat /\ n > 0
      /\ r.size > c => c = PageWords * WordBytes
  BY ChunkFacts
<1>2. n * WordBytes = c
  BY <1>1, WholeWords
<1>3. PageWords \in Nat /\ WordBytes \in Nat /\ WordBytes > 1 /\ PageBytes = PageWords * WordBytes
      /\ PageBytes \in Nat
  BY WordAssumption, GeomAssumption DEF PageBytes
<1>4. c <= PageWords * WordBytes
  <2>1. r.size \in Nat
    BY DEF Sound
  <2> QED
    BY <1>3, <2>1 DEF Chunk
<1> HIDE DEF c, n
<1>5. n <= PageWords
  <2> SUFFICES ASSUME ~(n <= PageWords) PROVE FALSE
    OBVIOUS
  <2>1. PICK k \in Nat : n = PageWords + 1 + k
    <3>1. n - PageWords - 1 \in Nat /\ n = PageWords + 1 + (n - PageWords - 1)
      BY <1>1, <1>3
    <3> QED
      BY <3>1
  <2> DEFINE p == PageWords * WordBytes
             q == k * WordBytes
  <2>2. c = p + WordBytes + q /\ p \in Nat /\ q \in Nat
    BY <1>2, <1>3, <2>1
  <2>3. c <= p
    BY <1>4
  <2> HIDE DEF p, q
  <2> QED
    BY <1>3, <2>2, <2>3
<1>6. r.size > c => n = PageWords
  <2> SUFFICES ASSUME c = PageWords * WordBytes PROVE n = PageWords
    BY <1>1
  <2> QED
    BY <1>1, <1>2, <1>3
<1> QED
  BY <1>1, <1>3, <1>5, <1>6 DEF n, c

\* After a whole page that does not cross its end, a chunk begins at a page again.
LEMMA NextPage ==
  ASSUME NEW a \in Nat, ~Crosses(a, PageWords), NEW m \in 1..PageWords
  PROVE  ~Crosses(a + PageWords, m)
<1> DEFINE d == PageWords
           q == a \div PageWords
           v == a % PageWords
           e == a + d - 1
           w == e % PageWords
           b == a + d
           f == b + m - 1
           u == m - 1
           zero == 0
<1>1. d \in Nat \ {0} /\ e \in Nat /\ b \in Nat /\ f \in Nat /\ u \in Nat /\ u < d
  BY GeomAssumption
<1>2. q \in Nat /\ v \in Nat /\ a = d * q + v /\ d * q \in Nat
  BY <1>1, DivFacts
<1>3. w \in Nat /\ w < d /\ e = d * (e \div d) + w
  BY <1>1, DivFacts
<1>4. e \div d = q
  BY DEF Crosses
<1> HIDE DEF q, v, w
<1> DEFINE dq == d * q
           dr == d * (q + 1)
<1>5. dq \in Nat /\ a = dq + v /\ e = dq + w /\ dr = dq + d
  BY <1>1, <1>2, <1>3, <1>4
<1> HIDE DEF dq, dr
<1>6. v = 0
  BY <1>1, <1>2, <1>3, <1>5
<1>7. b = dr + zero /\ f = dr + u
  BY <1>1, <1>5, <1>6
<1> HIDE DEF b, f, u, e
<1>8. b \div d = q + 1 /\ f \div d = q + 1
  <2>1. q + 1 \in Nat /\ zero \in Nat /\ zero < d
    BY <1>1, <1>2
  <2> HIDE DEF zero
  <2>2. b = d * (q + 1) + zero /\ f = d * (q + 1) + u
    BY <1>7 DEF dr
  <2> QED
    BY <1>1, <2>1, <2>2, DivUnique
<1> QED
  BY <1>8 DEF Crosses, b, f

LEMMA InPageStep ==
  ASSUME "cross" \notin Habits, PortInv, Flow, StepInv', ~stopped', InPage,
         DeviceStep \/ \E t \in Tasks : Call(t) \/ DriverStep(t)
  PROVE  InPage'
<1>1. CASE UNCHANGED <<pc, req>>
  BY <1>1 DEF InPage, Total, Crosses
<1>2. CASE DeviceStep
  <2>1. UNCHANGED <<pc, req>>
    BY <1>2 DEF DeviceStep, DevCommand, DevErase, DevData, DevProgram, DevStore, DevEol, DevRead,
                DevReply, DevFlood, drv
  <2> QED
    BY <1>1, <2>1
<1>3. \A x \in Tasks : pc'[x] # "idle" => Sound(req'[x])
  BY DEF StepInv, Flow
<1>4. pc \in [Tasks -> PCs] /\ DOMAIN req = Tasks
  BY DEF PortInv, PortType, Flow, FlowType
<1>5. ASSUME NEW t \in Tasks, Call(t) PROVE InPage'
  <2>1. PICK r \in Requests :
          /\ Permitted(r)
          /\ \/ UNCHANGED <<pc, req>>
             \/ pc' = [pc EXCEPT ![t] = "lock"] /\ req' = [req EXCEPT ![t] = r]
    BY <1>5 DEF Call
  <2>2. CASE pc' = [pc EXCEPT ![t] = "lock"] /\ req' = [req EXCEPT ![t] = r]
    <3> SUFFICES ASSUME NEW x \in Tasks, pc'[x] # "idle", req'[x].op = "r"
                 PROVE  ~Crosses(req'[x].addr, sizew(Chunk(req'[x])))
      BY DEF InPage, Total
    <3>1. CASE x = t
      <4>1. req'[x] = r /\ Sound(r)
        BY <1>3, <1>4, <2>2, <3>1
      <4>2. sizew(Chunk(r)) > 0
        BY <4>1, ChunkFacts
      <4> QED
        BY <2>1, <4>1, <4>2 DEF Permitted
    <3>2. CASE x # t
      <4>1. pc[x] # "idle" /\ req'[x] = req[x]
        BY <1>4, <2>2, <3>2
      <4> QED
        BY <4>1 DEF InPage, Total
    <3> QED
      BY <3>1, <3>2
  <2> QED
    BY <1>1, <2>1, <2>2
<1>6. ASSUME NEW t \in Tasks, Lock(t) \/ Send(t) \/ TakeWord(t) PROVE InPage'
  <2>1. pc[t] # "idle" /\ req' = req /\ \E p : pc' = [pc EXCEPT ![t] = p]
    BY <1>6 DEF Lock, Send, TakeWord
  <2>2. \A x \in Tasks : pc'[x] # "idle" => pc[x] # "idle"
    BY <1>4, <2>1
  <2> QED
    BY <2>1, <2>2 DEF InPage, Total, Crosses
<1>7. ASSUME NEW t \in Tasks, TakeStatus(t) PROVE InPage'
  <2> DEFINE resp == retflerr(Head(tx))
             r == req[t]
             rest == Rest(r, resp)
  <2>1. /\ pc[t] = "status" /\ req' = [req EXCEPT ![t] = rest]
        /\ rest = NoReq => pc' = [pc EXCEPT ![t] = "idle"]
        /\ rest # NoReq => pc' = [pc EXCEPT ![t] = "lock"]
    BY <1>7 DEF TakeStatus
  <2>2. Sound(r)
    BY <2>1 DEF Flow
  <2> HIDE DEF rest
  <2> SUFFICES ASSUME NEW x \in Tasks, pc'[x] # "idle", req'[x].op = "r"
               PROVE  ~Crosses(req'[x].addr, sizew(Chunk(req'[x])))
    BY DEF InPage, Total
  <2>3. CASE x = t
    <3>1. req'[x] = rest /\ rest # NoReq /\ rest.op = "r" /\ Sound(rest)
      BY <1>3, <1>4, <2>1, <2>3
    <3>2. r.op = "r" /\ r.size > Chunk(r)
          /\ rest = [r EXCEPT !.addr = r.addr + PageWords, !.size = r.size - Chunk(r)]
      <4>1. r.op \in {"e", "w", "r"}
        BY <2>2 DEF Sound
      <4>2. CASE r.op = "e" /\ r.size > SecWords * WordBytes
        <5>1. rest = [r EXCEPT !.addr = r.addr + SecWords, !.size = r.size - SecWords * WordBytes]
          BY <4>2 DEF Rest, rest
        <5>2. rest.op = r.op
          BY <2>2, <5>1 DEF Sound
        <5> QED
          BY <3>1, <4>2, <5>2
      <4> HIDE DEF r, resp
      <4> QED
        BY <3>1, <4>1, <4>2 DEF Rest, rest
    <3>3. rest.addr = r.addr + PageWords /\ r.addr \in Nat
      BY <2>2, <3>2 DEF Sound
    <3>4. sizew(Chunk(r)) = PageWords
      BY <2>2, <3>2, ChunkWords
    <3>5. ~Crosses(r.addr, PageWords)
      BY <2>1, <3>2, <3>4 DEF InPage, Total
    <3>6. sizew(Chunk(rest)) \in 1..PageWords
      BY <3>1, ChunkWords
    <3> QED
      BY <3>1, <3>3, <3>5, <3>6, NextPage
  <2>4. CASE x # t
    <3>1. pc[x] # "idle" /\ req'[x] = req[x]
      BY <1>4, <2>1, <2>4
    <3> QED
      BY <3>1 DEF InPage, Total
  <2> QED
    BY <2>3, <2>4
<1> QED
  BY <1>2, <1>5, <1>6, <1>7 DEF DriverStep

LEMMA AnsweringDevice ==
  ASSUME PageBytes < TxCap, PortInv, Flow, ~stopped', EmptyInv, ReadType, InPage, Answering,
         DeviceStep
  PROVE  Answering'
<1>1. UNCHANGED drv
  BY DEF DeviceStep, DevCommand, DevErase, DevData, DevProgram, DevStore, DevEol, DevRead, DevReply,
         DevFlood
<1>2. UNCHANGED <<owner, req, need, got, out, pc>>
  BY <1>1 DEF drv
<1>3. PICK t \in Tasks : owner = t
  <2>1. rx # <<>> \/ dpc # "line"
    BY DEF DeviceStep, DevCommand, DevErase, DevData, DevProgram, DevStore, DevEol, DevRead, DevReply,
           DevFlood
  <2> QED
    BY <2>1, FreeFacts DEF PortInv, PortType
<1>4. t # NoTask /\ owner' = t /\ InTouch(t) /\ req[t].op \in {"e", "w", "r"}
  BY <1>2, <1>3, TaskAssumption, HolderFacts
<1>5. CASE DevCommand
  <2>1. /\ req[t].op = "r" => dpc' = "read" /\ cmd'.addr = req[t].addr /\ rangeof(req[t].addr) # 0
        /\ req[t].op # "r" => dpc' # "read"
    <3>1. ~DeviceError
      BY DEF DeviceError
    <3>2. PICK x \in Tasks :
            /\ owner = x /\ cmd'.addr = CommandAddr(req[x])
            /\ \/ req[x].op = "e" /\ dpc' = "erase"
               \/ req[x].op = "w" /\ dpc' = "d"
               \/ req[x].op = "r" /\ dpc' = "read" /\ rangeof(CommandAddr(req[x])) # 0
      BY <1>5, <3>1, CommandStep
    <3> QED
      BY <1>3, <3>2 DEF CommandAddr
  <2> QED
    BY <1>2, <1>4, <2>1 DEF Answering, rangeof
<1>6. CASE DevErase \/ DevData \/ DevProgram \/ DevStore \/ DevEol
  <2>1. dpc \in {"erase", "d", "prog", "store", "eol"} /\ dpc' # "read"
    BY <1>6 DEF DevErase, DevData, DevProgram, DevStore, DevEol
  <2>2. req[t].op # "r"
    BY <1>4, <2>1 DEF InTouch, ReadStage
  <2> QED
    BY <1>2, <1>3, <2>1, <2>2 DEF Answering
<1>7. CASE DevRead
  <2>1. dpc' = "reply" /\ Arriving(t)'
    BY <1>3, <1>7, ReadAnswers
  <2> QED
    BY <1>4, <2>1 DEF Answering
<1>8. CASE DevReply
  <2>1. dpc = "reply" /\ dpc' # "read"
    BY <1>8 DEF DevReply
  <2>2. req[t].op = "r" /\ Used(t) = 1
    BY <1>4, <2>1 DEF InTouch, EraseStage, ReadStage, WriteStage
  <2>3. Arriving(t)
    BY <1>3, <1>4, <2>1, <2>2 DEF Answering
  <2>4. Arriving(t)'
    BY <1>3, <1>8, <2>3, ArrivingReply
  <2> QED
    BY <1>4, <2>1, <2>4 DEF Answering
<1>9. ~DevFlood
  BY <1>4 DEF DevFlood, InTouch, EraseStage, ReadStage, WriteStage
<1> QED
  BY <1>5, <1>6, <1>7, <1>8, <1>9 DEF DeviceStep

LEMMA AnsweringCall ==
  ASSUME PortInv, Flow, Answering, NEW t \in Tasks, Call(t)
  PROVE  Answering'
<1>1. /\ pc[t] = "idle" /\ UNCHANGED <<owner, out, need, rx, tx, got>>
      /\ req' = req \/ \E r : req' = [req EXCEPT ![t] = r]
  BY DEF Call
<1>2. UNCHANGED <<dpc, cmd, reply, secs, pgm>>
  BY DEF Call, dev
<1>3. CASE owner = NoTask
  <2>1. dpc = "line"
    BY <1>3, FreeFacts
  <2> QED
    BY <1>1, <1>2, <1>3, <2>1 DEF Answering
<1>4. ASSUME NEW h \in Tasks, owner = h PROVE Answering'
  <2>1. h # t /\ h # NoTask
    BY <1>1, <1>4, HolderFacts, TaskAssumption
  <2>2. req'[h] = req[h]
    BY <1>1, <2>1 DEF Flow, FlowType
  <2>3. Used(h)' = Used(h)
    BY <1>1, <2>2 DEF Used
  <2>4. Arriving(h) => Arriving(h)'
    BY <1>1, <1>2, <2>2, ArrivingKept
  <2> QED
    BY <1>1, <1>2, <1>4, <2>1, <2>2, <2>3, <2>4 DEF Answering, rangeof
<1> QED
  BY <1>3, <1>4 DEF PortInv, PortType

LEMMA AnsweringDriver ==
  ASSUME PortInv, Flow, Flow', ReadType, Answering, NEW t \in Tasks, DriverStep(t)
  PROVE  Answering'
<1>1. UNCHANGED <<dpc, cmd, reply, secs, pgm>>
  BY DriverLeavesDevice DEF dev
<1>2. t # NoTask
  BY TaskAssumption
<1>3. CASE Lock(t)
  <2>1. /\ pc[t] = "lock" /\ owner = NoTask /\ owner' = t /\ UNCHANGED <<req, rx>>
        /\ out' = [out EXCEPT ![t] = Message(req[t])]
    BY <1>3 DEF Lock
  <2>2. dpc = "line" /\ Len(rx) = 0 /\ Sound(req[t])
    BY <2>1 DEF Flow
  <2>3. Len(Message(req[t])) \in Nat
    <3>1. req[t].op \in {"e", "w", "r"} /\ req[t].size \in Nat
      BY <2>2 DEF Sound
    <3> QED
      BY <2>2, <3>1, ShortMessage, LongMessage
  <2>4. out'[t] = Message(req[t])
    BY <2>1 DEF Flow, FlowType
  <2>5. Used(t)' = 0
    BY <2>1, <2>2, <2>3, <2>4 DEF Used
  <2> QED
    BY <1>1, <2>1, <2>2, <2>5 DEF Answering
<1>4. CASE Send(t)
  <2>1. /\ pc[t] = "send" /\ ~DeviceRuns /\ UNCHANGED <<owner, req>>
        /\ rx' = IF Len(rx) < RxCap THEN Append(rx, Head(out[t])) ELSE rx
        /\ out' = [out EXCEPT ![t] = Tail(out[t])]
    BY <1>4 DEF Send
  <2>2. owner = t
    BY <2>1 DEF PortInv, PortExclusive
  <2>3. /\ InTouch(t) /\ Len(rx) \in Nat /\ Len(out[t]) \in Nat /\ Used(t) \in Int /\ Sound(req[t])
        /\ Used(t) + Len(rx) + Len(out[t]) = Len(Message(req[t]))
    BY <2>2, HolderFacts
  <2>4. ASSUME req[t].op = "r" PROVE Used(t)' # 1
    <3>1. Len(Message(req[t])) = 1
      BY <2>3, <2>4, ShortMessage
    <3>2. Len(out[t]) > 0 /\ Used(t) \in {0, 1}
      BY <2>1, <2>3, <2>4 DEF InTouch, ReadStage
    <3>3. Len(out[t]) = 1 /\ Len(rx) = 0
      <4> DEFINE lo == Len(out[t])
                 lr == Len(rx)
                 u == Used(t)
      <4>1. lo \in Nat /\ lr \in Nat /\ u \in {0, 1} /\ lo > 0 /\ u + lr + lo = 1
        BY <2>3, <3>1, <3>2
      <4> HIDE DEF lo, lr, u
      <4>2. lo = 1 /\ lr = 0
        BY <4>1
      <4> QED
        BY <4>2 DEF lo, lr
    <3>4. rx' = Append(rx, Head(out[t]))
      BY <2>1, FlowRoom DEF RoomToSend
    <3>5. IsSeq(rx) /\ IsSeq(out[t]) /\ DOMAIN out = Tasks
      BY DEF Flow, FlowType
    <3>6. Len(rx') = 1
      BY <3>3, <3>4, <3>5, AppendFacts
    <3>7. Len(out'[t]) = 0
      BY <2>1, <3>3, <3>5, TailFacts
    <3> QED
      BY <2>1, <3>1, <3>6, <3>7 DEF Used
  <2> QED
    BY <1>1, <1>2, <2>1, <2>2, <2>4 DEF Answering, rangeof
<1>5. CASE TakeWord(t)
  <2>1. pc[t] = "words" /\ UNCHANGED <<owner, req, out, rx>>
    BY <1>5 DEF TakeWord
  <2>2. owner = t
    BY <2>1 DEF PortInv, PortExclusive
  <2>3. Used(t)' = Used(t)
    BY <2>1 DEF Used
  <2>4. Arriving(t) => Arriving(t)'
    BY <1>5, <2>2, ArrivingWord
  <2> QED
    BY <1>1, <1>2, <2>1, <2>2, <2>3, <2>4 DEF Answering, rangeof
<1>6. CASE TakeStatus(t)
  <2>1. owner' = NoTask
    BY <1>6 DEF TakeStatus
  <2>2. dpc' = "line"
    BY <2>1 DEF Flow
  <2> QED
    BY <2>1, <2>2 DEF Answering
<1> QED
  BY <1>3, <1>4, <1>5, <1>6 DEF DriverStep

LEMMA ReadStep ==
  ASSUME "small" \notin Habits, "cross" \notin Habits, PageBytes < TxCap,
         StepInv, EmptyInv, ReadInv, [Next]_vars
  PROVE  ReadInv'
<1>1. StepInv'
  BY StepInvStep
<1> SUFFICES ASSUME ~stopped' PROVE (ReadType /\ InPage /\ Answering)'
  BY DEF ReadInv
<1>2. ~stopped
  BY DEF Next, vars
<1>3. PortInv /\ Flow /\ ReadType /\ InPage /\ Answering /\ Flow'
  BY <1>1, <1>2 DEF StepInv, ReadInv
<1>4. CASE UNCHANGED vars
  <2>1. UNCHANGED <<owner, pc, req, out, need, got, rx, tx, dpc, cmd, reply, secs, pgm>>
    BY <1>4 DEF vars, drv, dev
  <2>2. ReadType' /\ InPage'
    BY <1>3, <2>1 DEF ReadType, InPage, Total, Crosses
  <2>3. \A t \in Tasks : Arriving(t) => Arriving(t)'
    BY <2>1, ArrivingKept
  <2>4. \A t \in Tasks : Used(t)' = Used(t)
    BY <2>1 DEF Used
  <2>5. owner \in Tasks \cup {NoTask}
    BY <1>3 DEF PortInv, PortType
  <2>6. CASE owner = NoTask
    BY <1>3, <2>1, <2>2, <2>6 DEF Answering, rangeof
  <2>7. ASSUME NEW t \in Tasks, owner = t PROVE Answering'
    BY <1>3, <2>1, <2>3, <2>4, <2>7 DEF Answering, rangeof
  <2> QED
    BY <2>2, <2>5, <2>6, <2>7
<1>5. CASE DeviceStep \/ \E t \in Tasks : Call(t) \/ DriverStep(t)
  <2>1. ReadType'
    BY <1>3, <1>5, ReadTypeStep
  <2>2. InPage'
    BY <1>1, <1>3, <1>5, InPageStep
  <2>3. Answering'
    BY <1>3, <1>5, AnsweringDevice, AnsweringCall, AnsweringDriver
  <2> QED
    BY <2>1, <2>2, <2>3
<1> QED
  BY <1>4, <1>5 DEF Next

LEMMA ReadInit == Init => ReadInv
<1> SUFFICES ASSUME Init PROVE ReadType /\ InPage /\ Answering
  BY DEF ReadInv
<1>1. HoldsWords(<<>>) /\ IsSeq(<<>>)
  BY EmptyFacts DEF HoldsWords
<1> QED
  BY <1>1 DEF Init, ReadType, InPage, Answering

\* By the time the status is due, all words have been taken.
LEMMA ReadDone == StepInv /\ ReadInv => ReadIsExact
<1> SUFFICES ASSUME StepInv, ReadInv, NEW t \in Tasks, pc[t] = "status", req[t].op = "r", ~stopped,
                    NEW i \in 1..Total(t), req[t].addr + i - 1 \in Addrs,
                    memory[req[t].addr + i - 1] # Unknown
             PROVE  got[t][Len(got[t]) - Total(t) + i] = memory[req[t].addr + i - 1]
  BY DEF ReadIsExact, Total
<1> DEFINE a == req[t].addr + i - 1
<1>1. PortInv /\ Flow /\ Answering /\ owner = t /\ t # NoTask
  BY TaskAssumption DEF StepInv, ReadInv, PortInv, PortExclusive
<1>2. InTouch(t) /\ Sound(req[t])
  BY <1>1, HolderFacts
<1>3. need = 0 /\ Total(t) \in Nat /\ Total(t) > 0
  BY <1>2, ChunkFacts DEF InTouch, Total
<1>4. Used(t) = 1 /\ dpc \in {"reply", "line"}
  BY <1>2, <1>3 DEF InTouch, ReadStage, Total
<1>5. Arriving(t)
  BY <1>1, <1>4 DEF Answering
<1>6. Total(t) - need = Total(t)
  BY <1>3
<1>7. Known(a) => got[t][Len(got[t]) - Total(t) + i] = StoredWord(a)
  BY <1>5, <1>6 DEF Arriving
<1>8. memory[a] = IF secs[sectorof(a)] = "UNK" THEN Unknown ELSE StoredWord(a)
  <2>1. ~InFlight(a)
    BY <1>4 DEF InFlight
  <2> QED
    BY <2>1 DEF memory
<1>9. Known(a)
  BY <1>8 DEF Known, Addrs
<1> QED
  BY <1>7, <1>8, <1>9 DEF Known

\* For every geometry and layout, any number of tasks, every set of calls of whole words
\* whose reads stay in a page (illegal ones included), and a board FIFO that holds more than
\* a page: what spi_flash_read has put into the caller's buffer when its status is due is
\* what the flash holds, wherever that is known.
THEOREM ReadsAreExact ==
  "small" \notin Habits /\ "cross" \notin Habits /\ PageBytes < TxCap /\ Spec => []ReadIsExact
<1> SUFFICES ASSUME "small" \notin Habits, "cross" \notin Habits, PageBytes < TxCap
             PROVE  Spec => []ReadIsExact
  OBVIOUS
<1>1. Init => StepInv /\ EmptyInv /\ ReadInv
  BY StepInvInit, EmptyInit, ReadInit
<1>2. StepInv /\ EmptyInv /\ ReadInv /\ [Next]_vars => (StepInv /\ EmptyInv /\ ReadInv)'
  BY StepInvStep, EmptyStep, ReadStep
<1> QED
  BY <1>1, <1>2, ReadDone, PTL DEF Spec

----------------------------------------------------------------------------
(* The flash implements its specification.                                 *)

\* The mapped variables as functions of their arguments
LEMMA MapFacts ==
  /\ DOMAIN memory = Addrs
  /\ \A a \in Addrs : memory[a] = IF secs[sectorof(a)] = "UNK" THEN Unknown
                                  ELSE IF InFlight(a) THEN req[owner].data[a - cmd.addr + 1]
                                  ELSE StoredWord(a)
  /\ \A t \in Tasks : calls[t] = [c |-> AsCall(req[t]), done |-> Applied(t)]
  /\ \A t \in Tasks : results[t] = IF owner = t /\ req[t].op = "r" /\ Applied(t)
                                   THEN got[t] \o WordsIn(tx \o reply) ELSE got[t]
  BY DEF memory, calls, results

LEMMA InitMap == Init => Abstract!Init
<1> SUFFICES ASSUME Init PROVE Abstract!Init
  OBVIOUS
<1>1. memory = [a \in Addrs |-> Unknown]
  <2>1. \A a \in Addrs : sectorof(a) \in Sectors
    BY AddrFacts, LayoutAssumption DEF Addrs, LayoutOK
  <2> QED
    BY <2>1 DEF Init, memory
<1>2. calls = [t \in Tasks |-> Abstract!Idle]
  <2>1. \A t \in Tasks : ~Applied(t)
    BY TaskAssumption DEF Init, Applied
  <2>2. AsCall(NoReq) = Abstract!NoCall
    <3>1. sizew(Chunk(NoReq)) = 0
      BY WordAssumption DEF sizew, Chunk, NoReq
    <3> QED
      BY <3>1 DEF AsCall, NoReq, Abstract!NoCall
  <2>3. ASSUME NEW t \in Tasks PROVE [c |-> AsCall(req[t]), done |-> Applied(t)] = Abstract!Idle
    <3>1. Applied(t) = FALSE
      BY <2>1, Zenon DEF Applied
    <3>2. req[t] = NoReq
      BY DEF Init
    <3> QED
      BY <2>2, <3>1, <3>2, Zenon DEF Abstract!Idle
  <2> QED
    BY <2>3, Zenon DEF calls
<1>3. results = [t \in Tasks |-> <<>>]
  BY TaskAssumption DEF Init, results
<1> QED
  BY <1>1, <1>2, <1>3 DEF Abstract!Init

\* A step that changes nothing of what is promised
LEMMA StutterMap ==
  ASSUME \A a \in Addrs : memory'[a] = memory[a],
         \A t \in Tasks : AsCall(req'[t]) = AsCall(req[t]) /\ (Applied(t)' <=> Applied(t)),
         \A t \in Tasks : results'[t] = results[t]
  PROVE  UNCHANGED <<memory, calls, results>>
<1>1. memory' = memory
  BY DEF memory, Addrs, rangeof
<1>2. calls' = calls
  <2>1. ASSUME NEW t \in Tasks PROVE calls'[t] = calls[t]
    <3>1. Applied(t)' = Applied(t)
      BY Zenon DEF Applied
    <3>2. AsCall(req[t])' = AsCall(req[t])
      BY DEF AsCall
    <3> QED
      BY <3>1, <3>2, Zenon DEF calls
  <2> QED
    BY <2>1 DEF calls
<1>3. results' = results
  BY DEF results
<1> QED
  BY <1>1, <1>2, <1>3

\* What is left of a call is one of the calls with some sectors or pages taken off its front.
Taken(r, i) ==
  LET step == IF r.op = "e" THEN SecWords ELSE PageWords
  IN  [r EXCEPT !.addr = @ + i * step, !.size = @ - i * step * WordBytes]

PartCount(r) == ((r.size - 1) \div ((IF r.op = "e" THEN SecWords ELSE PageWords) * WordBytes))

Origin ==
  \A t \in Tasks : IF pc[t] = "idle" THEN req[t] = NoReq
                   ELSE \E r \in Requests : \E i \in 0..PartCount(r) : req[t] = Taken(r, i)

\* The device works on what the holder of the mutex asked for; while it stores, the page has room
\* and the bytes of the next word are those that were given to spi_flash_write.
Serving ==
  /\ dpc \in {"erase", "d", "prog", "store"} => cmd.addr = req[owner].addr
  /\ dpc \in {"d", "prog", "store"} =>
       ~Crosses(cmd.addr, cmd.size) /\ secs[sectorof(cmd.addr)] # "UNK"
  /\ dpc = "store" =>
       /\ inpage(cmd.addr) + cmd.size <= Len(pgm[pageof(cmd.addr)])
       /\ \A b \in 1..Len(acc) : acc[b] = req[owner].data[pos + 1][b]

\* The pages hold bytes.
StoresBytes == \A p \in Pages : \A k \in 1..Len(pgm[p]) : pgm[p][k] \in Words

\* The inductive invariant of the mapping, with those above
MapInv ==
  /\ Origin /\ Serving /\ StoresBytes
  /\ dpc # "reply" => reply = <<>>

\* How often a step fits
LEMMA DivAtLeast ==
  ASSUME NEW x \in Nat, NEW d \in Nat \ {0}, NEW k \in Nat, k * d <= x
  PROVE  k <= x \div d
<1> DEFINE q == x \div d
           v == x % d
<1>1. q \in Nat /\ v \in Nat /\ v < d /\ x = d * q + v
  BY DivFacts
<1> HIDE DEF q, v
<1> SUFFICES ASSUME ~(k <= q) PROVE FALSE
  BY DEF q
<1>2. PICK m \in Nat : k = q + 1 + m
  <2>1. k - q - 1 \in Nat /\ k = q + 1 + (k - q - 1)
    BY <1>1
  <2> QED
    BY <2>1
<1> DEFINE dq == d * q
           dm == d * m
           kd == k * d
<1>3. kd = dq + d + dm /\ dq \in Nat /\ dm \in Nat
  BY <1>1, <1>2
<1>4. kd <= dq + v
  BY <1>1
<1> HIDE DEF dq, dm, kd
<1> QED
  BY <1>1, <1>3, <1>4

LEMMA TakenFacts ==
  ASSUME NEW r \in Requests
  PROVE  /\ Taken(r, 0) = r /\ 0 \in 0..PartCount(r) /\ PartCount(r) \in Nat
         /\ \A i \in Nat : \A resp : Sound(Taken(r, i)) /\ Rest(Taken(r, i), resp) # NoReq =>
              Rest(Taken(r, i), resp) = Taken(r, i + 1) /\ i + 1 \in 0..PartCount(r)
<1> DEFINE step == IF r.op = "e" THEN SecWords ELSE PageWords
           d == step * WordBytes
           x == r.size - 1
<1>1. r \in [op: {"e", "w", "r"}, addr: Nat, size: Nat \ {0}, data: Seq([1..WordBytes -> 0..255])]
  BY RequestAssumption
<1>2. step \in Nat \ {0} /\ WordBytes \in Nat \ {0} /\ PageBytes = PageWords * WordBytes /\ PageBytes \in Nat
  BY WordAssumption, GeomAssumption DEF SecWords, PageBytes
<1>3. d \in Nat \ {0} /\ x \in Nat
  BY <1>1, <1>2
<1>4. PartCount(r) = x \div d
  BY DEF PartCount
<1>5. PartCount(r) \in Nat
  BY <1>3, <1>4, DivFacts
<1>6. \A i \in Nat : i * step \in Nat /\ i * step * WordBytes = i * d /\ i * d \in Nat
                     /\ (i + 1) * step = i * step + step /\ (i + 1) * d = i * d + d
  BY <1>2
<1>7. Taken(r, 0) = r
  <2>1. 0 * step = 0 /\ 0 * step * WordBytes = 0
    BY <1>2
  <2> DEFINE a == r.addr + 0 * step
             s == r.size - 0 * step * WordBytes
  <2>2. Taken(r, 0) = [r EXCEPT !.addr = a, !.size = s]
    BY DEF Taken
  <2>3. a = r.addr /\ s = r.size
    <3>1. r.addr \in Nat /\ r.size \in Nat
      BY <1>1
    <3> HIDE DEF step
    <3> QED
      BY <2>1, <3>1
  <2> HIDE DEF a, s
  <2> QED
    BY <1>1, <2>2, <2>3
<1>8. ASSUME NEW i \in Nat, NEW resp, Sound(Taken(r, i)), Rest(Taken(r, i), resp) # NoReq
      PROVE  Rest(Taken(r, i), resp) = Taken(r, i + 1) /\ i + 1 \in 0..PartCount(r)
  <2> DEFINE q == Taken(r, i)
             a == r.addr + i * step
             s == r.size - i * d
  <2>1. q = [r EXCEPT !.addr = a, !.size = s] /\ a \in Nat /\ s \in Int
    <3> DEFINE s0 == r.size - i * step * WordBytes
    <3>1. q = [r EXCEPT !.addr = a, !.size = s0]
      BY DEF Taken
    <3>2. i * step \in Nat /\ i * step * WordBytes = i * d /\ i * d \in Nat /\ r.addr \in Nat /\ r.size \in Nat
      BY <1>1, <1>6
    <3> HIDE DEF step, d, q
    <3>3. s0 = s /\ a \in Nat /\ s \in Int
      BY <3>2
    <3> HIDE DEF s0, a, s
    <3> QED
      BY <3>1, <3>3
  <2>2. q.op = r.op /\ q.addr = a /\ q.size = s /\ q.data = r.data
    <3> HIDE DEF q, a, s
    <3> QED
      BY <1>1, <2>1
  <2>3. q.size > d /\ Rest(q, resp) = [q EXCEPT !.addr = q.addr + step, !.size = q.size - d]
    <3>1. CASE q.op = "e" /\ q.size > SecWords * WordBytes
      <4>1. d = SecWords * WordBytes /\ step = SecWords
        BY <2>2, <3>1
      <4>2. Rest(q, resp) = [q EXCEPT !.addr = q.addr + SecWords, !.size = q.size - SecWords * WordBytes]
        BY <3>1 DEF Rest
      <4> QED
        BY <3>1, <4>1, <4>2
    <3>2. CASE q.op = "r" /\ q.size > Chunk(q) /\ resp = "OK"
      <4>1. d = PageWords * WordBytes /\ step = PageWords
        BY <2>2, <3>2
      <4>2. Chunk(q) = PageWords * WordBytes
        BY <1>8, <3>2, ChunkFacts
      <4>3. Rest(q, resp) = [q EXCEPT !.addr = q.addr + PageWords, !.size = q.size - Chunk(q)]
        BY <3>2 DEF Rest
      <4> QED
        BY <3>2, <4>1, <4>2, <4>3
    <3> HIDE DEF q
    <3> QED
      BY <1>8, <3>1, <3>2 DEF Rest, q
  <2> DEFINE a1 == r.addr + (i + 1) * step
             s1 == r.size - (i + 1) * d
  <2>4. a1 = a + step /\ s1 = s - d /\ (i + 1) * step * WordBytes = (i + 1) * d
    <3>1. (i + 1) * step * WordBytes = (i + 1) * d /\ (i + 1) * step = i * step + step /\ (i + 1) * d = i * d + d
          /\ i * step \in Nat /\ i * d \in Nat
      BY <1>6
    <3>2. r.addr \in Nat /\ r.size \in Nat
      BY <1>1
    <3> HIDE DEF step, d
    <3> QED
      BY <1>2, <1>3, <3>1, <3>2
  <2>5. Taken(r, i + 1) = [r EXCEPT !.addr = a1, !.size = s1]
    <3>1. Taken(r, i + 1) = [r EXCEPT !.addr = @ + (i + 1) * step, !.size = @ - (i + 1) * step * WordBytes]
      BY DEF Taken
    <3> HIDE DEF step, d
    <3> QED
      BY <1>1, <2>4, <3>1
  <2>6. Rest(q, resp) = [r EXCEPT !.addr = a1, !.size = s1]
    <3> HIDE DEF step, d, a, s, a1, s1, q
    <3>1. [q EXCEPT !.addr = q.addr + step, !.size = q.size - d] = [q EXCEPT !.addr = a1, !.size = s1]
      BY <2>2, <2>4
    <3>2. [q EXCEPT !.addr = a1, !.size = s1] = [r EXCEPT !.addr = a1, !.size = s1]
      BY <1>1, <2>1
    <3> QED
      BY <2>3, <3>1, <3>2
  <2>7. (i + 1) * d <= x
    <3>1. r.size - i * d > d /\ r.size \in Nat /\ i * d \in Nat /\ (i + 1) * d = i * d + d
      BY <1>1, <1>6, <2>2, <2>3
    <3> HIDE DEF d
    <3> QED
      BY <1>3, <3>1
  <2>8. i + 1 \in 0..PartCount(r)
    <3> HIDE DEF d, x
    <3>1. i + 1 <= x \div d
      BY <1>3, <2>7, DivAtLeast
    <3> QED
      BY <1>4, <1>5, <3>1
  <2> QED
    BY <2>5, <2>6, <2>8
<1>9. 0 \in 0..PartCount(r)
  BY <1>5
<1> QED
  BY <1>5, <1>7, <1>8, <1>9

LEMMA OriginStep ==
  ASSUME Flow, PortInv, Origin, DeviceStep \/ \E t \in Tasks : Call(t) \/ DriverStep(t)
  PROVE  Origin'
<1>1. CASE UNCHANGED <<pc, req>>
  BY <1>1 DEF Origin, Taken, PartCount
<1>2. CASE DeviceStep
  <2>1. UNCHANGED <<pc, req>>
    BY <1>2 DEF DeviceStep, DevCommand, DevErase, DevData, DevProgram, DevStore, DevEol, DevRead,
                DevReply, DevFlood, drv
  <2> QED
    BY <1>1, <2>1
<1>3. pc \in [Tasks -> PCs] /\ DOMAIN req = Tasks
  BY DEF PortInv, PortType, Flow, FlowType
<1>4. ASSUME NEW t \in Tasks, NEW p, NEW q, pc' = [pc EXCEPT ![t] = p], req' = [req EXCEPT ![t] = q],
             IF p = "idle" THEN q = NoReq
             ELSE \E r \in Requests : \E i \in 0..PartCount(r) : q = Taken(r, i)
      PROVE  Origin'
  <2> SUFFICES ASSUME NEW x \in Tasks
               PROVE  IF pc'[x] = "idle" THEN req'[x] = NoReq
                      ELSE \E r \in Requests : \E i \in 0..PartCount(r) : req'[x] = Taken(r, i)
    BY DEF Origin, Taken, PartCount
  <2>1. CASE x = t
    BY <1>3, <1>4, <2>1
  <2>2. CASE x # t
    <3>1. pc'[x] = pc[x] /\ req'[x] = req[x]
      BY <1>3, <1>4, <2>2
    <3> QED
      BY <3>1 DEF Origin
  <2> QED
    BY <2>1, <2>2
<1>5. ASSUME NEW t \in Tasks, Call(t) PROVE Origin'
  <2>1. PICK r \in Requests : \/ UNCHANGED <<pc, req>>
                              \/ pc' = [pc EXCEPT ![t] = "lock"] /\ req' = [req EXCEPT ![t] = r]
    BY <1>5 DEF Call
  <2>2. \E i \in 0..PartCount(r) : r = Taken(r, i)
    BY TakenFacts
  <2> QED
    BY <1>1, <1>4, <2>1, <2>2
<1>6. ASSUME NEW t \in Tasks, Lock(t) \/ Send(t) \/ TakeWord(t) PROVE Origin'
  <2>1. pc[t] # "idle" /\ req' = req /\ \E p : p # "idle" /\ pc' = [pc EXCEPT ![t] = p]
    BY <1>6 DEF Lock, Send, TakeWord
  <2>2. \A x \in Tasks : pc'[x] = "idle" <=> pc[x] = "idle"
    BY <1>3, <2>1
  <2> SUFFICES ASSUME NEW x \in Tasks
               PROVE  IF pc'[x] = "idle" THEN req'[x] = NoReq
                      ELSE \E r \in Requests : \E i \in 0..PartCount(r) : req'[x] = Taken(r, i)
    BY DEF Origin, Taken, PartCount
  <2> QED
    BY <2>1, <2>2 DEF Origin
<1>7. ASSUME NEW t \in Tasks, TakeStatus(t) PROVE Origin'
  <2> DEFINE resp == retflerr(Head(tx))
             rest == Rest(req[t], resp)
  <2>1. /\ pc[t] = "status" /\ req' = [req EXCEPT ![t] = rest]
        /\ rest = NoReq => pc' = [pc EXCEPT ![t] = "idle"]
        /\ rest # NoReq => pc' = [pc EXCEPT ![t] = "lock"]
    BY <1>7 DEF TakeStatus
  <2>2. Sound(req[t])
    BY <2>1 DEF Flow
  <2>3. PICK r \in Requests : \E i \in 0..PartCount(r) : req[t] = Taken(r, i)
    BY <2>1 DEF Origin
  <2>4. PICK i \in 0..PartCount(r) : req[t] = Taken(r, i)
    BY <2>3
  <2>5. i \in Nat
    BY TakenFacts
  <2>6. rest # NoReq => \E j \in 0..PartCount(r) : rest = Taken(r, j)
    BY <2>2, <2>4, <2>5, TakenFacts
  <2> HIDE DEF rest
  <2> QED
    BY <1>4, <2>1, <2>6
<1> QED
  BY <1>2, <1>5, <1>6, <1>7 DEF DriverStep

\* What a page holds after it was made longer
LEMMA ResizedIs ==
  ASSUME NEW s, IsSeq(s), NEW n \in Nat
  PROVE  /\ Len(Resized(s, n)) \in Nat /\ Len(Resized(s, n)) = IF n > Len(s) THEN n ELSE Len(s)
         /\ \A k \in 1..Len(Resized(s, n)) : Resized(s, n)[k] = IF k <= Len(s) THEN s[k] ELSE ZeroWord
<1>1. Len(s) \in Nat
  BY LenFacts
<1>2. CASE n > Len(s)
  <2> DEFINE m == n - Len(s)
             z == Fill(ZeroWord, m)
  <2>1. m \in Nat
    BY <1>1, <1>2
  <2> HIDE DEF m
  <2>2. IsSeq(z) /\ Len(z) = m /\ \A i \in 1..m : z[i] = ZeroWord
    BY <2>1, FillFacts
  <2> HIDE DEF z
  <2>3. /\ Len(s \o z) = Len(s) + Len(z)
        /\ \A j \in 1..Len(s) : (s \o z)[j] = s[j]
        /\ \A j \in 1..Len(z) : (s \o z)[Len(s) + j] = z[j]
    BY <2>2, ConcatFacts
  <2>4. Len(s \o z) = n
    BY <1>1, <2>2, <2>3 DEF m
  <2>5. ASSUME NEW k \in 1..n PROVE (s \o z)[k] = IF k <= Len(s) THEN s[k] ELSE ZeroWord
    <3>1. CASE k <= Len(s)
      <4>1. k \in 1..Len(s)
        BY <1>1, <3>1
      <4> QED
        BY <2>3, <3>1, <4>1
    <3>2. CASE ~(k <= Len(s))
      <4>1. k - Len(s) \in 1..m /\ Len(s) + (k - Len(s)) = k
        BY <1>1, <3>2 DEF m
      <4> QED
        BY <2>2, <2>3, <3>2, <4>1
    <3> QED
      BY <3>1, <3>2
  <2>6. Resized(s, n) = s \o z
    BY <1>2 DEF Resized, z, m
  <2> QED
    BY <1>2, <2>4, <2>5, <2>6
<1>3. CASE ~(n > Len(s))
  <2>1. Resized(s, n) = s
    BY <1>3 DEF Resized
  <2> QED
    BY <1>1, <1>3, <2>1
<1> QED
  BY <1>2, <1>3

\* The bytes that the device stores are those of the next word of the data.
LEMMA DataByte ==
  ASSUME PortInv, Flow, NEW t \in Tasks, owner = t, dpc = "store"
  PROVE  /\ pos + 1 \in 1..Len(req[t].data) /\ req[t].data[pos + 1] \in Words
         /\ IsWord(req[t].data[pos + 1])
         /\ rx # <<>> => Head(rx)[2] = req[t].data[pos + 1][Len(acc) + 1]
<1> DEFINE r == req[t]
           j == pos * WordBytes + Len(acc)
<1>1. /\ r.op = "w" /\ cmd.size = sizew(r.size) /\ pos \in Nat /\ pos < cmd.size /\ cmd.size \in Nat
      /\ Len(acc) \in Nat /\ Len(acc) < WordBytes /\ Used(t) = 2 + pos * WordBytes + Len(acc)
      /\ j < r.size /\ j \in Nat
  BY StoreFacts
<1>2. Sound(r)
  BY HolderFacts
<1>3. Len(r.data) = cmd.size /\ r.data \in Seq([1..WordBytes -> 0..255]) /\ r.size \in Nat
  BY <1>1, <1>2 DEF Sound
<1>4. pos + 1 \in 1..Len(r.data)
  BY <1>1, <1>3
<1>5. r.data[pos + 1] \in Words
  <2>1. \A S, d : d \in Seq(S) => \A k \in 1..Len(d) : d[k] \in S
    OBVIOUS
  <2> QED
    BY <1>3, <1>4, <2>1 DEF Words
<1>6. IsWord(r.data[pos + 1])
  BY <1>5, WordsAreWords
<1>7. ASSUME rx # <<>> PROVE Head(rx)[2] = r.data[pos + 1][Len(acc) + 1]
  <2>1. Head(rx) = Message(r)[Used(t) + 1]
    BY <1>7, NextItem
  <2>2. pos * WordBytes \in Nat /\ (pos + 1) - 1 = pos
    BY <1>1, WordAssumption
  <2>3. Used(t) + 1 = 2 + (j + 1) /\ j + 1 \in 1..r.size
    <3> DEFINE p == pos * WordBytes
    <3>1. Used(t) = 2 + p + Len(acc) /\ j = p + Len(acc) /\ p \in Nat
      BY <1>1, <2>2
    <3> HIDE DEF p, j
    <3> QED
      BY <1>1, <1>3, <3>1
  <2>4. Head(rx) = <<"byte", Bytes(r.data)[j + 1]>>
    <3> HIDE DEF j
    <3>1. Message(r)[2 + (j + 1)] = <<"byte", Bytes(r.data)[j + 1]>>
      BY <1>1, <1>2, <2>3, LongMessage
    <3> QED
      BY <2>1, <2>3, <3>1
  <2>5. j + 1 = ((pos + 1) - 1) * WordBytes + (Len(acc) + 1) /\ Len(acc) + 1 \in 1..WordBytes
    <3> DEFINE p == pos * WordBytes
    <3>1. j = p + Len(acc) /\ p \in Nat /\ ((pos + 1) - 1) * WordBytes = p
      BY <2>2
    <3>2. WordBytes \in Nat
      BY WordAssumption
    <3> HIDE DEF p, j
    <3> QED
      BY <1>1, <3>1, <3>2
  <2>6. Bytes(r.data)[j + 1] = r.data[pos + 1][Len(acc) + 1]
    <3>1. PICK i : i = pos + 1
      OBVIOUS
    <3>2. PICK b : b = Len(acc) + 1
      OBVIOUS
    <3>3. i \in 1..Len(r.data) /\ b \in 1..WordBytes /\ Len(r.data) \in Nat /\ j + 1 = (i - 1) * WordBytes + b
      BY <1>1, <1>3, <1>4, <2>5, <3>1, <3>2
    <3> HIDE DEF j
    <3>4. Bytes(r.data)[(i - 1) * WordBytes + b] = r.data[i][b]
      BY <3>3, BytesAt
    <3> QED
      BY <3>1, <3>2, <3>3, <3>4
  <2> HIDE DEF j
  <2> QED
    BY <2>4, <2>6
<1> QED
  BY <1>4, <1>5, <1>6, <1>7

\* A word is complete: it is the next word of the data.
LEMMA DataWord ==
  ASSUME PortInv, Flow, Serving, NEW t \in Tasks, owner = t, dpc = "store", rx # <<>>
  PROVE  LET word == Append(acc, Head(rx)[2])
         IN  /\ IsSeq(word) /\ Len(word) = Len(acc) + 1 /\ Len(word) <= WordBytes
             /\ \A b \in 1..Len(word) : word[b] = req[t].data[pos + 1][b]
             /\ ~(Len(word) < WordBytes) => word = req[t].data[pos + 1]
<1> DEFINE e == Head(rx)[2]
           word == Append(acc, e)
           d == req[t].data[pos + 1]
<1>1. IsSeq(acc) /\ Len(acc) \in Nat /\ Len(acc) < WordBytes /\ WordBytes \in Nat
  BY StoreFacts, WordAssumption DEF Flow, FlowType
<1>2. e = d[Len(acc) + 1] /\ IsSeq(d) /\ Len(d) = WordBytes
  BY DataByte DEF IsWord
<1>3. \A b \in 1..Len(acc) : acc[b] = d[b]
  BY DEF Serving
<1> HIDE DEF e, d
<1>4. /\ IsSeq(word) /\ Len(word) = Len(acc) + 1 /\ \A b \in 1..Len(acc) : word[b] = acc[b]
      /\ word[Len(acc) + 1] = e
  BY <1>1, AppendFacts
<1> HIDE DEF word
<1>5. ASSUME NEW b \in 1..Len(word) PROVE word[b] = d[b]
  <2>1. b \in 1..Len(acc) \/ b = Len(acc) + 1
    BY <1>1, <1>4
  <2> QED
    BY <1>2, <1>3, <1>4, <2>1
<1>6. Len(word) <= WordBytes
  BY <1>1, <1>4
<1>7. ~(Len(word) < WordBytes) => word = d
  <2> SUFFICES ASSUME ~(Len(word) < WordBytes) PROVE word = d
    OBVIOUS
  <2>1. Len(word) = WordBytes
    BY <1>1, <1>4
  <2> QED
    BY <1>2, <1>4, <1>5, <2>1, SameSeq
<1> QED
  BY <1>4, <1>5, <1>6, <1>7 DEF word, e, d

\* What DevStore does
LEMMA StoreIs ==
  ASSUME PortInv, Flow, Serving, NEW t \in Tasks, owner = t, DevStore
  PROVE  LET word == Append(acc, Head(rx)[2])
             k == inpage(cmd.addr) + pos + 1
         IN  /\ dpc = "store" /\ rx # <<>> /\ UNCHANGED <<cmd, secs, reply, req, owner, got, tx, out>>
             /\ \/ Len(word) < WordBytes /\ acc' = word /\ UNCHANGED <<pos, pgm, dpc>>
                \/ /\ word = req[t].data[pos + 1] /\ acc' = <<>>
                   /\ pgm' = [pgm EXCEPT ![pageof(cmd.addr)] = [pgm[pageof(cmd.addr)] EXCEPT ![k] = word]]
                   /\ pos' = pos + 1
                   /\ dpc' = IF pos + 1 = cmd.size THEN "eol" ELSE "store"
<1> DEFINE word == Append(acc, Head(rx)[2])
           k == inpage(cmd.addr) + pos + 1
<1>1. /\ dpc = "store" /\ rx # <<>> /\ UNCHANGED <<cmd, secs, reply, tx>> /\ UNCHANGED <<req, owner, got, out>>
      /\ IF Len(word) < WordBytes
         THEN acc' = word /\ UNCHANGED <<pos, pgm, dpc>>
         ELSE /\ acc' = <<>>
              /\ pgm' = [pgm EXCEPT ![pageof(cmd.addr)] = [pgm[pageof(cmd.addr)] EXCEPT ![k] = word]]
              /\ pos' = pos + 1
              /\ dpc' = IF pos + 1 = cmd.size THEN "eol" ELSE "store"
  BY DEF DevStore, drv
<1>2. ~(Len(word) < WordBytes) => word = req[t].data[pos + 1]
  BY <1>1, DataWord
<1> HIDE DEF word, k
<1> QED
  BY <1>1, <1>2 DEF word, k

LEMMA ProgramSize ==
  ASSUME PortInv, Flow, dpc \in {"d", "prog"}, NEW t \in Tasks, owner = t
  PROVE  req[t].op = "w" /\ cmd.size = sizew(req[t].size) /\ cmd.size \in Nat /\ Len(tx) = 0
<1>1. Sound(req[t]) /\ InTouch(t) /\ req[t].op \in {"e", "w", "r"}
  BY HolderFacts
<1>2. req[t].op = "w" /\ cmd.size = sizew(req[t].size) /\ Len(tx) = 0
  BY <1>1 DEF InTouch, EraseStage, ReadStage, WriteStage
<1>3. req[t].size \in Nat /\ req[t].size % WordBytes = 0
  BY <1>1 DEF Sound
<1> QED
  BY <1>2, <1>3, WholeWords

LEMMA StoresBytesStep ==
  ASSUME PortInv, Flow, EmptyInv, ReadType, Serving, StoresBytes,
         DeviceStep \/ \E t \in Tasks : Call(t) \/ DriverStep(t)
  PROVE  StoresBytes'
<1> DEFINE page == pageof(cmd.addr)
<1>1. CASE pgm' = pgm
  BY <1>1 DEF StoresBytes
<1>2. ASSUME NEW v, page \in Pages, \A k \in 1..Len(v) : v[k] \in Words, DOMAIN pgm = Pages,
             pgm' = [pgm EXCEPT ![page] = v]
      PROVE  StoresBytes'
  <2>1. \A p \in Pages : pgm'[p] = IF p = page THEN v ELSE pgm[p]
    BY <1>2
  <2>2. \A p \in Pages : \A k \in 1..Len(pgm'[p]) : pgm'[p][k] \in Words
    BY <1>2, <2>1 DEF StoresBytes
  <2> QED
    BY <2>2 DEF StoresBytes, Words
<1>3. ASSUME dpc \in {"prog", "store"}
      PROVE  /\ DOMAIN pgm = Pages /\ page \in Pages /\ IsSeq(pgm[page]) /\ inpage(cmd.addr) \in Nat
             /\ \A k \in 1..Len(pgm[page]) : pgm[page][k] \in Words
  <2>1. DOMAIN pgm = Pages /\ cmd.addr \in Nat /\ rangeof(cmd.addr) # 0
    BY <1>3 DEF EmptyInv
  <2>2. page \in Pages /\ inpage(cmd.addr) \in Nat
    BY <2>1, AddrFacts, InPageFacts
  <2> QED
    BY <2>1, <2>2 DEF ReadType, HoldsWords, StoresBytes
<1>4. CASE DevProgram
  <2>1. dpc = "prog" /\ pgm' = [pgm EXCEPT ![page] = Resized(pgm[page], inpage(cmd.addr) + cmd.size)]
    BY <1>4 DEF DevProgram
  <2>2. cmd.size \in Nat
    BY <2>1, Busy, ProgramSize
  <2>3. PICK n : n = inpage(cmd.addr) + cmd.size
    OBVIOUS
  <2>4. n \in Nat
    BY <1>3, <2>1, <2>2, <2>3
  <2> DEFINE s == pgm[page]
             v == Resized(s, n)
  <2>5. IsSeq(s) /\ Len(s) \in Nat
    BY <1>3, <2>1, LenFacts
  <2>6. Len(v) \in Nat /\ \A k \in 1..Len(v) : v[k] = IF k <= Len(s) THEN s[k] ELSE ZeroWord
    <3> HIDE DEF s
    <3> QED
      BY <2>4, <2>5, ResizedIs
  <2>7. ZeroWord \in Words
    BY WordAssumption DEF ZeroWord, Fill, Words
  <2>8. ASSUME NEW k \in 1..Len(v) PROVE v[k] \in Words
    <3> HIDE DEF v
    <3>1. k <= Len(s) => k \in 1..Len(s)
      BY <2>5, <2>6
    <3> QED
      BY <1>3, <2>1, <2>6, <2>7, <3>1
  <2> HIDE DEF v
  <2> QED
    BY <1>2, <1>3, <2>1, <2>3, <2>8 DEF v
<1>5. CASE DevStore
  <2>1. dpc = "store"
    BY <1>5 DEF DevStore
  <2>2. PICK t \in Tasks : owner = t
    BY <2>1, Busy
  <2> DEFINE d == req[t].data[pos + 1]
             k == inpage(cmd.addr) + pos + 1
             s == pgm[page]
             v == [s EXCEPT ![k] = d]
  <2>3. pgm' = pgm \/ pgm' = [pgm EXCEPT ![page] = v]
    BY <1>5, <2>2, StoreIs
  <2>4. d \in Words
    BY <2>1, <2>2, DataByte
  <2>5. IsSeq(s) /\ \A i \in 1..Len(s) : s[i] \in Words
    BY <1>3, <2>1
  <2> HIDE DEF d, k, s
  <2>6. Len(v) = Len(s)
    BY <2>5, ExceptFacts
  <2>7. \A i \in 1..Len(s) : v[i] = IF i = k THEN d ELSE s[i]
    BY <2>5, ExceptFacts
  <2> HIDE DEF v
  <2>8. \A i \in 1..Len(v) : v[i] \in Words
    BY <2>4, <2>5, <2>6, <2>7
  <2> QED
    BY <1>1, <1>2, <1>3, <2>1, <2>3, <2>8
<1>6. CASE DevErase
  <2>1. \A p \in Pages : pgm'[p] \in {<<>>, pgm[p]}
    BY <1>6 DEF DevErase
  <2>2. Len(<<>>) = 0 /\ 1..0 = {}
    OBVIOUS
  <2>3. \A p \in Pages : \A k \in 1..Len(pgm'[p]) : pgm'[p][k] \in Words
    BY <2>1, <2>2 DEF StoresBytes
  <2> QED
    BY <2>3 DEF StoresBytes, Words
<1>7. CASE DevCommand \/ DevData \/ DevEol \/ DevRead \/ DevReply \/ DevFlood
  <2>1. pgm' = pgm
    BY <1>7 DEF DevCommand, DevData, DevEol, DevRead, DevReply, DevFlood
  <2> QED
    BY <1>1, <2>1
<1>8. ASSUME NEW t \in Tasks, Call(t) \/ DriverStep(t) PROVE StoresBytes'
  <2>1. pgm' = pgm
    BY <1>8, DriverLeavesDevice DEF dev
  <2> QED
    BY <1>1, <2>1
<1> QED
  BY <1>4, <1>5, <1>6, <1>7, <1>8 DEF DeviceStep

LEMMA ServingDevice ==
  ASSUME PortInv, Flow, PortInv', Flow', ~stopped', EmptyInv, ReadType, ChosenKnown, Serving,
         \A t \in Tasks : pc[t] # "idle" => ~Illegal(req[t]), DeviceStep
  PROVE  Serving'
<1>1. UNCHANGED drv
  BY DEF DeviceStep, DevCommand, DevErase, DevData, DevProgram, DevStore, DevEol, DevRead, DevReply,
         DevFlood
<1>2. UNCHANGED <<owner, req>>
  BY <1>1 DEF drv
<1>3. PICK t \in Tasks : owner = t
  <2>1. rx # <<>> \/ dpc # "line"
    BY DEF DeviceStep, DevCommand, DevErase, DevData, DevProgram, DevStore, DevEol, DevRead, DevReply,
           DevFlood
  <2> QED
    BY <2>1, FreeFacts DEF PortInv, PortType
<1> DEFINE page == pageof(cmd.addr)
<1>4. CASE DevCommand
  <2>1. ~DeviceError /\ UNCHANGED <<secs, pgm>>
    BY <1>4 DEF DeviceError, DevCommand
  <2>2. /\ pc[t] # "idle" /\ Sound(req[t]) /\ cmd'.addr = CommandAddr(req[t])
        /\ \/ req[t].op = "e" /\ dpc' = "erase"
           \/ req[t].op = "w" /\ dpc' = "d" /\ WriteLegal(req[t].addr, sizew(req[t].size))
           \/ req[t].op = "r" /\ dpc' = "read"
    BY <1>3, <1>4, <2>1, CommandStep
  <2>3. CASE req[t].op = "e" /\ dpc' = "erase"
    <3>1. req[t].addr % SecWords = 0 /\ req[t].addr \in Nat
      BY <2>2, <2>3 DEF Illegal, Reported, Sound
    <3>2. cmd'.addr = req[t].addr
      BY <2>2, <3>1, CommandAddrFacts
    <3> QED
      BY <1>2, <1>3, <2>3, <3>2 DEF Serving
  <2>4. CASE req[t].op = "w" /\ dpc' = "d" /\ WriteLegal(req[t].addr, sizew(req[t].size))
    <3>1. cmd'.addr = req[t].addr
      BY <2>2, <2>4 DEF CommandAddr
    <3>2. cmd'.size = sizew(req[t].size)
      <4>1. owner' = t /\ t # NoTask
        BY <1>2, <1>3, TaskAssumption
      <4>2. InTouch(t)' /\ req'[t].op = "w"
        BY <1>2, <2>4, <4>1 DEF Flow
      <4> QED
        BY <1>2, <2>4, <4>2 DEF InTouch, WriteStage
    <3>3. ~Crosses(cmd'.addr, cmd'.size) /\ secs[sectorof(cmd'.addr)] # "UNK"
      BY <2>4, <3>1, <3>2 DEF WriteLegal
    <3> QED
      BY <1>2, <1>3, <2>1, <2>4, <3>1, <3>3 DEF Serving, sectorof, rangeof, Crosses
  <2>5. CASE dpc' = "read"
    BY <2>5 DEF Serving
  <2> QED
    BY <2>2, <2>3, <2>4, <2>5
<1>5. CASE DevErase \/ DevEol \/ DevRead \/ DevReply \/ DevFlood
  <2>1. dpc' \notin {"erase", "d", "prog", "store"}
    BY <1>5 DEF DevErase, DevEol, DevRead, DevReply, DevFlood
  <2> QED
    BY <2>1 DEF Serving
<1>6. CASE DevData
  <2>1. dpc = "d" /\ dpc' = "prog" /\ UNCHANGED <<cmd, secs>>
    BY <1>6 DEF DevData
  <2> QED
    BY <1>2, <2>1 DEF Serving, sectorof, rangeof, Crosses
<1>7. CASE DevProgram
  <2>1. /\ dpc = "prog" /\ dpc' = "store" /\ UNCHANGED cmd /\ acc' = <<>>
        /\ secs' = [secs EXCEPT ![sectorof(cmd.addr)] = "PROG"]
        /\ pgm' = [pgm EXCEPT ![page] = Resized(pgm[page], inpage(cmd.addr) + cmd.size)]
    BY <1>7 DEF DevProgram
  <2>2. DOMAIN pgm = Pages /\ DOMAIN secs = Sectors /\ cmd.addr \in Nat /\ rangeof(cmd.addr) # 0
    BY <2>1 DEF EmptyInv
  <2>3. page \in Pages /\ inpage(cmd.addr) \in Nat /\ sectorof(cmd.addr) \in Sectors
    BY <2>2, AddrFacts, InPageFacts
  <2>4. cmd.size \in Nat
    BY <1>3, <2>1, ProgramSize
  <2>5. PICK n : n = inpage(cmd.addr) + cmd.size
    OBVIOUS
  <2>6. n \in Nat
    BY <2>3, <2>4, <2>5
  <2>7. IsSeq(pgm[page])
    BY <2>3 DEF ReadType, HoldsWords
  <2>8. n <= Len(Resized(pgm[page], n))
    <3> DEFINE s == pgm[page]
    <3> HIDE DEF s
    <3>1. Len(s) \in Nat /\ Len(Resized(s, n)) = IF n > Len(s) THEN n ELSE Len(s)
      BY <2>6, <2>7, ResizedIs, LenFacts DEF s
    <3>2. n <= Len(Resized(s, n))
      BY <2>6, <3>1
    <3> QED
      BY <3>2 DEF s
  <2>9. inpage(cmd.addr) + cmd.size <= Len(pgm'[page])
    BY <2>1, <2>2, <2>3, <2>5, <2>8
  <2>10. secs'[sectorof(cmd.addr)] = "PROG"
    BY <2>1, <2>2, <2>3
  <2>11. Len(acc') = 0 /\ 1..0 = {}
    BY <2>1
  <2> QED
    BY <1>2, <2>1, <2>9, <2>10, <2>11 DEF Serving, sectorof, rangeof, pageof, inpage, Crosses
<1>8. CASE DevStore
  <2> DEFINE word == Append(acc, Head(rx)[2])
             k == inpage(cmd.addr) + pos + 1
             s == pgm[page]
  <2>1. /\ dpc = "store" /\ rx # <<>> /\ UNCHANGED <<cmd, secs>>
        /\ \/ Len(word) < WordBytes /\ acc' = word /\ UNCHANGED <<pos, pgm, dpc>>
           \/ /\ acc' = <<>> /\ pgm' = [pgm EXCEPT ![page] = [s EXCEPT ![k] = word]]
              /\ pos' = pos + 1
              /\ dpc' = IF pos + 1 = cmd.size THEN "eol" ELSE "store"
    BY <1>3, <1>8, StoreIs
  <2>2. \A b \in 1..Len(word) : word[b] = req[t].data[pos + 1][b]
    BY <1>3, <2>1, DataWord
  <2>3. DOMAIN pgm = Pages /\ cmd.addr \in Nat /\ rangeof(cmd.addr) # 0
    BY <2>1 DEF EmptyInv
  <2>4. page \in Pages /\ IsSeq(s)
    BY <2>3, AddrFacts DEF ReadType, HoldsWords
  <2>5. inpage(cmd.addr) + cmd.size <= Len(s)
    BY <2>1 DEF Serving
  <2> HIDE DEF word, k
  <2>6. CASE Len(word) < WordBytes /\ acc' = word /\ UNCHANGED <<pos, pgm, dpc>>
    BY <1>2, <1>3, <2>1, <2>2, <2>6 DEF Serving, sectorof, rangeof, pageof, inpage, Crosses
  <2>7. CASE /\ acc' = <<>> /\ pgm' = [pgm EXCEPT ![page] = [s EXCEPT ![k] = word]]
             /\ dpc' = IF pos + 1 = cmd.size THEN "eol" ELSE "store"
    <3>1. Len([s EXCEPT ![k] = word]) = Len(s)
      <4> HIDE DEF s
      <4> QED
        BY <2>4, ExceptFacts
    <3>2. Len(pgm'[page]) = Len(s)
      BY <2>3, <2>4, <2>7, <3>1
    <3>3. Len(acc') = 0 /\ 1..0 = {}
      BY <2>7
    <3>4. inpage(cmd.addr) + cmd.size <= Len(pgm'[page])
      BY <2>5, <3>2
    <3>5. dpc' \in {"store", "eol"}
      BY <2>7
    <3> QED
      BY <1>2, <2>1, <3>3, <3>4, <3>5 DEF Serving, sectorof, rangeof, pageof, inpage, Crosses
  <2> QED
    BY <2>1, <2>6, <2>7
<1> QED
  BY <1>4, <1>5, <1>6, <1>7, <1>8 DEF DeviceStep

LEMMA ServingDriver ==
  ASSUME PortInv, Flow, Flow', Serving, NEW t \in Tasks, Call(t) \/ DriverStep(t)
  PROVE  Serving'
<1>1. UNCHANGED <<dpc, cmd, pos, acc, secs, pgm>>
  BY DriverLeavesDevice DEF dev
<1>2. CASE dpc = "line"
  BY <1>1, <1>2 DEF Serving
<1>3. CASE dpc # "line"
  <2>1. PICK h \in Tasks : owner = h
    BY <1>3, Busy
  <2>2. h # NoTask /\ pc[h] # "idle"
    BY <2>1, HolderFacts, TaskAssumption
  <2>3. CASE Call(t)
    <3>1. /\ pc[t] = "idle" /\ UNCHANGED owner
          /\ req' = req \/ \E r : req' = [req EXCEPT ![t] = r]
      BY <2>3 DEF Call
    <3>2. req'[h] = req[h]
      BY <2>2, <3>1 DEF Flow, FlowType
    <3> QED
      BY <1>1, <2>1, <3>1, <3>2 DEF Serving, sectorof, rangeof, pageof, inpage, Crosses
  <2>4. CASE Lock(t)
    BY <2>1, <2>2, <2>4 DEF Lock
  <2>5. CASE Send(t) \/ TakeWord(t)
    <3>1. UNCHANGED <<owner, req>>
      BY <2>5 DEF Send, TakeWord
    <3> QED
      BY <1>1, <3>1 DEF Serving, sectorof, rangeof, pageof, inpage, Crosses
  <2>6. CASE TakeStatus(t)
    <3>1. owner' = NoTask
      BY <2>6 DEF TakeStatus
    <3>2. dpc' = "line"
      BY <3>1 DEF Flow
    <3> QED
      BY <1>1, <1>3, <3>2
  <2> QED
    BY <2>3, <2>4, <2>5, <2>6 DEF DriverStep
<1> QED
  BY <1>2, <1>3

\* The hypotheses under which the mapping is shown: legal calls of whole words whose reads stay
\* in a page, and room in the board's FIFO for the answer to the longest read
Proper ==
  /\ "illegal" \notin Habits /\ "small" \notin Habits /\ "cross" \notin Habits
  /\ PageBytes < TxCap

FlashInv == StepInv /\ EmptyInv /\ LegalInv /\ ReadInv /\ ChosenKnown /\ MapInv

\* Everything that is known in a state of a behaviour with proper calls
LEMMA FlashInvFacts ==
  ASSUME Proper, FlashInv
  PROVE  /\ ~stopped /\ PortInv /\ Flow /\ EmptyInv /\ ReadType /\ InPage /\ Answering /\ ChosenKnown
         /\ Origin /\ Serving /\ StoresBytes /\ (dpc # "reply" => reply = <<>>)
         /\ \A t \in Tasks : pc[t] # "idle" => ~Illegal(req[t])
  BY DEF Proper, FlashInv, StepInv, LegalInv, ReadInv, MapInv

LEMMA MapStep ==
  ASSUME Proper, FlashInv, [Next]_vars
  PROVE  FlashInv'
<1>1. StepInv' /\ EmptyInv' /\ LegalInv' /\ ReadInv' /\ ChosenKnown'
  BY StepInvStep, EmptyStep, LegalStep, ReadStep, KnownStep DEF FlashInv, Proper
<1>2. /\ ~stopped /\ PortInv /\ Flow /\ EmptyInv /\ ReadType /\ InPage /\ Answering /\ ChosenKnown
      /\ Origin /\ Serving /\ StoresBytes /\ (dpc # "reply" => reply = <<>>)
      /\ \A t \in Tasks : pc[t] # "idle" => ~Illegal(req[t])
  BY FlashInvFacts
<1>3. PortInv' /\ Flow' /\ ~stopped'
  BY <1>1 DEF Proper, StepInv, LegalInv
<1>4. CASE UNCHANGED vars
  <2>1. UNCHANGED <<owner, pc, req, dpc, cmd, pos, acc, reply, secs, pgm>>
    BY <1>4 DEF vars, drv, dev
  <2>2. Origin' /\ StoresBytes'
    BY <1>2, <2>1 DEF Origin, Taken, PartCount, StoresBytes, Words
  <2>3. Serving'
    BY <1>2, <2>1 DEF Serving, sectorof, rangeof, pageof, inpage, Crosses
  <2> QED
    BY <1>1, <1>2, <2>1, <2>2, <2>3 DEF FlashInv, MapInv
<1>5. CASE DeviceStep \/ \E t \in Tasks : Call(t) \/ DriverStep(t)
  <2>1. Origin'
    BY <1>2, <1>5, OriginStep
  <2>2. StoresBytes'
    BY <1>2, <1>5, StoresBytesStep
  <2>3. Serving'
    BY <1>2, <1>3, <1>5, ServingDevice, ServingDriver
  <2>4. dpc' # "reply" => reply' = <<>>
    <3>1. CASE DevCommand \/ DevErase \/ DevData \/ DevProgram \/ DevStore \/ DevEol
      BY <1>2, <3>1 DEF DevCommand, DevErase, DevData, DevProgram, DevStore, DevEol
    <3>2. CASE DevReply \/ DevFlood
      BY <1>2, <3>2 DEF DevReply, DevFlood
    <3>3. CASE DevRead
      <4>1. PICK t \in Tasks : owner = t
        BY <1>2, <3>3, Busy DEF DevRead
      <4> QED
        BY <1>2, <3>3, <4>1, ReadAnswers
    <3>4. ASSUME NEW t \in Tasks, Call(t) \/ DriverStep(t) PROVE dpc' # "reply" => reply' = <<>>
      BY <1>2, <3>4, DriverLeavesDevice DEF dev
    <3> QED
      BY <1>5, <3>1, <3>2, <3>3, <3>4 DEF DeviceStep
  <2> QED
    BY <1>1, <2>1, <2>2, <2>3, <2>4 DEF FlashInv, MapInv
<1> QED
  BY <1>4, <1>5 DEF Next

LEMMA MapInit == Init => FlashInv
<1> SUFFICES ASSUME Init PROVE FlashInv
  OBVIOUS
<1>1. StepInv /\ EmptyInv /\ ReadInv
  BY StepInvInit, EmptyInit, ReadInit
<1>2. LegalInv /\ ChosenKnown
  BY DEF Init, LegalInv, ChosenKnown
<1>3. Origin /\ Serving
  BY DEF Init, Origin, Serving
<1>4. StoresBytes
  <2>1. Len(<<>>) = 0 /\ 1..0 = {}
    OBVIOUS
  <2> QED
    BY <2>1 DEF Init, StoresBytes
<1> QED
  BY <1>1, <1>2, <1>3, <1>4 DEF FlashInv, MapInv, Init

\* What a step does to the calls, to the memory and to the results of a task
LEMMA CallsSame ==
  ASSUME \A t \in Tasks : req'[t] = req[t] /\ (Applied(t)' <=> Applied(t))
  PROVE  calls' = calls
<1>1. ASSUME NEW t \in Tasks PROVE calls'[t] = calls[t]
  <2>1. Applied(t)' = Applied(t)
    BY Zenon DEF Applied
  <2>2. AsCall(req[t])' = AsCall(req[t])
    BY DEF AsCall
  <2> QED
    BY <2>1, <2>2, Zenon DEF calls
<1> QED
  BY <1>1 DEF calls

LEMMA CallsDone ==
  ASSUME NEW t \in Tasks, UNCHANGED req, ~Applied(t), Applied(t)',
         \A x \in Tasks : x # t => ~Applied(x) /\ ~Applied(x)'
  PROVE  /\ calls[t].c = AsCall(req[t]) /\ ~calls[t].done
         /\ calls' = [calls EXCEPT ![t].done = TRUE]
<1>1. calls[t] = [c |-> AsCall(req[t]), done |-> FALSE]
  <2>1. Applied(t) = FALSE
    BY Zenon DEF Applied
  <2> QED
    BY <2>1, Zenon DEF calls
<1>2. calls'[t] = [c |-> AsCall(req[t]), done |-> TRUE]
  <2>1. Applied(t)' = TRUE
    BY Zenon DEF Applied
  <2>2. calls'[t] = [c |-> AsCall(req'[t]), done |-> Applied(t)']
    BY Zenon DEF calls, AsCall
  <2> QED
    BY <2>1, <2>2, Zenon
<1>3. ASSUME NEW x \in Tasks, x # t PROVE calls'[x] = calls[x]
  <2>1. Applied(x)' = FALSE /\ Applied(x) = FALSE
    BY <1>3, Zenon DEF Applied
  <2>2. calls'[x] = [c |-> AsCall(req'[x]), done |-> Applied(x)']
    BY Zenon DEF calls, AsCall
  <2>3. calls[x] = [c |-> AsCall(req[x]), done |-> Applied(x)]
    BY Zenon DEF calls
  <2> QED
    BY <2>1, <2>2, <2>3, Zenon
<1>4. calls = [x \in Tasks |-> calls[x]] /\ calls' = [x \in Tasks |-> calls'[x]]
  BY Zenon DEF calls
<1>5. [calls[t] EXCEPT !.done = TRUE] = calls'[t]
  <2>1. PICK f : f = FALSE
    BY Zenon
  <2>2. PICK g : g = TRUE
    BY Zenon
  <2>3. calls[t] = [c |-> AsCall(req[t]), done |-> f] /\ calls'[t] = [c |-> AsCall(req[t]), done |-> g]
    BY <1>1, <1>2, <2>1, <2>2, Zenon
  <2>4. [calls[t] EXCEPT !.done = g] = calls'[t]
    BY <2>3
  <2> QED
    BY <2>2, <2>4, Zenon
<1>6. calls' = [calls EXCEPT ![t].done = TRUE]
  BY <1>3, <1>4, <1>5
<1> QED
  BY <1>1, <1>6

LEMMA CallsSet ==
  ASSUME NEW t \in Tasks, NEW r, DOMAIN req = Tasks, req' = [req EXCEPT ![t] = r],
         ~Applied(t)', \A x \in Tasks : x # t => (Applied(x)' <=> Applied(x))
  PROVE  calls' = [calls EXCEPT ![t] = [c |-> AsCall(r), done |-> FALSE]]
<1>1. calls'[t] = [c |-> AsCall(r), done |-> FALSE]
  <2>1. Applied(t)' = FALSE
    BY Zenon DEF Applied
  <2>2. calls'[t] = [c |-> AsCall(req'[t]), done |-> Applied(t)']
    BY Zenon DEF calls, AsCall
  <2>3. req'[t] = r
    OBVIOUS
  <2> QED
    BY <2>1, <2>2, <2>3, Zenon
<1>2. ASSUME NEW x \in Tasks, x # t PROVE calls'[x] = calls[x]
  <2>1. Applied(x)' = Applied(x)
    BY <1>2, Zenon DEF Applied
  <2>2. calls'[x] = [c |-> AsCall(req'[x]), done |-> Applied(x)']
    BY Zenon DEF calls, AsCall
  <2>3. calls[x] = [c |-> AsCall(req[x]), done |-> Applied(x)]
    BY Zenon DEF calls
  <2>4. req'[x] = req[x]
    BY <1>2
  <2> QED
    BY <2>1, <2>2, <2>3, <2>4, Zenon
<1>3. calls = [x \in Tasks |-> calls[x]] /\ calls' = [x \in Tasks |-> calls'[x]]
  BY Zenon DEF calls
<1> QED
  BY <1>1, <1>2, <1>3

\* Nothing is in flight, before or after, and no sector or page changes.
LEMMA MemorySame ==
  ASSUME UNCHANGED <<secs, pgm>>, dpc # "store", dpc' # "store"
  PROVE  memory' = memory
<1>1. ASSUME NEW a \in Addrs PROVE memory'[a] = memory[a]
  <2>1. ~InFlight(a) /\ ~InFlight(a)'
    BY DEF InFlight
  <2>2. StoredWord(a)' = StoredWord(a)
    BY SameContents
  <2>3. memory[a] = IF secs[sectorof(a)] = "UNK" THEN Unknown ELSE StoredWord(a)
    BY <2>1 DEF memory
  <2>4. memory'[a] = IF secs'[sectorof(a)] = "UNK" THEN Unknown ELSE StoredWord(a)'
    BY <2>1 DEF memory, Addrs, rangeof, sectorof
  <2> QED
    BY <2>2, <2>3, <2>4
<1> QED
  BY <1>1 DEF memory, Addrs, rangeof

\* The task's read has results under way.
Due(t) == owner = t /\ req[t].op = "r" /\ Applied(t)

LEMMA ResultsSame ==
  ASSUME UNCHANGED got,
         \A t \in Tasks : /\ Due(t)' <=> Due(t)
                          /\ Due(t) => WordsIn(tx \o reply)' = WordsIn(tx \o reply)
  PROVE  results' = results
<1>1. ASSUME NEW t \in Tasks PROVE results'[t] = results[t]
  <2>1. results[t] = IF Due(t) THEN got[t] \o WordsIn(tx \o reply) ELSE got[t]
    BY DEF results, Due
  <2>2. results'[t] = IF Due(t)' THEN got'[t] \o WordsIn(tx \o reply)' ELSE got'[t]
    BY DEF results, Due
  <2> QED
    BY <2>1, <2>2
<1> QED
  BY <1>1 DEF results

\* The driver does not touch the memory.
LEMMA DriverMemory ==
  ASSUME PortInv, Flow, Flow', NEW t \in Tasks, Call(t) \/ DriverStep(t)
  PROVE  memory' = memory
<1>1. UNCHANGED <<dpc, cmd, pos, secs, pgm>>
  BY DriverLeavesDevice DEF dev
<1>2. CASE dpc # "store"
  BY <1>1, <1>2, MemorySame
<1>3. CASE dpc = "store"
  <2>1. PICK h \in Tasks : owner = h
    BY <1>3, Busy
  <2>2. h # NoTask /\ pc[h] # "idle"
    BY <2>1, HolderFacts, TaskAssumption
  <2>3. owner' = h /\ req'[h] = req[h]
    <3>1. CASE Call(t)
      <4>1. /\ pc[t] = "idle" /\ UNCHANGED owner
            /\ req' = req \/ \E r : req' = [req EXCEPT ![t] = r]
        BY <3>1 DEF Call
      <4> QED
        BY <2>1, <2>2, <4>1 DEF Flow, FlowType
    <3>2. CASE Lock(t)
      BY <2>1, <2>2, <3>2 DEF Lock
    <3>3. CASE Send(t) \/ TakeWord(t)
      BY <2>1, <3>3 DEF Send, TakeWord
    <3>4. CASE TakeStatus(t)
      <4>1. owner' = NoTask
        BY <3>4 DEF TakeStatus
      <4> QED
        BY <1>1, <1>3, <4>1 DEF Flow
    <3> QED
      BY <3>1, <3>2, <3>3, <3>4 DEF DriverStep
  <2>4. ASSUME NEW a \in Addrs PROVE memory'[a] = memory[a]
    <3>1. InFlight(a)' <=> InFlight(a)
      BY <1>1, <2>1, <2>3 DEF InFlight
    <3>2. StoredWord(a)' = StoredWord(a)
      BY <1>1, SameContents
    <3>3. memory[a] = IF secs[sectorof(a)] = "UNK" THEN Unknown
                      ELSE IF InFlight(a) THEN req[h].data[a - cmd.addr + 1] ELSE StoredWord(a)
      BY <2>1 DEF memory
    <3>4. memory'[a] = IF secs'[sectorof(a)] = "UNK" THEN Unknown
                       ELSE IF InFlight(a)' THEN req'[h].data[a - cmd'.addr + 1] ELSE StoredWord(a)'
      BY <2>3 DEF memory, Addrs, rangeof, sectorof
    <3> QED
      BY <1>1, <2>3, <3>1, <3>2, <3>3, <3>4
  <2> QED
    BY <2>4 DEF memory, Addrs, rangeof
<1> QED
  BY <1>2, <1>3

\* A call is made of its parts.
LEMMA PartsAre == \A r : Parts(r) = {AsCall(Taken(r, i)) : i \in 0..PartCount(r)}
  BY DEF Parts, Taken, PartCount

LEMMA CallMap ==
  ASSUME Proper, FlashInv, Flow', NEW t \in Tasks, Call(t)
  PROVE  Abstract!Begin(t)
<1>1. PortInv /\ Flow /\ Origin
  BY FlashInvFacts
<1>2. PICK r \in Requests : req' = [req EXCEPT ![t] = r]
  BY DEF Call, Permitted, Illegal, Proper
<1>3. pc[t] = "idle" /\ UNCHANGED <<owner, out, rx, tx, dpc, reply, got>>
  BY <1>2 DEF Call, dev
<1>4. owner # t /\ req[t] = NoReq /\ DOMAIN req = Tasks
  BY <1>1, <1>3 DEF PortInv, PortExclusive, Origin, Flow, FlowType
<1>5. ~Applied(t) /\ ~Applied(t)' /\ \A x \in Tasks : Applied(x)' <=> Applied(x)
  BY <1>3, <1>4 DEF Applied
<1>6. calls[t] = Abstract!Idle
  <2>1. AsCall(NoReq) = Abstract!NoCall
    <3>1. sizew(Chunk(NoReq)) = 0
      BY WordAssumption DEF sizew, Chunk, NoReq
    <3> QED
      BY <3>1 DEF AsCall, NoReq, Abstract!NoCall
  <2>2. Applied(t) = FALSE
    BY <1>5, Zenon DEF Applied
  <2>3. calls[t] = [c |-> AsCall(req[t]), done |-> Applied(t)]
    BY Zenon DEF calls
  <2> QED
    BY <1>4, <2>1, <2>2, <2>3, Zenon DEF Abstract!Idle
<1>7. calls' = [calls EXCEPT ![t] = [c |-> AsCall(r), done |-> FALSE]]
  BY <1>2, <1>4, <1>5, CallsSet
<1>8. AsCall(r) \in UNION {Parts(q) : q \in Requests}
  <2>1. AsCall(r) \in Parts(r)
    BY TakenFacts, PartsAre
  <2> QED
    BY <2>1
<1>9. results' = results
  <2>1. ASSUME NEW x \in Tasks
        PROVE  (Due(x)' <=> Due(x)) /\ WordsIn(tx \o reply)' = WordsIn(tx \o reply)
    <3>1. owner = x => req'[x] = req[x]
      BY <1>2, <1>4
    <3> QED
      BY <1>3, <1>5, <3>1 DEF Due, WordsIn
  <2> QED
    BY <1>3, <2>1, ResultsSame
<1>10. memory' = memory
  BY <1>1, DriverMemory
<1> QED
  BY <1>6, <1>7, <1>8, <1>9, <1>10, Zenon DEF Abstract!Begin

LEMMA LockMap ==
  ASSUME Proper, FlashInv, Flow', NEW t \in Tasks, Lock(t)
  PROVE  UNCHANGED <<memory, calls, results>>
<1>1. PortInv /\ Flow
  BY FlashInvFacts
<1>2. /\ pc[t] = "lock" /\ owner = NoTask /\ owner' = t /\ out' = [out EXCEPT ![t] = Message(req[t])]
      /\ UNCHANGED <<req, got, dpc>>
  BY DEF Lock, dev
<1>3. dpc = "line" /\ Sound(req[t]) /\ DOMAIN out = Tasks
  BY <1>1, <1>2, FreeFacts DEF Flow, FlowType
<1>4. IsSeq(Message(req[t])) /\ Len(Message(req[t])) > 0
  <2>1. CASE req[t].op # "w"
    BY <1>3, <2>1, ShortMessage
  <2>2. CASE req[t].op = "w"
    <3>1. IsSeq(Message(req[t])) /\ Len(Message(req[t])) = req[t].size + 4 /\ req[t].size \in Nat
      BY <1>3, <2>2, LongMessage DEF Sound
    <3> QED
      BY <3>1
  <2> QED
    BY <2>1, <2>2
<1>5. out'[t] # <<>>
  <2>1. out'[t] = Message(req[t])
    BY <1>2, <1>3
  <2> QED
    BY <1>4, <2>1, LenFacts
<1>6. \A x \in Tasks : ~Applied(x) /\ ~Applied(x)'
  BY <1>2, <1>3, <1>5, TaskAssumption DEF Applied
<1>7. calls' = calls
  BY <1>2, <1>6, CallsSame
<1>8. results' = results
  BY <1>2, <1>6, ResultsSame DEF Due
<1>9. memory' = memory
  BY <1>1, DriverMemory DEF DriverStep
<1> QED
  BY <1>7, <1>8, <1>9

LEMMA SendMap ==
  ASSUME Proper, FlashInv, Flow', NEW t \in Tasks, Send(t)
  PROVE  UNCHANGED <<memory, calls, results>>
<1>1. PortInv /\ Flow
  BY FlashInvFacts
<1>2. /\ pc[t] = "send" /\ ~DeviceRuns
      /\ rx' = IF Len(rx) < RxCap THEN Append(rx, Head(out[t])) ELSE rx
      /\ UNCHANGED <<owner, req, got, tx, dpc, reply>>
  BY DEF Send, dev
<1>3. owner = t
  BY <1>1, <1>2 DEF PortInv, PortExclusive
<1>4. out[t] # <<>>
  <2>1. InTouch(t) /\ IsSeq(out[t])
    BY <1>1, <1>3, HolderFacts DEF Flow, FlowType
  <2> QED
    BY <1>2, <2>1, LenFacts DEF InTouch
<1>5. rx' # <<>>
  <2>1. Len(rx) < RxCap
    BY <1>1, <1>2, FlowRoom DEF RoomToSend
  <2>2. IsSeq(rx) /\ Len(rx) \in Nat
    BY <1>1, LenFacts DEF Flow, FlowType
  <2>3. IsSeq(rx') /\ Len(rx') = Len(rx) + 1
    BY <1>2, <2>1, <2>2, AppendFacts
  <2> QED
    BY <2>2, <2>3, LenFacts
<1>6. \A x \in Tasks : Applied(x)' <=> Applied(x)
  BY <1>2, <1>3, <1>4, <1>5 DEF Applied
<1>7. calls' = calls
  BY <1>2, <1>6, CallsSame
<1>8. results' = results
  <2>1. WordsIn(tx \o reply)' = WordsIn(tx \o reply)
    BY <1>2 DEF WordsIn
  <2> QED
    BY <1>2, <1>6, <2>1, ResultsSame DEF Due
<1>9. memory' = memory
  BY <1>1, DriverMemory DEF DriverStep
<1> QED
  BY <1>7, <1>8, <1>9

LEMMA CommandMap ==
  ASSUME Proper, FlashInv, ~stopped', DevCommand
  PROVE  UNCHANGED <<memory, calls, results>>
<1>1. /\ dpc = "line" /\ rx # <<>> /\ UNCHANGED <<req, got, secs, pgm>>
      /\ dpc' \in {"erase", "d", "read"}
  BY DEF DevCommand, DeviceError, drv
<1>2. \A x \in Tasks : ~Applied(x) /\ ~Applied(x)'
  BY <1>1 DEF Applied
<1>3. calls' = calls
  BY <1>1, <1>2, CallsSame
<1>4. results' = results
  BY <1>1, <1>2, ResultsSame DEF Due
<1>5. memory' = memory
  BY <1>1, MemorySame
<1> QED
  BY <1>3, <1>4, <1>5

LEMMA DataMap ==
  ASSUME DevData
  PROVE  UNCHANGED <<memory, calls, results>>
<1>1. dpc = "d" /\ dpc' = "prog" /\ UNCHANGED <<req, got, secs, pgm>>
  BY DEF DevData, drv
<1>2. \A x \in Tasks : ~Applied(x) /\ ~Applied(x)'
  BY <1>1 DEF Applied
<1>3. calls' = calls
  BY <1>1, <1>2, CallsSame
<1>4. results' = results
  BY <1>1, <1>2, ResultsSame DEF Due
<1>5. memory' = memory
  BY <1>1, MemorySame
<1> QED
  BY <1>3, <1>4, <1>5

\* The device has skipped the end of the line: all of the message has been read.
LEMMA EolMap ==
  ASSUME Proper, FlashInv, PortInv', Flow', DevEol
  PROVE  UNCHANGED <<memory, calls, results>>
<1>1. PortInv /\ Flow
  BY FlashInvFacts
<1>2. /\ dpc = "eol" /\ UNCHANGED <<req, got, secs, pgm, owner, out>>
      /\ \/ dpc' = "line" /\ Answer(0)
         \/ dpc' = "eol" /\ UNCHANGED tx
  BY DEF DevEol, drv
<1>3. PICK t \in Tasks : owner = t
  BY <1>1, <1>2, Busy
<1>4. Sound(req[t]) /\ InTouch(t) /\ req[t].op \in {"e", "w", "r"} /\ req[t].size \in Nat /\ t # NoTask
  BY <1>1, <1>3, HolderFacts, TaskAssumption
<1>5. req[t].op = "w" /\ Len(tx) = 0 /\ IsSeq(tx)
  BY <1>1, <1>2, <1>4 DEF InTouch, EraseStage, ReadStage, WriteStage, Flow, FlowType
<1>6. dpc' = "line" => out'[t] = <<>> /\ rx' = <<>>
  <2> SUFFICES ASSUME dpc' = "line" PROVE out'[t] = <<>> /\ rx' = <<>>
    OBVIOUS
  <2>1. Len(tx') = 1
    <3>1. Len(tx) < TxCap
      <4>1. PageBytes \in Nat /\ PageBytes < TxCap /\ TxCap \in Nat
        BY WordAssumption, GeomAssumption, CapAssumption DEF PageBytes, Proper
      <4> QED
        BY <1>5, <4>1
    <3>2. tx' = Append(tx, 0)
      BY <1>2, <3>1 DEF Answer
    <3> QED
      BY <1>5, <3>2, AppendFacts
  <2>2. InTouch(t)' /\ IsSeq(rx') /\ IsSeq(out'[t])
    BY <1>2, <1>3, <1>4 DEF Flow, FlowType
  <2>3. Used(t)' = 4 + req[t].size
    BY <1>2, <1>5, <2>1, <2>2 DEF InTouch, WriteStage
  <2>4. Len(Message(req[t])) = req[t].size + 4
    BY <1>4, <1>5, LongMessage
  <2>5. Used(t)' = Len(Message(req[t])) - Len(out'[t]) - Len(rx')
    BY <1>2 DEF Used, Message, AsItems, Bytes
  <2>6. Len(out'[t]) \in Nat /\ Len(rx') \in Nat
    BY <2>2, LenFacts
  <2>7. Len(out'[t]) = 0 /\ Len(rx') = 0
    BY <1>4, <2>3, <2>4, <2>5, <2>6
  <2> QED
    BY <2>2, <2>7, LenFacts
<1>7. \A x \in Tasks : Applied(x)' <=> Applied(x)
  BY <1>2, <1>3, <1>6 DEF Applied
<1>8. calls' = calls
  BY <1>2, <1>7, CallsSame
<1>9. results' = results
  BY <1>2, <1>3, <1>5, ResultsSame DEF Due
<1>10. memory' = memory
  BY <1>2, MemorySame
<1> QED
  BY <1>8, <1>9, <1>10

\* The sectors of a range come before those of the ranges behind it.
LEMMA SecAfter ==
  ASSUME NEW rs, NEW re, Ordered(rs, re), NEW r \in 1..Len(rs), NEW q \in 1..Len(rs), r < q
  PROVE  SecStart(rs, re)[r + 1] <= SecStart(rs, re)[q]
<1> DEFINE ss == SecStart(rs, re)
           n == Len(rs)
           w(i) == (re[i] + 1 - rs[i]) \div SecWords
<1>1. n \in Nat /\ SecWords \in Nat \ {0}
  BY GeomAssumption DEF Ordered, SecWords
<1>2. \A i \in 1..n : ss[i + 1] = ss[i] + w(i)
  BY <1>1, SecStartFacts
<1>3. \A i \in 1..(n + 1) : ss[i] \in Nat
  BY SecNumbers
<1>4. ASSUME NEW i \in 1..n PROVE w(i) \in Nat
  <2>1. rs[i] \in Nat /\ re[i] \in Nat /\ rs[i] < re[i]
    <3>1. rs \in Seq(Nat) /\ re \in Seq(Nat) /\ Len(re) = Len(rs) /\ DOMAIN rs = 1..n
          /\ \A k \in DOMAIN rs : rs[k] < re[k]
      BY DEF Ordered
    <3>2. i \in 1..Len(rs) /\ i \in 1..Len(re) /\ i \in DOMAIN rs
      BY <3>1
    <3>3. rs[i] \in Nat /\ re[i] \in Nat
      BY <3>1, <3>2
    <3> QED
      BY <3>1, <3>2, <3>3
  <2>2. re[i] + 1 - rs[i] \in Nat
    BY <2>1
  <2> QED
    BY <1>1, <2>2, DivFacts
<1> HIDE DEF ss, w
<1> DEFINE Z == {j \in Nat : r + 1 + j <= n /\ ~(ss[r + 1] <= ss[r + 1 + j])}
<1>5. Z = {}
  <2> SUFFICES ASSUME Z # {} PROVE FALSE
    OBVIOUS
  <2>1. PICK j \in Z : \A i \in Z : j <= i
    BY LeastNat
  <2>2. j \in Nat /\ r + 1 + j <= n /\ ~(ss[r + 1] <= ss[r + 1 + j])
    BY <2>1
  <2>3. r + 1 \in 1..(n + 1) /\ r + 1 + j \in 1..(n + 1)
    BY <1>1, <2>2
  <2>4. j # 0
    <3> SUFFICES ASSUME j = 0 PROVE FALSE
      OBVIOUS
    <3>1. r + 1 + j = r + 1
      BY <1>1
    <3> QED
      BY <1>3, <2>2, <2>3, <3>1
  <2>5. /\ j - 1 \in Nat /\ r + 1 + (j - 1) <= n /\ ~(j <= j - 1)
        /\ r + 1 + (j - 1) = r + j /\ r + j \in 1..n /\ r + j \in 1..(n + 1) /\ (r + j) + 1 = r + 1 + j
    BY <1>1, <2>2, <2>4
  <2>6. ss[r + 1] <= ss[r + j]
    BY <2>1, <2>5
  <2>7. ss[r + 1 + j] = ss[r + j] + w(r + j) /\ w(r + j) \in Nat
    BY <1>2, <1>4, <2>5
  <2>8. ss[r + 1] \in Nat /\ ss[r + j] \in Nat
    BY <1>3, <2>3, <2>5
  <2> QED
    BY <2>2, <2>6, <2>7, <2>8
<1>6. q - r - 1 \in Nat /\ r + 1 + (q - r - 1) = q /\ q <= n
  BY <1>1
<1>7. ss[r + 1] <= ss[q]
  BY <1>5, <1>6
<1> QED
  BY <1>7 DEF ss

LEMMA SecOrder ==
  ASSUME NEW rs, NEW re, LayoutOK(rs, re), NEW r \in 1..Len(rs), NEW q \in 1..Len(rs), r < q
  PROVE  SecStart(rs, re)[r + 1] <= SecStart(rs, re)[q]
  BY LayoutIsOrdered, SecAfter

\* The sector of an address is one of its range.
LEMMA SectorRange ==
  ASSUME NEW a \in Nat, rangeof(a) # 0
  PROVE  /\ rangeof(a) \in 1..Len(rangestart) /\ Len(rangestart) \in Nat
         /\ secstart[rangeof(a)] \in Nat /\ secstart[rangeof(a) + 1] \in Nat
         /\ secstart[rangeof(a)] <= sectorof(a) /\ sectorof(a) < secstart[rangeof(a) + 1]
<1> DEFINE rs == rangestart
           re == rangeend
           r == rangeof(a)
           x == a - rs[r]
           c == re[r] + 1 - rs[r]
           f == secstart[r]
<1>1. SecWords \in Nat \ {0}
  BY GeomAssumption DEF SecWords
<1>2. /\ r \in 1..Len(rs) /\ rs[r] \in Nat /\ re[r] \in Nat /\ rs[r] <= a /\ a <= re[r]
  BY LayoutAssumption, RangeFacts DEF rangeof
<1>3. Len(rs) \in Nat
  BY LayoutAssumption DEF LayoutOK
<1>4. rs[r] % SecWords = 0 /\ (re[r] + 1) % SecWords = 0
  <2>1. rs \in Seq(Nat) /\ \A k \in DOMAIN rs : rs[k] % SecWords = 0 /\ (re[k] + 1) % SecWords = 0
    BY LayoutAssumption, Zenon DEF LayoutOK
  <2> HIDE DEF rs, re, r
  <2>2. r \in DOMAIN rs
    BY <1>2, <2>1
  <2> QED
    BY <2>1, <2>2, Zenon
<1>5. f \in Nat /\ secstart[r + 1] \in Nat /\ secstart[r + 1] = f + c \div SecWords
  <2>1. r \in 1..(Len(rs) + 1) /\ r + 1 \in 1..(Len(rs) + 1)
    BY <1>2, <1>3
  <2> HIDE DEF r
  <2> QED
    BY <1>2, <1>3, <2>1, SecStartFacts, SecCount, LayoutAssumption DEF secstart
<1>6. sectorof(a) = f + x \div SecWords
  BY DEF sectorof, SECADDR
<1> HIDE DEF f, r, rs, re
<1>7. x \in Nat /\ x < c /\ c \in Nat
  BY <1>2
<1>8. x \div SecWords < c \div SecWords /\ x \div SecWords \in Nat /\ c \div SecWords \in Nat
  <2> DEFINE end == re[r] + 1
             start == rs[r]
  <2>1. /\ end \in Nat /\ start \in Nat /\ start <= end /\ start % SecWords = 0 /\ end % SecWords = 0
        /\ c = end - start
    BY <1>2, <1>4
  <2> HIDE DEF end, start, x, c
  <2>2. \A z \in Nat : z < c => z \div SecWords < c \div SecWords
    BY <1>1, <1>7, <2>1, WholeParts
  <2>3. x \div SecWords \in Nat /\ c \div SecWords \in Nat
    BY <1>1, <1>7, DivFacts
  <2> QED
    BY <1>7, <2>2, <2>3
<1> DEFINE k == x \div SecWords
           w == c \div SecWords
<1>9. k < w /\ k \in Nat /\ w \in Nat /\ sectorof(a) = f + k /\ secstart[r + 1] = f + w /\ f \in Nat
  BY <1>5, <1>6, <1>8
<1> HIDE DEF k, w
<1>10. f <= sectorof(a) /\ sectorof(a) < secstart[r + 1]
  BY <1>9
<1> QED
  BY <1>2, <1>3, <1>5, <1>10 DEF r, rs, f

\* Ranges start with a page.
LEMMA PageStart ==
  ASSUME NEW a \in Nat, rangeof(a) # 0
  PROVE  \E first, k \in Nat :
           /\ (a - rangestart[rangeof(a)]) \div PageWords = k
           /\ rangestart[rangeof(a)] = PageWords * first
           /\ a \div PageWords = first + k /\ inpage(a) = a % PageWords
<1> DEFINE rs == rangestart
           r == rangeof(a)
           y == rs[r]
           x == a - y
           d == PageWords
           m == y \div SecWords
           k == x \div d
           v == x % d
           first == SecPages * m
<1>1. d \in Nat \ {0} /\ SecPages \in Nat \ {0} /\ SecWords = d * SecPages /\ SecWords \in Nat \ {0}
  BY GeomAssumption DEF SecWords
<1>2. r \in 1..Len(rs) /\ y \in Nat /\ y <= a
  BY LayoutAssumption, RangeFacts DEF rangeof
<1>3. y % SecWords = 0
  <2>1. rs \in Seq(Nat) /\ \A i \in DOMAIN rs : rs[i] % SecWords = 0
    BY LayoutAssumption, Zenon DEF LayoutOK
  <2> HIDE DEF rs, r
  <2>2. r \in DOMAIN rs
    BY <1>2, <2>1
  <2> QED
    BY <2>1, <2>2, Zenon
<1>4. inpage(a) = v
  BY DEF inpage, ADDRINPAGE
<1> HIDE DEF y, d
<1>5. m \in Nat /\ SecWords * m \in Nat /\ y = SecWords * m
  <2>1. m \in Nat /\ SecWords * m \in Nat /\ y = SecWords * m + (y % SecWords)
    BY <1>1, <1>2, DivFacts
  <2> HIDE DEF m
  <2> QED
    BY <1>3, <2>1
<1> HIDE DEF m
<1>6. first \in Nat /\ y = d * first
  BY <1>1, <1>5
<1>7. x \in Nat
  BY <1>2
<1> HIDE DEF first
<1>8. k \in Nat /\ v \in Nat /\ v < d /\ x = d * k + v /\ d * k \in Nat
  <2> HIDE DEF x
  <2> QED
    BY <1>1, <1>7, DivFacts
<1> HIDE DEF k, v
<1>9. a = d * (first + k) + v
  <2>1. d * (first + k) = d * first + d * k /\ d * first \in Nat
    BY <1>1, <1>6, <1>8
  <2> DEFINE df == d * first
             dk == d * k
             ds == d * (first + k)
  <2>2. ds = df + dk /\ df \in Nat /\ dk \in Nat /\ y = df /\ x = dk + v /\ x = a - y
    BY <1>6, <1>8, <2>1
  <2> HIDE DEF df, dk, ds, x
  <2>3. a = ds + v
    BY <1>2, <1>8, <2>2
  <2> QED
    BY <2>3 DEF ds
<1>10. first + k \in Nat
  BY <1>6, <1>8
<1>11. a \div d = first + k /\ a % d = v
  <2> DEFINE z == first + k
  <2>1. z \in Nat /\ a = d * z + v
    BY <1>9, <1>10
  <2> HIDE DEF z
  <2>2. a \div d = z /\ a % d = v
    BY <1>1, <1>8, <2>1, DivUnique
  <2> QED
    BY <2>2 DEF z
<1>12. x \div d = k
  BY DEF k
<1> QED
  BY <1>4, <1>6, <1>8, <1>11, <1>12 DEF x, y, d, r, rs

\* No two pages of addresses share a page of the model.
LEMMA SamePage ==
  ASSUME NEW a \in Nat, NEW b \in Nat, rangeof(a) # 0, rangeof(b) # 0, pageof(a) = pageof(b)
  PROVE  a \div PageWords = b \div PageWords
<1> DEFINE s == sectorof(a)
           ra == rangeof(a)
           rb == rangeof(b)
<1>1. sectorof(b) = s /\ s \in Nat
  BY AddrFacts
<1>2. /\ ra \in 1..Len(rangestart) /\ Len(rangestart) \in Nat /\ secstart[ra] \in Nat /\ secstart[ra + 1] \in Nat
      /\ secstart[ra] <= s /\ s < secstart[ra + 1]
  BY SectorRange
<1>3. /\ rb \in 1..Len(rangestart) /\ secstart[rb] \in Nat /\ secstart[rb + 1] \in Nat
      /\ secstart[rb] <= s /\ s < secstart[rb + 1]
  BY <1>1, SectorRange
<1> HIDE DEF s
<1>4. ra = rb
  <2> HIDE DEF ra, rb
  <2>1. ~(ra < rb)
    <3> SUFFICES ASSUME ra < rb PROVE FALSE
      OBVIOUS
    <3>1. secstart[ra + 1] <= secstart[rb]
      BY <1>2, <1>3, SecOrder, LayoutAssumption DEF secstart
    <3> QED
      BY <1>1, <1>2, <1>3, <3>1
  <2>2. ~(rb < ra)
    <3> SUFFICES ASSUME rb < ra PROVE FALSE
      OBVIOUS
    <3>1. secstart[rb + 1] <= secstart[ra]
      BY <1>2, <1>3, SecOrder, LayoutAssumption DEF secstart
    <3> QED
      BY <1>1, <1>2, <1>3, <3>1
  <2> QED
    BY <1>2, <1>3, <2>1, <2>2
<1>5. PICK fa, ka \in Nat : /\ (a - rangestart[ra]) \div PageWords = ka
                            /\ rangestart[ra] = PageWords * fa /\ a \div PageWords = fa + ka
  BY PageStart
<1>6. PICK fb, kb \in Nat : /\ (b - rangestart[rb]) \div PageWords = kb
                            /\ rangestart[rb] = PageWords * fb /\ b \div PageWords = fb + kb
  BY PageStart
<1>7. ka = kb
  <2> DEFINE z == secstart[ra] * SecPages
  <2>1. z \in Nat
    BY <1>2, GeomAssumption
  <2>2. pageof(a) = z + ka /\ pageof(b) = z + kb
    BY <1>4, <1>5, <1>6 DEF pageof, PAGEADDR
  <2> HIDE DEF z
  <2>3. z + ka = z + kb /\ ka \in Nat /\ kb \in Nat
    BY <2>2
  <2> QED
    BY <2>1, <2>3
<1>8. fa = fb
  <2>1. PageWords * fa = PageWords * fb /\ PageWords \in Nat \ {0}
    BY <1>4, <1>5, <1>6, GeomAssumption
  <2> DEFINE y == PageWords * fa
  <2>2. y \in Nat /\ y = PageWords * fa + 0 /\ y = PageWords * fb + 0
    BY <2>1
  <2> HIDE DEF y
  <2>3. y \div PageWords = fa
    BY <2>1, <2>2, DivUnique
  <2>4. y \div PageWords = fb
    BY <2>1, <2>2, DivUnique
  <2> QED
    BY <2>3, <2>4
<1> QED
  BY <1>5, <1>6, <1>7, <1>8

LEMMA AddrsAre == \A a \in Addrs : a \in Nat /\ rangeof(a) # 0
  BY DEF Addrs

LEMMA InPageIs ==
  ASSUME NEW a \in Nat, rangeof(a) # 0
  PROVE  inpage(a) = a % PageWords /\ a % PageWords \in Nat
  BY PageStart, DivFacts, GeomAssumption

\* Two addresses in one page at the same place are the same.
LEMMA SamePlace ==
  ASSUME NEW a \in Nat, NEW b \in Nat, rangeof(a) # 0, rangeof(b) # 0, pageof(a) = pageof(b),
         a % PageWords = b % PageWords
  PROVE  a = b
<1>1. PageWords \in Nat \ {0}
  BY GeomAssumption
<1>2. a = PageWords * (a \div PageWords) + (a % PageWords)
  BY <1>1, DivFacts
<1>3. b = PageWords * (b \div PageWords) + (b % PageWords)
  BY <1>1, DivFacts
<1>4. a \div PageWords = b \div PageWords
  BY SamePage
<1> QED
  BY <1>2, <1>3, <1>4, Zenon

\* A word that arrives counts from the moment the device started to store: nothing changes.
LEMMA StoreMap ==
  ASSUME Proper, FlashInv, DevStore
  PROVE  UNCHANGED <<memory, calls, results>>
<1>1. PortInv /\ Flow /\ EmptyInv /\ ReadType /\ Serving
  BY FlashInvFacts
<1>2. PICK t \in Tasks : owner = t
  BY <1>1, Busy DEF DevStore
<1> DEFINE word == Append(acc, Head(rx)[2])
           A == cmd.addr
           n == cmd.size
           p == pageof(cmd.addr)
           s == pgm[pageof(cmd.addr)]
           k == inpage(cmd.addr) + pos + 1
           B == cmd.addr + pos
<1>3. /\ dpc = "store" /\ rx # <<>> /\ UNCHANGED <<cmd, secs, reply, req, owner, got, tx, out>>
      /\ \/ Len(word) < WordBytes /\ acc' = word /\ UNCHANGED <<pos, pgm, dpc>>
         \/ /\ word = req[t].data[pos + 1] /\ acc' = <<>>
            /\ pgm' = [pgm EXCEPT ![p] = [s EXCEPT ![k] = word]]
            /\ pos' = pos + 1
            /\ dpc' = IF pos + 1 = n THEN "eol" ELSE "store"
  BY <1>1, <1>2, StoreIs
<1>4. req[t].op = "w" /\ n \in Nat /\ pos \in Nat /\ pos < n /\ t # NoTask
  BY <1>1, <1>2, <1>3, StoreFacts, TaskAssumption
<1>5. /\ A \in Nat /\ rangeof(A) # 0 /\ ~Crosses(A, n) /\ DOMAIN pgm = Pages
      /\ inpage(A) + n <= Len(s)
  BY <1>1, <1>3 DEF EmptyInv, Serving
<1>6. p \in Pages /\ IsSeq(s) /\ Len(s) \in Nat
  BY <1>1, <1>5, AddrFacts, LenFacts DEF ReadType, HoldsWords
<1>7. inpage(A) = A % PageWords /\ A % PageWords \in Nat
  BY <1>5, InPageIs
<1>8. B \in Nat /\ rangeof(B) # 0 /\ pageof(B) = p /\ (B % PageWords) + 1 = k /\ k \in 1..Len(s)
  <2>1. pos + 1 \in 1..n /\ A + (pos + 1) - 1 = B /\ B \in Nat
    BY <1>4, <1>5
  <2>2. rangeof(A + (pos + 1) - 1) # 0 /\ pageof(A + (pos + 1) - 1) = p
        /\ (A + (pos + 1) - 1) % PageWords = (A % PageWords) + ((pos + 1) - 1)
    <3>1. PICK i : i = pos + 1
      OBVIOUS
    <3> QED
      BY <1>4, <1>5, <2>1, <3>1, ReadPlace
  <2>3. B % PageWords = inpage(A) + ((pos + 1) - 1)
    BY <1>7, <2>1, <2>2
  <2>4. (B % PageWords) + 1 = k /\ k \in 1..Len(s)
    <3> DEFINE v == inpage(A)
    <3>1. v \in Nat /\ B % PageWords = v + ((pos + 1) - 1) /\ k = v + pos + 1 /\ v + n <= Len(s)
      BY <1>5, <1>7, <2>3
    <3> HIDE DEF v, k, B, s
    <3> QED
      BY <1>4, <1>6, <3>1
  <2> QED
    BY <2>1, <2>2, <2>4
<1>9. dpc' \in {"store", "eol"}
  BY <1>3
<1>10. calls' = calls
  <2>1. \A x \in Tasks : Applied(x)' <=> Applied(x)
    BY <1>3, <1>9 DEF Applied
  <2> QED
    BY <1>3, <2>1, CallsSame
<1>11. results' = results
  BY <1>2, <1>3, <1>4, ResultsSame DEF Due
<1>12. ASSUME NEW a \in Addrs PROVE memory'[a] = memory[a]
  <2>1. a \in Nat /\ rangeof(a) # 0 /\ sectorof(a)' = sectorof(a) /\ a \in Addrs'
    BY AddrsAre DEF Addrs, rangeof, sectorof
  <2>2. memory[a] = IF secs[sectorof(a)] = "UNK" THEN Unknown
                    ELSE IF InFlight(a) THEN req[t].data[a - A + 1] ELSE StoredWord(a)
    BY <1>2 DEF memory
  <2>3. memory'[a] = IF secs[sectorof(a)] = "UNK" THEN Unknown
                     ELSE IF InFlight(a)' THEN req[t].data[a - A + 1] ELSE StoredWord(a)'
    BY <1>2, <1>3, <2>1 DEF memory
  <2>4. CASE UNCHANGED <<pos, pgm, dpc>>
    <3>1. InFlight(a)' <=> InFlight(a)
      BY <1>3, <2>4 DEF InFlight
    <3>2. StoredWord(a)' = StoredWord(a)
      BY <1>3, <2>4, SameContents
    <3> QED
      BY <2>2, <2>3, <3>1, <3>2
  <2>5. CASE /\ word = req[t].data[pos + 1]
             /\ pgm' = [pgm EXCEPT ![p] = [s EXCEPT ![k] = word]]
             /\ pos' = pos + 1
             /\ dpc' = IF pos + 1 = n THEN "eol" ELSE "store"
    <3> DEFINE s2 == [s EXCEPT ![k] = word]
    <3>1. IsSeq(s2) /\ Len(s2) = Len(s) /\ \A i \in 1..Len(s) : s2[i] = IF i = k THEN word ELSE s[i]
      <4> HIDE DEF s, k, word
      <4>1. IsSeq(s2)
        BY <1>6, ExceptFacts
      <4>2. Len(s2) = Len(s)
        BY <1>6, ExceptFacts
      <4>3. \A i \in 1..Len(s) : s2[i] = IF i = k THEN word ELSE s[i]
        BY <1>6, ExceptFacts
      <4> QED
        BY <4>1, <4>2, <4>3, Zenon
    <3>2. \A q \in Pages : pgm'[q] = IF q = p THEN s2 ELSE pgm[q]
      BY <1>5, <2>5
    <3>3. InFlight(a) <=> a \in B..(A + n - 1)
      BY <1>2, <1>3, <1>4 DEF InFlight
    <3>4. InFlight(a)' <=> a \in (B + 1)..(A + n - 1)
      <4>1. A + (pos + 1) = B + 1
        BY <1>4, <1>5
      <4>2. InFlight(a)' <=> dpc' = "store" /\ a \in (A + (pos + 1))..(A + n - 1)
        BY <1>2, <1>3, <1>4, <2>5 DEF InFlight
      <4>3. dpc' # "store" => (B + 1)..(A + n - 1) = {}
        BY <1>4, <1>5, <2>5
      <4> QED
        BY <4>1, <4>2, <4>3
    <3>5. StoredWord(a)' = IF (a % PageWords) + 1 <= Len(pgm'[pageof(a)])
                           THEN pgm'[pageof(a)][(a % PageWords) + 1] ELSE BlankWord
      BY DEF StoredWord, pageof, rangeof
    <3>6. StoredWord(a) = IF (a % PageWords) + 1 <= Len(pgm[pageof(a)])
                          THEN pgm[pageof(a)][(a % PageWords) + 1] ELSE BlankWord
      BY DEF StoredWord
    <3> HIDE DEF s2, s, k, p, word
    <3>7. CASE a = B
      <4>1. InFlight(a) /\ ~InFlight(a)'
        BY <1>4, <1>5, <2>1, <3>3, <3>4, <3>7
      <4>2. a - A + 1 = pos + 1
        BY <1>4, <1>5, <3>7
      <4>3. pgm'[pageof(a)] = s2 /\ (a % PageWords) + 1 = k
        BY <1>6, <1>8, <3>2, <3>7
      <4>4. k <= Len(s2) /\ s2[k] = word
        BY <1>6, <1>8, <3>1
      <4>5. StoredWord(a)' = word
        BY <3>5, <4>3, <4>4
      <4> QED
        BY <2>2, <2>3, <2>5, <4>1, <4>2, <4>5
    <3>8. CASE a # B
      <4>1. InFlight(a)' <=> InFlight(a)
        BY <1>4, <1>5, <1>8, <2>1, <3>3, <3>4, <3>8
      <4>2. StoredWord(a)' = StoredWord(a)
        <5>1. pageof(a) \in Pages
          BY <2>1, AddrFacts
        <5>2. CASE pageof(a) # p
          BY <3>2, <3>5, <3>6, <5>1, <5>2
        <5>3. CASE pageof(a) = p
          <6>1. a % PageWords # B % PageWords
            BY <1>8, <2>1, <3>8, <5>3, SamePlace
          <6> DEFINE w == (a % PageWords) + 1
          <6>2. a % PageWords \in Nat /\ B % PageWords \in Nat
            BY <1>8, <2>1, InPageIs
          <6>3. w # k /\ w \in Nat /\ w >= 1
            BY <1>8, <6>1, <6>2
          <6>4. pgm'[pageof(a)] = s2 /\ pgm[pageof(a)] = s
            BY <3>2, <5>1, <5>3 DEF s, p
          <6>5. StoredWord(a)' = IF w <= Len(s2) THEN s2[w] ELSE BlankWord
            BY <3>5, <6>4
          <6>6. StoredWord(a) = IF w <= Len(s) THEN s[w] ELSE BlankWord
            BY <3>6, <6>4
          <6> HIDE DEF w
          <6>7. w <= Len(s) => w \in 1..Len(s)
            BY <1>6, <6>3
          <6> QED
            BY <3>1, <6>3, <6>5, <6>6, <6>7
        <5> QED
          BY <5>2, <5>3
      <4> QED
        BY <2>2, <2>3, <4>1, <4>2
    <3> QED
      BY <3>7, <3>8
  <2> QED
    BY <1>3, <2>4, <2>5
<1>13. memory' = memory
  BY <1>12 DEF memory, Addrs, rangeof
<1> QED
  BY <1>10, <1>11, <1>13

\* The addresses of the specification are those that the device accepts.
LEMMA InAddrs ==
  ASSUME NEW a \in Nat, rangeof(a) # 0
  PROVE  a \in Addrs
<1> DEFINE rs == rangestart
           re == rangeend
           r == rangeof(a)
           n == Len(rs)
<1>1. r \in 1..n /\ a <= re[r]
  BY LayoutAssumption, RangeFacts DEF rangeof
<1>2. /\ n \in Nat /\ Len(re) = n
      /\ \A i \in 1..n : rs[i] \in Nat /\ re[i] \in Nat /\ rs[i] < re[i]
      /\ \A i \in 1..(n - 1) : re[i] < rs[i + 1]
  <2>1. /\ rs \in Seq(Nat) /\ re \in Seq(Nat) /\ Len(rs) = Len(re) /\ DOMAIN rs = 1..Len(rs)
        /\ \A i \in DOMAIN rs : rs[i] < re[i]
        /\ \A i \in 1..(Len(rs) - 1) : re[i] < rs[i + 1]
    BY LayoutAssumption DEF LayoutOK
  <2> HIDE DEF rs, re
  <2>2. \A i \in 1..n : rs[i] \in Nat /\ re[i] \in Nat
    BY <2>1
  <2>3. n \in Nat
    BY <2>1
  <2> QED
    BY <2>1, <2>2, <2>3
<1> HIDE DEF rs, re, r, n
<1> DEFINE Z == {j \in Nat : r + j <= n /\ ~(a <= re[r + j])}
<1>3. Z = {}
  <2> SUFFICES ASSUME Z # {} PROVE FALSE
    OBVIOUS
  <2>1. PICK j \in Z : \A i \in Z : j <= i
    BY LeastNat
  <2>2. j \in Nat /\ r + j <= n /\ ~(a <= re[r + j]) /\ r \in Nat
    BY <1>1, <1>2, <2>1
  <2>3. j # 0
    <3> SUFFICES ASSUME j = 0 PROVE FALSE
      OBVIOUS
    <3>1. r + j = r
      BY <2>2
    <3> QED
      BY <1>1, <2>2, <3>1
  <2>4. PICK i : i = r + (j - 1)
    OBVIOUS
  <2>5. j - 1 \in Nat /\ i <= n /\ ~(j <= j - 1) /\ i \in 1..(n - 1) /\ i + 1 \in 1..n /\ i + 1 = r + j /\ i \in 1..n
    BY <1>1, <1>2, <2>2, <2>3, <2>4
  <2>6. a <= re[i]
    BY <2>1, <2>4, <2>5
  <2>7. re[i] < rs[i + 1] /\ rs[i + 1] < re[i + 1] /\ re[i] \in Nat /\ rs[i + 1] \in Nat /\ re[i + 1] \in Nat
    BY <1>2, <2>5
  <2>8. a <= re[i + 1]
    BY <2>6, <2>7
  <2> QED
    BY <2>2, <2>5, <2>8
<1>4. a <= re[n]
  <2>1. n - r \in Nat /\ r + (n - r) = n /\ r + (n - r) <= n
    BY <1>1, <1>2
  <2> QED
    BY <1>3, <2>1
<1>5. re[n] \in Nat
  BY <1>1, <1>2
<1>6. a \in 0..re[n]
  BY <1>4, <1>5
<1> QED
  BY <1>2, <1>6 DEF Addrs, re, n

\* The memory when nothing is being stored
LEMMA MemoryIs ==
  ASSUME dpc # "store", NEW a \in Addrs
  PROVE  memory[a] = IF secs[sectorof(a)] = "UNK" THEN Unknown ELSE StoredWord(a)
  BY DEF memory, InFlight

\* The erasure takes effect at once.
LEMMA EraseMap ==
  ASSUME Proper, FlashInv, DevErase
  PROVE  \E t \in Tasks : Abstract!Erase(t)
<1>1. PortInv /\ Flow /\ EmptyInv /\ Serving
  BY FlashInvFacts
<1> DEFINE A == cmd.addr
           s == sectorof(cmd.addr)
           first == pageof(cmd.addr)
<1>2. /\ dpc = "erase" /\ dpc' = "line" /\ UNCHANGED <<owner, req, out, got, rx>>
      /\ secs' = [secs EXCEPT ![s] = "ERS"]
      /\ pgm' = [p \in Pages |-> IF p \in first..(first + SecPages - 1) THEN <<>> ELSE pgm[p]]
  BY DEF DevErase, drv
<1>3. PICK t \in Tasks : owner = t
  BY <1>1, <1>2, Busy
<1>4. /\ Sound(req[t]) /\ InTouch(t) /\ req[t].op \in {"e", "w", "r"}
      /\ Len(rx) \in Nat /\ Len(out[t]) \in Nat /\ Used(t) + Len(rx) + Len(out[t]) = Len(Message(req[t]))
  BY <1>1, <1>3, HolderFacts
<1>5. req[t].op = "e" /\ Used(t) = 1
  BY <1>2, <1>4 DEF InTouch, EraseStage, ReadStage, WriteStage
<1>6. out[t] = <<>> /\ rx = <<>>
  <2>1. Len(Message(req[t])) = 1
    BY <1>4, <1>5, ShortMessage
  <2>2. 1 + Len(rx) + Len(out[t]) = 1
    BY <1>4, <1>5, <2>1
  <2>3. Len(rx) = 0 /\ Len(out[t]) = 0
    <3>1. \A i, j \in Nat : 1 + i + j = 1 => i = 0 /\ j = 0
      OBVIOUS
    <3>2. Len(rx) \in Nat /\ Len(out[t]) \in Nat
      BY <1>4
    <3> QED
      BY <2>2, <3>1, <3>2
  <2> QED
    BY <1>1, <2>3, LenFacts DEF Flow, FlowType
<1>7. ~Applied(t) /\ Applied(t)' /\ \A x \in Tasks : x # t => ~Applied(x) /\ ~Applied(x)'
  BY <1>2, <1>3, <1>6 DEF Applied
<1>8. /\ calls[t].c = AsCall(req[t]) /\ ~calls[t].done
      /\ calls' = [calls EXCEPT ![t].done = TRUE]
  BY <1>2, <1>7, CallsDone
<1>9. results' = results
  BY <1>2, <1>3, <1>5, ResultsSame DEF Due
<1>10. /\ A = req[t].addr /\ A \in Nat /\ rangeof(A) # 0 /\ A % SecWords = 0
       /\ DOMAIN secs = Sectors /\ DOMAIN pgm = Pages
  BY <1>1, <1>2, <1>3 DEF Serving, EmptyInv
<1>11. s \in Nat /\ s \in Sectors /\ first = s * SecPages /\ A \in Addrs
  BY <1>10, AddrFacts, InAddrs
<1>12. ASSUME NEW x \in Addrs
       PROVE  memory'[x] = IF sectorof(x) = s THEN BlankWord ELSE memory[x]
  <2>1. x \in Nat /\ rangeof(x) # 0
    BY AddrsAre
  <2>2. /\ sectorof(x) \in Sectors /\ pageof(x) \in Nat /\ pageof(x) \in Pages
        /\ pageof(x) \div SecPages = sectorof(x)
    BY <2>1, AddrFacts
  <2>3. memory[x] = IF secs[sectorof(x)] = "UNK" THEN Unknown ELSE StoredWord(x)
    BY <1>2, MemoryIs
  <2>4. memory'[x] = IF secs'[sectorof(x)] = "UNK" THEN Unknown ELSE StoredWord(x)'
    <3>1. x \in Addrs' /\ sectorof(x)' = sectorof(x) /\ ~InFlight(x)'
      BY <1>2 DEF Addrs, sectorof, rangeof, InFlight
    <3> QED
      BY <3>1 DEF memory
  <2>5. pageof(x) \in first..(first + SecPages - 1) <=> sectorof(x) = s
    BY <1>11, <2>2, PagesOfSector
  <2>6. StoredWord(x)' = IF (x % PageWords) + 1 <= Len(pgm'[pageof(x)])
                         THEN pgm'[pageof(x)][(x % PageWords) + 1] ELSE BlankWord
    BY DEF StoredWord, pageof, rangeof
  <2>7. CASE sectorof(x) = s
    <3>1. secs'[sectorof(x)] = "ERS"
      BY <1>2, <1>10, <1>11, <2>7
    <3>2. pgm'[pageof(x)] = <<>>
      BY <1>2, <2>2, <2>5, <2>7
    <3>3. ~((x % PageWords) + 1 <= Len(<<>>))
      <4>1. x % PageWords \in Nat /\ Len(<<>>) = 0
        BY <2>1, InPageIs
      <4> QED
        BY <4>1
    <3>4. StoredWord(x)' = BlankWord
      BY <2>6, <3>2, <3>3
    <3> QED
      BY <2>4, <2>7, <3>1, <3>4
  <2>8. CASE sectorof(x) # s
    <3>1. secs'[sectorof(x)] = secs[sectorof(x)]
      BY <1>2, <1>10, <2>2, <2>8
    <3>2. pgm'[pageof(x)] = pgm[pageof(x)]
      BY <1>2, <2>2, <2>5, <2>8
    <3>3. StoredWord(x)' = StoredWord(x)
      BY <2>6, <3>2 DEF StoredWord
    <3> QED
      BY <2>3, <2>4, <2>8, <3>1, <3>3
  <2> QED
    BY <2>7, <2>8
<1>13. calls[t].c.op = "e" /\ calls[t].c.addr = A
  BY <1>5, <1>8, <1>10 DEF AsCall
<1>14. memory' = [x \in Addrs |-> IF [a \in Addrs |-> sectorof(a)][x] = [a \in Addrs |-> sectorof(a)][calls[t].c.addr]
                                  THEN BlankWord ELSE memory[x]]
  <2>1. [a \in Addrs |-> sectorof(a)][calls[t].c.addr] = s
    BY <1>11, <1>13
  <2>2. \A x \in Addrs : [a \in Addrs |-> sectorof(a)][x] = sectorof(x)
    OBVIOUS
  <2>3. memory' = [x \in Addrs |-> memory'[x]]
    BY DEF memory, Addrs, rangeof
  <2> HIDE DEF s
  <2> QED
    BY <1>12, <2>1, <2>2, <2>3
<1> QED
  BY <1>8, <1>9, <1>13, <1>14 DEF Abstract!Erase, Abstract!Pending, Abstract!Done

\* In one page places differ as addresses do.
LEMMA PlaceOffset ==
  ASSUME NEW a \in Nat, NEW b \in Nat, rangeof(a) # 0, rangeof(b) # 0, pageof(a) = pageof(b)
  PROVE  a + (b % PageWords) = b + (a % PageWords)
<1> DEFINE q == a \div PageWords
           dq == PageWords * q
           va == a % PageWords
           vb == b % PageWords
<1>1. PageWords \in Nat \ {0}
  BY GeomAssumption
<1>2. dq \in Nat /\ va \in Nat /\ a = dq + va
  BY <1>1, DivFacts
<1>3. vb \in Nat /\ b = PageWords * (b \div PageWords) + vb
  BY <1>1, DivFacts
<1>4. b \div PageWords = q
  BY SamePage
<1>5. b = dq + vb
  BY <1>3, <1>4
<1> HIDE DEF dq, va, vb
<1>6. a + vb = b + va
  BY <1>2, <1>3, <1>5
<1> QED
  BY <1>6 DEF va, vb

\* What is stored at an address of a known sector is a word of bytes, so it is known.
LEMMA StoredKnown ==
  ASSUME StoresBytes, ReadType, NEW a \in Nat, rangeof(a) # 0
  PROVE  StoredWord(a) # Unknown
<1> DEFINE page == pgm[pageof(a)]
           w == (a % PageWords) + 1
<1>1. pageof(a) \in Pages /\ a % PageWords \in Nat
  BY AddrFacts, InPageIs
<1>2. Len(page) \in Nat
  BY <1>1, LenFacts DEF ReadType, HoldsWords
<1>3. w <= Len(page) => page[w] \in Words
  <2> SUFFICES ASSUME w <= Len(page) PROVE page[w] \in Words
    OBVIOUS
  <2>1. w \in 1..Len(page)
    BY <1>1, <1>2
  <2> QED
    BY <1>1, <2>1 DEF StoresBytes
<1>4. BlankWord \in Words
  BY DEF BlankWord, Fill, FF, Words
<1>5. StoredWord(a) \in Words
  BY <1>3, <1>4 DEF StoredWord
<1> QED
  BY <1>5, UnknownAssumption DEF Words

\* Programming takes effect when the device starts to store: the words that it addresses are
\* those in flight, and the blank words before them that the page did not hold become zeros.
LEMMA ProgramMap ==
  ASSUME Proper, FlashInv, DevProgram
  PROVE  \E t \in Tasks : Abstract!Program(t)
<1>1. PortInv /\ Flow /\ EmptyInv /\ ReadType /\ Serving /\ StoresBytes
  BY FlashInvFacts
<1> DEFINE A == cmd.addr
           n == cmd.size
           sec == sectorof(cmd.addr)
           p == pageof(cmd.addr)
           s == pgm[pageof(cmd.addr)]
           m == inpage(cmd.addr) + cmd.size
           hit == cmd.addr..(cmd.addr + cmd.size - 1)
<1>2. /\ dpc = "prog" /\ dpc' = "store" /\ UNCHANGED <<owner, req, out, got, rx, cmd>>
      /\ secs' = [secs EXCEPT ![sec] = "PROG"]
      /\ pgm' = [pgm EXCEPT ![p] = Resized(s, m)]
      /\ pos' = 0
  BY DEF DevProgram, drv
<1>3. PICK t \in Tasks : owner = t
  BY <1>1, <1>2, Busy
<1>4. req[t].op = "w" /\ n = sizew(req[t].size) /\ n \in Nat /\ t # NoTask
  BY <1>1, <1>2, <1>3, ProgramSize, TaskAssumption
<1>5. n > 0
  <2>1. Sound(req[t]) /\ req[t].size \in Nat /\ req[t].size > 0
    BY <1>1, <1>3, HolderFacts
  <2> QED
    BY <1>4, <2>1, WholeWords DEF Sound
<1>6. ~Applied(t) /\ Applied(t)' /\ \A x \in Tasks : x # t => ~Applied(x) /\ ~Applied(x)'
  BY <1>2, <1>3 DEF Applied
<1>7. /\ calls[t].c = AsCall(req[t]) /\ ~calls[t].done
      /\ calls' = [calls EXCEPT ![t].done = TRUE]
  BY <1>2, <1>6, CallsDone
<1>8. results' = results
  BY <1>2, <1>3, <1>4, ResultsSame DEF Due
<1>9. /\ A = req[t].addr /\ A \in Nat /\ rangeof(A) # 0 /\ ~Crosses(A, n) /\ secs[sec] # "UNK"
      /\ DOMAIN secs = Sectors /\ DOMAIN pgm = Pages
  BY <1>1, <1>2, <1>3 DEF Serving, EmptyInv
<1>10. sec \in Sectors /\ p \in Pages /\ A \in Addrs /\ IsSeq(s) /\ Len(s) \in Nat
  BY <1>1, <1>9, AddrFacts, InAddrs, LenFacts DEF ReadType, HoldsWords
<1>11. inpage(A) = A % PageWords /\ A % PageWords \in Nat /\ m \in Nat
  BY <1>4, <1>9, InPageIs
<1>12. /\ Len(Resized(s, m)) \in Nat /\ Len(Resized(s, m)) = IF m > Len(s) THEN m ELSE Len(s)
       /\ \A k \in 1..Len(Resized(s, m)) : Resized(s, m)[k] = IF k <= Len(s) THEN s[k] ELSE ZeroWord
  <2> HIDE DEF s, m
  <2> QED
    BY <1>10, <1>11, ResizedIs
<1>13. calls[t].c.op = "w" /\ calls[t].c.addr = A /\ calls[t].c.n = n /\ calls[t].c.data = req[t].data
  <2>1. Chunk(req[t]) = req[t].size
    BY <1>4 DEF Chunk
  <2> QED
    BY <1>4, <1>7, <1>9, <2>1 DEF AsCall
\* The words that are addressed are in the page, and known.
<1>14. ASSUME NEW x \in hit
       PROVE  x \in Addrs /\ sectorof(x) = sec /\ memory[x] # Unknown
  <2>1. PICK i : i = x - A + 1
    OBVIOUS
  <2>2. i \in 1..n /\ x = A + i - 1 /\ x \in Nat
    BY <1>4, <1>9, <2>1
  <2>3. rangeof(x) # 0 /\ sectorof(x) = sec
    BY <1>4, <1>9, <2>2, ReadPlace
  <2>4. x \in Addrs /\ StoredWord(x) # Unknown
    BY <1>1, <2>2, <2>3, InAddrs, StoredKnown
  <2>5. memory[x] = StoredWord(x)
    BY <1>2, <1>9, <2>3, <2>4, MemoryIs
  <2> QED
    BY <2>3, <2>4, <2>5
<1> DEFINE zeroed == {x \in Addrs : pageof(x) = p /\ x < A /\ ~((x % PageWords) + 1 <= Len(s))}
<1>15. ASSUME NEW x \in Addrs, pageof(x) = p
       PROVE  /\ sectorof(x) = sec /\ memory[x] = StoredWord(x)
              /\ StoredWord(x) = IF (x % PageWords) + 1 <= Len(s) THEN s[(x % PageWords) + 1] ELSE BlankWord
  <2>1. x \in Nat /\ rangeof(x) # 0
    BY AddrsAre
  <2>2. sectorof(x) = sec
    BY <1>9, <1>15, <2>1, AddrFacts
  <2>3. memory[x] = StoredWord(x)
    BY <1>2, <1>9, <2>2, MemoryIs
  <2> QED
    BY <1>15, <2>2, <2>3 DEF StoredWord
<1>16. \A x \in zeroed : x \in Addrs /\ pageof(x) = p /\ x < A /\ memory[x] = BlankWord
  BY <1>15
<1>17. ASSUME NEW x \in Addrs
       PROVE  memory'[x] = IF x \in hit THEN req[t].data[x - A + 1]
                           ELSE IF x \in zeroed THEN ZeroWord ELSE memory[x]
  <2>1. x \in Nat /\ rangeof(x) # 0
    BY AddrsAre
  <2>2. sectorof(x) \in Sectors /\ pageof(x) \in Pages /\ x % PageWords \in Nat
    BY <2>1, AddrFacts, InPageIs
  <2>3. memory[x] = IF secs[sectorof(x)] = "UNK" THEN Unknown ELSE StoredWord(x)
    BY <1>2, MemoryIs
  <2>4. memory'[x] = IF secs'[sectorof(x)] = "UNK" THEN Unknown
                     ELSE IF InFlight(x)' THEN req[t].data[x - A + 1] ELSE StoredWord(x)'
    <3>1. x \in Addrs' /\ sectorof(x)' = sectorof(x)
      BY DEF Addrs, sectorof, rangeof
    <3> QED
      BY <1>2, <1>3, <3>1 DEF memory
  <2>5. secs'[sectorof(x)] = "UNK" <=> secs[sectorof(x)] = "UNK"
    BY <1>2, <1>9, <1>10, <2>2
  <2>6. InFlight(x)' <=> x \in hit
    <3>1. A + 0 = A
      BY <1>9
    <3> QED
      BY <1>2, <1>3, <1>4, <3>1 DEF InFlight
  <2>7. StoredWord(x)' = IF (x % PageWords) + 1 <= Len(pgm'[pageof(x)])
                         THEN pgm'[pageof(x)][(x % PageWords) + 1] ELSE BlankWord
    BY DEF StoredWord, pageof, rangeof
  <2>8. CASE secs[sectorof(x)] = "UNK"
    <3>1. sectorof(x) # sec
      BY <1>9, <2>8
    <3>2. x \notin hit /\ x \notin zeroed
      BY <1>14, <1>15, <3>1
    <3> HIDE DEF hit, zeroed
    <3> QED
      BY <2>3, <2>4, <2>5, <2>8, <3>2
  <2>9. CASE secs[sectorof(x)] # "UNK" /\ x \in hit
    <3> HIDE DEF hit, zeroed
    <3> QED
      BY <2>4, <2>5, <2>6, <2>9
  <2>10. CASE secs[sectorof(x)] # "UNK" /\ x \notin hit /\ pageof(x) # p
    <3>1. pgm'[pageof(x)] = pgm[pageof(x)]
      BY <1>2, <1>9, <2>2, <2>10
    <3>2. StoredWord(x)' = StoredWord(x)
      BY <2>7, <3>1 DEF StoredWord
    <3>3. x \notin zeroed
      BY <2>10
    <3> HIDE DEF hit, zeroed
    <3> QED
      BY <2>3, <2>4, <2>5, <2>6, <2>10, <3>2, <3>3
  <2>11. CASE secs[sectorof(x)] # "UNK" /\ x \notin hit /\ pageof(x) = p
    <3> DEFINE w == (x % PageWords) + 1
               s2 == Resized(s, m)
    <3>1. pgm'[pageof(x)] = s2
      BY <1>2, <1>9, <1>10, <2>11
    <3>2. StoredWord(x)' = IF w <= Len(s2) THEN s2[w] ELSE BlankWord
      BY <2>7, <3>1
    <3>3. memory[x] = IF w <= Len(s) THEN s[w] ELSE BlankWord
      BY <1>15, <2>11
    <3>4. memory'[x] = StoredWord(x)'
      <4> HIDE DEF hit
      <4> QED
        BY <2>4, <2>5, <2>6, <2>11
    <3>5. x + (A % PageWords) = A + (x % PageWords)
      BY <1>9, <2>1, <2>11, PlaceOffset
    <3>6. x < A => w <= m
      <4> DEFINE v == A % PageWords
                 u == x % PageWords
      <4>1. v \in Nat /\ u \in Nat /\ x + v = A + u /\ m = v + n /\ w = u + 1
        BY <1>11, <2>2, <3>5
      <4> HIDE DEF v, u, w, m
      <4> QED
        BY <1>4, <1>9, <2>1, <4>1
    <3>7. ~(x < A) => w > m
      <4> DEFINE v == A % PageWords
                 u == x % PageWords
      <4>1. v \in Nat /\ u \in Nat /\ x + v = A + u /\ m = v + n /\ w = u + 1
        BY <1>11, <2>2, <3>5
      <4>2. ~(x < A) => x >= A + n
        BY <1>4, <1>9, <2>1, <2>11
      <4> HIDE DEF v, u, w, m
      <4> QED
        BY <1>4, <1>9, <2>1, <4>1, <4>2
    <3>8. x \in zeroed <=> x < A /\ ~(w <= Len(s))
      BY <2>11
    <3>9. w \in Nat /\ w >= 1
      BY <2>2
    <3> HIDE DEF w, s2, s, m, zeroed, p
    <3>10. /\ Len(s2) \in Nat /\ Len(s2) = IF m > Len(s) THEN m ELSE Len(s)
           /\ \A k \in 1..Len(s2) : s2[k] = IF k <= Len(s) THEN s[k] ELSE ZeroWord
      BY <1>12 DEF s2
    <3>11. w <= Len(s2) => w \in 1..Len(s2)
      BY <3>9, <3>10
    <3>12. CASE x < A
      <4>1. w <= Len(s2)
        BY <1>10, <1>11, <3>6, <3>9, <3>10, <3>12
      <4>2. memory'[x] = IF w <= Len(s) THEN s[w] ELSE ZeroWord
        BY <3>2, <3>4, <3>10, <3>11, <4>1
      <4> QED
        BY <2>11, <3>3, <3>8, <3>12, <4>2
    <3>13. CASE ~(x < A)
      <4>1. w <= Len(s2) <=> w <= Len(s)
        BY <1>10, <1>11, <3>7, <3>9, <3>10, <3>13
      <4>2. memory'[x] = IF w <= Len(s) THEN s[w] ELSE BlankWord
        BY <3>2, <3>4, <3>10, <3>11, <4>1
      <4> QED
        BY <2>11, <3>3, <3>8, <3>13, <4>2
    <3> QED
      BY <3>12, <3>13
  <2> HIDE DEF hit, zeroed
  <2> QED
    BY <2>8, <2>9, <2>10, <2>11
<1> DEFINE c == calls[t].c
           pageOf == [a \in Addrs |-> pageof(a)]
           blank == {x \in Addrs : pageOf[x] = pageOf[c.addr] /\ x < c.addr /\ memory[x] = BlankWord}
<1>18. zeroed \in SUBSET blank
  <2>1. pageOf[c.addr] = p /\ c.addr = A
    BY <1>10, <1>13
  <2>2. \A x \in Addrs : pageOf[x] = pageof(x)
    OBVIOUS
  <2> HIDE DEF zeroed, pageOf, p, c
  <2> QED
    BY <1>16, <2>1, <2>2
<1>19. c.addr..(c.addr + c.n - 1) = hit
  BY <1>13
<1>20. memory' = [x \in Addrs |-> IF x \in c.addr..(c.addr + c.n - 1) THEN c.data[x - c.addr + 1]
                                  ELSE IF x \in zeroed THEN ZeroWord ELSE memory[x]]
  <2>1. memory' = [x \in Addrs |-> memory'[x]]
    BY DEF memory, Addrs, rangeof
  <2>2. \A x \in Addrs : memory'[x] = IF x \in c.addr..(c.addr + c.n - 1) THEN c.data[x - c.addr + 1]
                                      ELSE IF x \in zeroed THEN ZeroWord ELSE memory[x]
    <3> HIDE DEF hit, zeroed
    <3> QED
      BY <1>13, <1>17, <1>19
  <2> HIDE DEF zeroed, c
  <2> QED
    BY <2>1, <2>2
<1>21. \A x \in c.addr..(c.addr + c.n - 1) : memory[x] # Unknown
  BY <1>14, <1>19
<1>22. calls[t].c.op = "w" /\ ~calls[t].done
  BY <1>7, <1>13
<1> HIDE DEF zeroed
<1> QED
  BY <1>7, <1>8, <1>18, <1>20, <1>21, <1>22 DEF Abstract!Program, Abstract!Pending, Abstract!Done

\* The words among some bytes
LEMMA WordsInFacts ==
  ASSUME NEW b, IsSeq(b), NEW n, n = Len(b) \div WordBytes
  PROVE  /\ n \in Nat /\ n * WordBytes \in Nat /\ n * WordBytes <= Len(b)
         /\ IsSeq(WordsIn(b)) /\ Len(WordsIn(b)) = n
         /\ \A i \in 1..n : /\ IsWord(WordsIn(b)[i])
                            /\ \A k \in 1..WordBytes : WordsIn(b)[i][k] = b[(i - 1) * WordBytes + k]
<1>1. WordBytes \in Nat \ {0} /\ Len(b) \in Nat
  BY WordAssumption, LenFacts
<1>2. n \in Nat /\ n * WordBytes \in Nat /\ n * WordBytes <= Len(b)
  <2> DEFINE v == Len(b) % WordBytes
             d == WordBytes * n
  <2>1. n \in Nat /\ v \in Nat /\ d \in Nat /\ Len(b) = d + v
    BY <1>1, DivFacts
  <2>2. n * WordBytes = d
    BY <1>1, <2>1
  <2> HIDE DEF v, d
  <2>3. d <= Len(b)
    BY <1>1, <2>1
  <2> QED
    BY <2>1, <2>2, <2>3
<1>3. WordsIn(b) = [i \in 1..n |-> SubSeq(b, (i - 1) * WordBytes + 1, i * WordBytes)]
  BY DEF WordsIn
<1>4. IsSeq(WordsIn(b)) /\ Len(WordsIn(b)) = n
  <2> DEFINE T == {WordsIn(b)[i] : i \in 1..n}
  <2>1. WordsIn(b) \in [1..n -> T]
    BY <1>3
  <2>2. WordsIn(b) \in Seq(T) /\ Len(WordsIn(b)) = n
    BY <1>2, <2>1
  <2> QED
    BY <2>2 DEF IsSeq
<1>5. ASSUME NEW i \in 1..n
      PROVE  /\ IsWord(WordsIn(b)[i])
             /\ \A k \in 1..WordBytes : WordsIn(b)[i][k] = b[(i - 1) * WordBytes + k]
  <2>1. PICK lo : lo = (i - 1) * WordBytes
    OBVIOUS
  <2>2. PICK hi : hi = i * WordBytes
    OBVIOUS
  <2>3. lo \in Nat /\ hi \in Nat /\ hi = lo + WordBytes /\ hi <= Len(b)
    <3> DEFINE j == i - 1
               m == n - i
    <3>1. j \in Nat /\ m \in Nat /\ i = j + 1 /\ n = j + 1 + m
      BY <1>2
    <3> HIDE DEF j, m
    <3> DEFINE jw == j * WordBytes
               mw == m * WordBytes
               nw == n * WordBytes
    <3>2. jw \in Nat /\ mw \in Nat /\ nw = jw + WordBytes + mw /\ hi = jw + WordBytes
      BY <1>1, <2>2, <3>1
    <3>3. lo = jw /\ nw <= Len(b)
      BY <1>2, <2>1 DEF j
    <3> HIDE DEF jw, mw, nw
    <3> QED
      BY <1>1, <3>2, <3>3
  <2>4. WordsIn(b)[i] = SubSeq(b, lo + 1, hi)
    BY <1>3, <2>1, <2>2
  <2>5. PICK S : b \in Seq(S)
    BY DEF IsSeq
  <2>6. \A x \in 1..Len(b) : b[x] \in S
    BY <2>5
  <2>7. /\ SubSeq(b, lo + 1, hi) \in Seq(S) /\ Len(SubSeq(b, lo + 1, hi)) = WordBytes
        /\ \A k \in 1..WordBytes : SubSeq(b, lo + 1, hi)[k] = b[lo + k]
    <3>1. SubSeq(b, lo + 1, hi) = [k \in 1..WordBytes |-> b[lo + k]]
      <4>1. SubSeq(b, lo + 1, hi) = [k \in 1..(1 + hi - (lo + 1)) |-> b[k + (lo + 1) - 1]]
        BY <1>1, <2>3, <2>5
      <4>2. 1 + hi - (lo + 1) = WordBytes /\ \A k \in 1..WordBytes : k + (lo + 1) - 1 = lo + k
        BY <1>1, <2>3
      <4> QED
        BY <4>1, <4>2
    <3>2. \A k \in 1..WordBytes : lo + k \in 1..Len(b)
      BY <1>1, <2>3
    <3> DEFINE f == [k \in 1..WordBytes |-> b[lo + k]]
    <3>3. f \in [1..WordBytes -> S] /\ \A k \in 1..WordBytes : f[k] = b[lo + k]
      BY <2>6, <3>2
    <3>4. SubSeq(b, lo + 1, hi) = f
      BY <3>1
    <3> HIDE DEF f
    <3>5. f \in Seq(S) /\ Len(f) = WordBytes
      BY <1>1, <3>3
    <3> QED
      BY <3>3, <3>4, <3>5
  <2>8. IsWord(SubSeq(b, lo + 1, hi))
    BY <2>7 DEF IsWord, IsSeq
  <2> QED
    BY <2>1, <2>4, <2>7, <2>8
<1> QED
  BY <1>2, <1>4, <1>5

LEMMA SameWord ==
  ASSUME NEW u, NEW v, IsWord(u), IsWord(v), \A k \in 1..WordBytes : u[k] = v[k]
  PROVE  u = v
  BY SameSeq DEF IsWord

\* The same words among other bytes
LEMMA SameWords ==
  ASSUME NEW b, NEW c, IsSeq(b), IsSeq(c), NEW n, n = Len(b) \div WordBytes, n = Len(c) \div WordBytes,
         \A j \in 1..(n * WordBytes) : b[j] = c[j]
  PROVE  WordsIn(b) = WordsIn(c)
<1>1. /\ n \in Nat /\ IsSeq(WordsIn(b)) /\ Len(WordsIn(b)) = n
      /\ \A i \in 1..n : /\ IsWord(WordsIn(b)[i])
                         /\ \A k \in 1..WordBytes : WordsIn(b)[i][k] = b[(i - 1) * WordBytes + k]
  BY WordsInFacts
<1>2. /\ IsSeq(WordsIn(c)) /\ Len(WordsIn(c)) = n
      /\ \A i \in 1..n : /\ IsWord(WordsIn(c)[i])
                         /\ \A k \in 1..WordBytes : WordsIn(c)[i][k] = c[(i - 1) * WordBytes + k]
  BY WordsInFacts
<1>3. ASSUME NEW i \in 1..n PROVE WordsIn(b)[i] = WordsIn(c)[i]
  <2>1. ASSUME NEW k \in 1..WordBytes PROVE WordsIn(b)[i][k] = WordsIn(c)[i][k]
    <3>1. PICK j : j = (i - 1) * WordBytes + k
      OBVIOUS
    <3>2. j \in 1..(n * WordBytes)
      BY <1>1, <3>1, ByteAt
    <3>3. b[j] = c[j]
      BY <3>2
    <3> QED
      BY <1>1, <1>2, <3>1, <3>3
  <2> QED
    BY <1>1, <1>2, <2>1, SameWord
<1> QED
  BY <1>1, <1>2, <1>3, SameSeq

\* The bytes of words make up those words.
LEMMA WordsOfBytes ==
  ASSUME NEW w, IsSeq(w), \A i \in 1..Len(w) : IsWord(w[i])
  PROVE  WordsIn(Bytes(w)) = w
<1> DEFINE n == Len(w)
<1>1. n \in Nat /\ WordBytes \in Nat \ {0}
  BY LenFacts, WordAssumption
<1>2. IsSeq(Bytes(w)) /\ Len(Bytes(w)) = n * WordBytes
  BY <1>1, BytesFacts
<1>3. n = Len(Bytes(w)) \div WordBytes
  <2> DEFINE x == n * WordBytes
  <2>1. x \in Nat /\ x = WordBytes * n + 0
    BY <1>1
  <2> HIDE DEF x, n
  <2>2. x \div WordBytes = n
    BY <1>1, <2>1, DivUnique
  <2> QED
    BY <1>2, <2>2 DEF x
<1>4. /\ IsSeq(WordsIn(Bytes(w))) /\ Len(WordsIn(Bytes(w))) = n
      /\ \A i \in 1..n : /\ IsWord(WordsIn(Bytes(w))[i])
                         /\ \A k \in 1..WordBytes : WordsIn(Bytes(w))[i][k] = Bytes(w)[(i - 1) * WordBytes + k]
  <2> DEFINE b == Bytes(w)
  <2>1. IsSeq(b) /\ n = Len(b) \div WordBytes
    BY <1>2, <1>3
  <2> HIDE DEF b, n
  <2>2. /\ IsSeq(WordsIn(b)) /\ Len(WordsIn(b)) = n
        /\ \A i \in 1..n : /\ IsWord(WordsIn(b)[i])
                           /\ \A k \in 1..WordBytes : WordsIn(b)[i][k] = b[(i - 1) * WordBytes + k]
    BY <2>1, WordsInFacts
  <2> QED
    BY <2>2 DEF b
<1>5. ASSUME NEW i \in 1..n PROVE WordsIn(Bytes(w))[i] = w[i]
  <2>1. \A k \in 1..WordBytes : Bytes(w)[(i - 1) * WordBytes + k] = w[i][k]
    BY <1>1, BytesAt
  <2> QED
    BY <1>4, <2>1, SameWord
<1> QED
  BY <1>4, <1>5, SameSeq

\* The device has read the whole of a short message.
LEMMA AllRead ==
  ASSUME PortInv, Flow, NEW t \in Tasks, owner = t, req[t].op # "w", Used(t) = 1
  PROVE  out[t] = <<>> /\ rx = <<>>
<1>1. /\ Sound(req[t]) /\ Len(rx) \in Nat /\ Len(out[t]) \in Nat
      /\ Used(t) + Len(rx) + Len(out[t]) = Len(Message(req[t]))
  BY HolderFacts
<1>2. Len(Message(req[t])) = 1
  BY <1>1, ShortMessage
<1>3. 1 + Len(rx) + Len(out[t]) = 1
  BY <1>1, <1>2
<1>4. Len(rx) = 0 /\ Len(out[t]) = 0
  <2>1. \A i, j \in Nat : 1 + i + j = 1 => i = 0 /\ j = 0
    OBVIOUS
  <2>2. Len(rx) \in Nat /\ Len(out[t]) \in Nat
    BY <1>1
  <2> QED
    BY <1>3, <2>1, <2>2
<1> QED
  BY <1>4, LenFacts DEF Flow, FlowType

\* A byte moves from the answer into the board's FIFO; the status is no part of a word.
LEMMA ReplyMap ==
  ASSUME Proper, FlashInv, DevReply
  PROVE  UNCHANGED <<memory, calls, results>>
<1>1. PortInv /\ Flow /\ Answering
  BY FlashInvFacts
<1>2. dpc = "reply" /\ dpc' \in {"reply", "line"} /\ UNCHANGED <<req, got, secs, pgm, owner, out, rx>>
  BY DEF DevReply, drv
<1>3. PICK t \in Tasks : owner = t
  BY <1>1, <1>2, Busy
<1>4. InTouch(t) /\ req[t].op \in {"e", "w", "r"} /\ need \in Nat /\ t # NoTask
  BY <1>1, <1>3, HolderFacts, TaskAssumption
<1>5. req[t].op = "r" /\ Used(t) = 1
  BY <1>2, <1>4 DEF InTouch, EraseStage, ReadStage, WriteStage
<1>6. Arriving(t)
  BY <1>1, <1>2, <1>3, <1>4, <1>5 DEF Answering
<1>7. Len(tx) < TxCap
  BY <1>1, <1>2, <1>3, <1>6, ReplyRoom DEF Proper
<1>8. out[t] = <<>> /\ rx = <<>>
  BY <1>1, <1>3, <1>5, AllRead
<1>9. \A x \in Tasks : Applied(x)' <=> Applied(x)
  BY <1>2, <1>3, <1>8 DEF Applied
<1>10. calls' = calls
  BY <1>2, <1>9, CallsSame
<1>11. memory' = memory
  BY <1>2, MemorySame
<1>12. IsSeq(tx) /\ IsSeq(reply) /\ Len(tx) \in Nat /\ Len(reply) \in Nat
  BY <1>1, <1>2, LenFacts DEF Flow, FlowType
<1>13. WordsIn(tx' \o reply') = WordsIn(tx \o reply)
  <2>1. CASE reply # <<>>
    <3>1. tx' = Append(tx, Head(reply)) /\ reply' = Tail(reply)
      BY <1>7, <2>1 DEF DevReply, Answer
    <3>2. Len(reply) > 0
      BY <1>12, <2>1, LenFacts
    <3>3. /\ IsSeq(tx') /\ Len(tx') = Len(tx) + 1 /\ \A i \in 1..Len(tx) : tx'[i] = tx[i]
          /\ tx'[Len(tx) + 1] = Head(reply)
      BY <1>12, <3>1, AppendFacts
    <3>4. /\ IsSeq(reply') /\ Len(reply') = Len(reply) - 1
          /\ \A i \in 1..(Len(reply) - 1) : reply'[i] = reply[i + 1]
          /\ Head(reply) = reply[1]
      BY <1>12, <3>1, <3>2, TailFacts
    <3>5. /\ IsSeq(tx \o reply) /\ Len(tx \o reply) = Len(tx) + Len(reply)
          /\ \A j \in 1..Len(tx) : (tx \o reply)[j] = tx[j]
          /\ \A j \in 1..Len(reply) : (tx \o reply)[Len(tx) + j] = reply[j]
      BY <1>12, ConcatFacts
    <3>6. /\ IsSeq(tx' \o reply') /\ Len(tx' \o reply') = Len(tx') + Len(reply')
          /\ \A j \in 1..Len(tx') : (tx' \o reply')[j] = tx'[j]
          /\ \A j \in 1..Len(reply') : (tx' \o reply')[Len(tx') + j] = reply'[j]
      <4>1. IsSeq(tx') /\ IsSeq(reply')
        BY <3>3, <3>4
      <4> QED
        BY <4>1, ConcatFacts
    <3>7. Len(tx' \o reply') = Len(tx \o reply)
      BY <1>12, <3>3, <3>4, <3>5, <3>6
    <3>8. ASSUME NEW j \in 1..(Len(tx) + Len(reply)) PROVE (tx' \o reply')[j] = (tx \o reply)[j]
      <4>1. CASE j <= Len(tx)
        <5>1. j \in 1..Len(tx) /\ j \in 1..Len(tx')
          BY <1>12, <3>3, <3>5, <4>1
        <5> QED
          BY <3>3, <3>5, <3>6, <5>1
      <4>2. CASE j = Len(tx) + 1
        <5>1. j \in 1..Len(tx') /\ 1 \in 1..Len(reply)
          BY <1>12, <3>2, <3>3, <4>2
        <5> QED
          BY <3>3, <3>4, <3>5, <3>6, <4>2, <5>1
      <4>3. CASE j > Len(tx) + 1
        <5>1. PICK i : i = j - Len(tx) - 1
          OBVIOUS
        <5>2. /\ i \in 1..(Len(reply) - 1) /\ i + 1 \in 1..Len(reply) /\ j = Len(tx) + (i + 1)
              /\ i \in 1..Len(reply') /\ j = Len(tx') + i
          <6>1. Len(tx') = Len(tx) + 1 /\ Len(reply') = Len(reply) - 1
            BY <3>3, <3>4
          <6> QED
            BY <1>12, <4>3, <5>1, <6>1
        <5> QED
          BY <3>4, <3>5, <3>6, <5>2
      <4>4. j <= Len(tx) \/ j = Len(tx) + 1 \/ j > Len(tx) + 1
        <5>1. Len(tx) \in Nat /\ Len(reply) \in Nat
          BY <1>12
        <5> QED
          BY <5>1
      <4> QED
        BY <4>1, <4>2, <4>3, <4>4
    <3> QED
      BY <3>5, <3>6, <3>7, <3>8, SameSeq
  <2>2. CASE reply = <<>>
    <3>1. tx' = Append(tx, 0) /\ reply' = <<>> /\ Len(reply) = 0
      BY <1>7, <2>2 DEF DevReply, Answer
    <3>2. IsSeq(tx') /\ Len(tx') = Len(tx) + 1 /\ \A i \in 1..Len(tx) : tx'[i] = tx[i]
      BY <1>12, <3>1, AppendFacts
    <3>3. /\ IsSeq(tx \o reply) /\ Len(tx \o reply) = Len(tx)
          /\ \A j \in 1..Len(tx) : (tx \o reply)[j] = tx[j]
      <4>1. /\ IsSeq(tx \o reply) /\ Len(tx \o reply) = Len(tx) + Len(reply)
            /\ \A j \in 1..Len(tx) : (tx \o reply)[j] = tx[j]
        BY <1>12, ConcatFacts
      <4> QED
        BY <1>12, <3>1, <4>1
    <3>4. /\ IsSeq(tx' \o reply') /\ Len(tx' \o reply') = Len(tx) + 1
          /\ \A j \in 1..Len(tx') : (tx' \o reply')[j] = tx'[j]
      <4>1. /\ IsSeq(tx' \o reply') /\ Len(tx' \o reply') = Len(tx') + Len(reply')
            /\ \A j \in 1..Len(tx') : (tx' \o reply')[j] = tx'[j]
        BY <3>1, <3>2, EmptyFacts, ConcatFacts
      <4> QED
        BY <1>12, <3>1, <3>2, <4>1
    <3> DEFINE x == need * WordBytes
    <3>5. x = Len(tx)
      BY <1>2, <1>6, <1>12, <3>1 DEF Arriving
    <3>6. WordBytes \in Nat \ {0} /\ 1 < WordBytes
      BY WordAssumption
    <3>7. x \in Nat /\ x = WordBytes * need + 0 /\ x + 1 = WordBytes * need + 1
      BY <1>4, <3>6
    <3> HIDE DEF x
    <3>8. x \div WordBytes = need
      BY <1>4, <3>6, <3>7, DivUnique
    <3>9. (x + 1) \div WordBytes = need
      BY <1>4, <3>6, <3>7, DivUnique
    <3>10. ASSUME NEW j \in 1..x PROVE (tx' \o reply')[j] = (tx \o reply)[j]
      <4>1. j \in 1..Len(tx) /\ j \in 1..Len(tx')
        BY <1>12, <3>2, <3>5
      <4> QED
        BY <3>2, <3>3, <3>4, <4>1
    <3>11. \A j \in 1..(need * WordBytes) : (tx' \o reply')[j] = (tx \o reply)[j]
      BY <3>10 DEF x
    <3> QED
      BY <3>3, <3>4, <3>5, <3>8, <3>9, <3>11, SameWords
  <2> QED
    BY <2>1, <2>2
<1>14. results' = results
  <2>1. WordsIn(tx \o reply)' = WordsIn(tx \o reply)
    BY <1>13 DEF WordsIn
  <2> QED
    BY <1>2, <1>9, <2>1, ResultsSame DEF Due
<1> QED
  BY <1>10, <1>11, <1>14

\* The read takes effect when the device has read the words: all of them are under way.
LEMMA ReadMap ==
  ASSUME Proper, FlashInv, DevRead
  PROVE  \E t \in Tasks : Abstract!Read(t)
<1>1. PortInv /\ Flow /\ EmptyInv /\ ReadType /\ InPage /\ Answering /\ StoresBytes
  BY FlashInvFacts
<1>2. dpc = "read" /\ UNCHANGED <<owner, req, out, got, rx, tx, secs, pgm>>
  BY DEF DevRead, drv
<1>3. PICK t \in Tasks : owner = t
  BY <1>1, <1>2, Busy
<1> DEFINE a == cmd.addr
           n == cmd.size
           s == sectorof(cmd.addr)
<1>4. /\ req[t].op = "r" /\ Len(tx) = 0 /\ n = need /\ need = Total(t) /\ n \in Nat /\ n > 0
      /\ a = req[t].addr /\ a \in Nat /\ dpc' = "reply"
      /\ \A i \in 1..n : rangeof(a + i - 1) # 0 /\ sectorof(a + i - 1) = s
      /\ \E w : /\ reply' = Bytes(w) /\ IsSeq(w) /\ Len(w) = n /\ \A i \in 1..n : IsWord(w[i])
                /\ secs[s] = "UNK" => w \in [1..n -> Junk]
                /\ secs[s] # "UNK" => \A i \in 1..n : w[i] = StoredWord(a + i - 1)
  BY <1>1, <1>3, ReadWords
<1>5. PICK w : /\ reply' = Bytes(w) /\ IsSeq(w) /\ Len(w) = n /\ \A i \in 1..n : IsWord(w[i])
               /\ secs[s] = "UNK" => w \in [1..n -> Junk]
               /\ secs[s] # "UNK" => \A i \in 1..n : w[i] = StoredWord(a + i - 1)
  BY <1>4
<1>6. ~Applied(t) /\ Applied(t)' /\ \A x \in Tasks : x # t => ~Applied(x) /\ ~Applied(x)'
  BY <1>2, <1>3, <1>4 DEF Applied
<1>7. /\ calls[t].c = AsCall(req[t]) /\ ~calls[t].done
      /\ calls' = [calls EXCEPT ![t].done = TRUE]
  BY <1>2, <1>6, CallsDone
<1>8. memory' = memory
  BY <1>2, <1>4, MemorySame
<1>9. tx' \o reply' = Bytes(w)
  <2>1. tx' = <<>>
    BY <1>1, <1>2, <1>4, LenFacts DEF Flow, FlowType
  <2>2. IsSeq(Bytes(w))
    BY <1>4, <1>5, BytesFacts
  <2>3. PICK S : Bytes(w) \in Seq(S)
    BY <2>2 DEF IsSeq
  <2> QED
    BY <1>5, <2>1, <2>3
<1>10. WordsIn(tx \o reply)' = w
  <2>1. WordsIn(Bytes(w)) = w
    BY <1>5, WordsOfBytes
  <2>2. WordsIn(tx \o reply)' = WordsIn(tx' \o reply')
    BY DEF WordsIn
  <2> QED
    BY <1>9, <2>1, <2>2
<1>11. results' = [results EXCEPT ![t] = @ \o w]
  <2>1. results[t] = got[t] /\ results'[t] = got[t] \o w
    <3>1. results[t] = got[t]
      BY <1>6 DEF results
    <3>2. results'[t] = got'[t] \o WordsIn(tx \o reply)'
      BY <1>2, <1>3, <1>4, <1>6 DEF results
    <3> QED
      BY <1>2, <1>10, <3>1, <3>2
  <2>2. ASSUME NEW x \in Tasks, x # t PROVE results'[x] = results[x]
    BY <1>2, <1>6, <2>2 DEF results
  <2>3. results = [x \in Tasks |-> results[x]] /\ results' = [x \in Tasks |-> results'[x]]
    BY DEF results
  <2> QED
    BY <2>1, <2>2, <2>3
<1>12. calls[t].c.op = "r" /\ calls[t].c.addr = a /\ calls[t].c.n = n
  BY <1>4, <1>7 DEF AsCall, Total
<1>13. PICK junk \in Junk : TRUE
  BY JunkAssumption
<1> DEFINE j == IF secs[s] = "UNK" THEN w ELSE [i \in 1..n |-> junk]
<1>14. j \in [1..n -> Junk]
  BY <1>5
<1>15. ASSUME NEW i \in 1..n
       PROVE  w[i] = IF memory[a + i - 1] = Unknown THEN j[i] ELSE memory[a + i - 1]
  <2>1. PICK b : b = a + i - 1
    OBVIOUS
  <2>2. b \in Nat /\ rangeof(b) # 0 /\ sectorof(b) = s
    BY <1>4, <2>1
  <2>3. memory[b] = IF secs[s] = "UNK" THEN Unknown ELSE StoredWord(b)
    BY <1>2, <2>2, InAddrs, MemoryIs
  <2>4. StoredWord(b) # Unknown
    BY <1>1, <2>2, StoredKnown
  <2>5. CASE secs[s] = "UNK"
    BY <2>1, <2>3, <2>5
  <2>6. CASE secs[s] # "UNK"
    <3>1. w[i] = StoredWord(b)
      BY <1>5, <2>1, <2>6
    <3> QED
      BY <2>1, <2>3, <2>4, <2>6, <3>1
  <2> QED
    BY <2>5, <2>6
<1>16. w = [i \in 1..n |-> IF memory[a + i - 1] = Unknown THEN j[i] ELSE memory[a + i - 1]]
  <2>1. w = [i \in 1..n |-> w[i]]
    <3>1. PICK S : w \in Seq(S)
      BY <1>5 DEF IsSeq
    <3> QED
      BY <1>5, <3>1
  <2> HIDE DEF j, n, a
  <2> QED
    BY <1>15, <2>1
<1>17. \E f \in [1..calls[t].c.n -> Junk] :
         results' = [results EXCEPT ![t] = @ \o
                       [i \in 1..calls[t].c.n |-> IF memory[calls[t].c.addr + i - 1] = Unknown THEN f[i]
                                                  ELSE memory[calls[t].c.addr + i - 1]]]
  <2> HIDE DEF j, n, a
  <2> QED
    BY <1>11, <1>12, <1>14, <1>16
<1> QED
  BY <1>7, <1>8, <1>12, <1>17 DEF Abstract!Read, Abstract!Pending, Abstract!Done

\* Taking the first word off some bytes
LEMMA WordMoves ==
  ASSUME NEW g, IsSeq(g), NEW u, IsSeq(u), NEW v, IsSeq(v), WordBytes <= Len(u)
  PROVE  g \o WordsIn(u \o v)
           = Append(g, SubSeq(u, 1, WordBytes)) \o WordsIn(SubSeq(u, WordBytes + 1, Len(u)) \o v)
<1> DEFINE W == WordBytes
           word == SubSeq(u, 1, WordBytes)
           rest == SubSeq(u, WordBytes + 1, Len(u))
           b == u \o v
           c == rest \o v
           n == Len(c) \div WordBytes
           h == Append(g, word)
<1>1. W \in Nat \ {0} /\ Len(u) \in Nat /\ Len(v) \in Nat /\ Len(g) \in Nat
  BY WordAssumption, LenFacts
<1>2. /\ IsSeq(word) /\ Len(word) = W /\ \A i \in 1..W : word[i] = u[i]
      /\ \A i \in 1..(Len(u) - W) : rest[i] = u[W + i]
  BY <1>1, FirstFacts
<1>3. IsSeq(rest) /\ Len(rest) = Len(u) - W
  BY <1>1, RestFacts
<1>4. /\ IsSeq(b) /\ Len(b) = Len(u) + Len(v)
      /\ \A i \in 1..Len(u) : b[i] = u[i]
      /\ \A i \in 1..Len(v) : b[Len(u) + i] = v[i]
  BY ConcatFacts
<1> HIDE DEF word, rest, b
<1>5. /\ IsSeq(c) /\ Len(c) = Len(rest) + Len(v)
      /\ \A i \in 1..Len(rest) : c[i] = rest[i]
      /\ \A i \in 1..Len(v) : c[Len(rest) + i] = v[i]
  BY <1>3, ConcatFacts
<1> HIDE DEF c
<1>6. /\ IsSeq(h) /\ Len(h) = Len(g) + 1
      /\ \A i \in 1..Len(g) : h[i] = g[i]
      /\ h[Len(g) + 1] = word
  BY AppendFacts
<1> HIDE DEF h
<1>7. Len(b) = Len(c) + W /\ Len(c) \in Nat
  BY <1>1, <1>3, <1>4, <1>5
<1>8. ASSUME NEW i \in 1..Len(c) PROVE c[i] = b[W + i]
  <2>1. CASE i <= Len(rest)
    <3>1. i \in 1..Len(rest) /\ i \in 1..(Len(u) - W) /\ W + i \in 1..Len(u)
      BY <1>1, <1>3, <2>1
    <3> QED
      BY <1>2, <1>4, <1>5, <3>1
  <2>2. CASE ~(i <= Len(rest))
    <3>1. PICK k : k = i - Len(rest)
      OBVIOUS
    <3>2. k \in 1..Len(v) /\ i = Len(rest) + k /\ W + i = Len(u) + k
      <4>1. Len(rest) = Len(u) - W /\ Len(c) = Len(rest) + Len(v)
        BY <1>3, <1>5
      <4> QED
        BY <1>1, <1>7, <2>2, <3>1, <4>1
    <3> QED
      BY <1>4, <1>5, <3>2
  <2> QED
    BY <2>1, <2>2
<1>9. n \in Nat /\ n + 1 = Len(b) \div WordBytes
  <2> DEFINE r == Len(c) % WordBytes
             d == WordBytes * n
             e == WordBytes * (n + 1)
  <2>1. n \in Nat /\ r \in Nat /\ r < W /\ d \in Nat /\ Len(c) = d + r
    BY <1>1, <1>7, DivFacts
  <2>2. e = d + W
    BY <1>1, <2>1
  <2> HIDE DEF n, r, d, e, W
  <2>3. Len(b) = e + r /\ Len(b) \in Nat /\ n + 1 \in Nat
    BY <1>1, <1>7, <2>1, <2>2
  <2>4. Len(b) \div W = n + 1
    BY <1>1, <2>1, <2>3, DivUnique DEF e, W
  <2> QED
    BY <2>1, <2>4 DEF W
<1>10. /\ IsSeq(WordsIn(b)) /\ Len(WordsIn(b)) = n + 1
       /\ \A i \in 1..(n + 1) : /\ IsWord(WordsIn(b)[i])
                                /\ \A k \in 1..W : WordsIn(b)[i][k] = b[(i - 1) * W + k]
  <2>1. PICK m : m = n + 1
    OBVIOUS
  <2>2. IsSeq(b) /\ m = Len(b) \div WordBytes
    BY <1>4, <1>9, <2>1
  <2>3. /\ IsSeq(WordsIn(b)) /\ Len(WordsIn(b)) = m
        /\ \A i \in 1..m : /\ IsWord(WordsIn(b)[i])
                           /\ \A k \in 1..WordBytes : WordsIn(b)[i][k] = b[(i - 1) * WordBytes + k]
    BY <2>2, WordsInFacts
  <2> HIDE DEF n
  <2> QED
    BY <2>1, <2>3
<1>11. /\ IsSeq(WordsIn(c)) /\ Len(WordsIn(c)) = n /\ n * W <= Len(c) /\ n * W \in Nat
       /\ \A i \in 1..n : /\ IsWord(WordsIn(c)[i])
                          /\ \A k \in 1..W : WordsIn(c)[i][k] = c[(i - 1) * W + k]
  <2>1. IsSeq(c) /\ n = Len(c) \div WordBytes
    BY <1>5
  <2> HIDE DEF n
  <2> QED
    BY <2>1, WordsInFacts
<1> HIDE DEF n
<1>12. WordsIn(b)[1] = word
  <2>1. 1 \in 1..(n + 1)
    BY <1>9
  <2>2. ASSUME NEW k \in 1..W PROVE WordsIn(b)[1][k] = word[k]
    <3>1. (1 - 1) * W + k = k /\ k \in 1..Len(u)
      BY <1>1
    <3>2. WordsIn(b)[1][k] = b[(1 - 1) * W + k]
      BY <1>10, <2>1
    <3> QED
      BY <1>2, <1>4, <3>1, <3>2
  <2> QED
    BY <1>2, <1>10, <2>1, <2>2, SameWord DEF IsWord
<1>13. ASSUME NEW i \in 1..n PROVE WordsIn(b)[i + 1] = WordsIn(c)[i]
  <2>1. i + 1 \in 1..(n + 1)
    BY <1>9
  <2>2. ASSUME NEW k \in 1..W PROVE WordsIn(b)[i + 1][k] = WordsIn(c)[i][k]
    <3>1. PICK x : x = (i - 1) * W + k
      OBVIOUS
    <3>2. x \in 1..(n * W)
      BY <1>9, <3>1, ByteAt
    <3>3. x \in 1..Len(c)
      BY <1>7, <1>11, <3>2
    <3>4. ((i + 1) - 1) * W + k = W + x
      <4> DEFINE y == (i - 1) * W
                 z == ((i + 1) - 1) * W
      <4>1. y \in Nat /\ z = W + y /\ x = y + k
        BY <1>1, <1>9, <3>1
      <4> HIDE DEF y, z
      <4>2. z + k = W + x
        BY <1>1, <4>1
      <4> QED
        BY <4>2 DEF z
    <3>5. WordsIn(b)[i + 1][k] = b[((i + 1) - 1) * W + k]
      BY <1>10, <2>1
    <3> QED
      BY <1>8, <1>11, <3>1, <3>3, <3>4, <3>5
  <2> QED
    BY <1>10, <1>11, <2>1, <2>2, SameWord
<1> DEFINE p == WordsIn(b)
           q == WordsIn(c)
<1>14. IsSeq(p) /\ Len(p) = n + 1 /\ IsSeq(q) /\ Len(q) = n /\ p[1] = word /\ \A i \in 1..n : p[i + 1] = q[i]
  BY <1>10, <1>11, <1>12, <1>13
<1> HIDE DEF p, q
<1>15. /\ IsSeq(g \o p) /\ Len(g \o p) = Len(g) + Len(p)
       /\ \A i \in 1..Len(g) : (g \o p)[i] = g[i]
       /\ \A i \in 1..Len(p) : (g \o p)[Len(g) + i] = p[i]
  <2>1. IsSeq(p)
    BY <1>14
  <2> QED
    BY <2>1, ConcatFacts
<1>16. /\ IsSeq(h \o q) /\ Len(h \o q) = Len(h) + Len(q)
       /\ \A i \in 1..Len(h) : (h \o q)[i] = h[i]
       /\ \A i \in 1..Len(q) : (h \o q)[Len(h) + i] = q[i]
  <2>1. IsSeq(h) /\ IsSeq(q)
    BY <1>6, <1>14
  <2> QED
    BY <2>1, ConcatFacts
<1>17. Len(g \o p) = Len(g) + n + 1 /\ Len(h \o q) = Len(g) + n + 1
  BY <1>1, <1>6, <1>9, <1>14, <1>15, <1>16
<1>18. ASSUME NEW i \in 1..(Len(g) + n + 1) PROVE (g \o p)[i] = (h \o q)[i]
  <2>1. CASE i <= Len(g)
    <3>1. i \in 1..Len(g) /\ i \in 1..Len(h)
      BY <1>1, <1>6, <2>1
    <3> QED
      BY <1>6, <1>15, <1>16, <3>1
  <2>2. CASE i = Len(g) + 1
    <3>1. 1 \in 1..Len(p) /\ i \in 1..Len(h)
      BY <1>1, <1>6, <1>9, <1>14, <2>2
    <3> QED
      BY <1>6, <1>14, <1>15, <1>16, <2>2, <3>1
  <2>3. CASE i > Len(g) + 1
    <3>1. PICK k : k = i - Len(g) - 1
      OBVIOUS
    <3>2. k \in 1..n /\ k + 1 \in 1..(n + 1) /\ i = Len(g) + (k + 1) /\ i = (Len(g) + 1) + k
      BY <1>1, <1>9, <2>3, <3>1
    <3>3. (g \o p)[i] = p[k + 1]
      BY <1>14, <1>15, <3>2
    <3>4. (h \o q)[i] = q[k]
      BY <1>6, <1>14, <1>16, <3>2
    <3> QED
      BY <1>14, <3>2, <3>3, <3>4
  <2>4. i <= Len(g) \/ i = Len(g) + 1 \/ i > Len(g) + 1
    BY <1>1, <1>9
  <2> QED
    BY <2>1, <2>2, <2>3, <2>4
<1>19. g \o p = h \o q
  BY <1>15, <1>16, <1>17, <1>18, SameSeq
<1> QED
  BY <1>19 DEF p, q, h, b, c, word, rest

\* A word of the answer goes into the caller's buffer.
LEMMA WordMap ==
  ASSUME Proper, FlashInv, Flow', NEW t \in Tasks, TakeWord(t)
  PROVE  UNCHANGED <<memory, calls, results>>
<1>1. PortInv /\ Flow /\ ReadType /\ (dpc # "reply" => reply = <<>>)
  BY FlashInvFacts
<1>2. /\ pc[t] = "words" /\ Len(tx) >= WordBytes
      /\ got' = [got EXCEPT ![t] = Append(got[t], SubSeq(tx, 1, WordBytes))]
      /\ tx' = SubSeq(tx, WordBytes + 1, Len(tx))
      /\ UNCHANGED <<owner, req, out, rx, dpc, reply>>
  BY DEF TakeWord, dev
<1>3. owner = t
  BY <1>1, <1>2 DEF PortInv, PortExclusive
<1>4. InTouch(t) /\ req[t].op \in {"e", "w", "r"} /\ need \in Nat /\ Len(tx) \in Nat
  BY <1>1, <1>3, HolderFacts
<1>5. req[t].op = "r" /\ Used(t) = 1 /\ dpc \in {"reply", "line"}
  <2>1. req[t].op = "r"
    BY <1>2, <1>4 DEF InTouch
  <2>2. ~(Len(tx) = 0)
    BY <1>2, <1>4, WordAssumption
  <2> QED
    BY <1>4, <2>1, <2>2 DEF InTouch, ReadStage
<1>6. out[t] = <<>> /\ rx = <<>>
  BY <1>1, <1>3, <1>5, AllRead
<1>7. Applied(t) /\ \A x \in Tasks : Applied(x)' <=> Applied(x)
  BY <1>2, <1>3, <1>5, <1>6 DEF Applied
<1>8. calls' = calls
  BY <1>2, <1>7, CallsSame
<1>9. memory' = memory
  BY <1>1, DriverMemory DEF DriverStep
<1>10. IsSeq(tx) /\ IsSeq(reply) /\ IsSeq(got[t]) /\ DOMAIN got = Tasks
  BY <1>1, EmptyFacts DEF Flow, FlowType, ReadType
<1>11. results'[t] = results[t]
  <2>1. results[t] = got[t] \o WordsIn(tx \o reply)
    BY <1>3, <1>5, <1>7 DEF results
  <2>2. results'[t] = got'[t] \o WordsIn(tx' \o reply')
    BY <1>2, <1>3, <1>5, <1>7 DEF results, WordsIn
  <2>3. got'[t] = Append(got[t], SubSeq(tx, 1, WordBytes))
    BY <1>2, <1>10
  <2>4. got[t] \o WordsIn(tx \o reply)
          = Append(got[t], SubSeq(tx, 1, WordBytes)) \o WordsIn(SubSeq(tx, WordBytes + 1, Len(tx)) \o reply)
    <3>1. WordBytes <= Len(tx)
      BY <1>2, <1>4, WordAssumption
    <3> QED
      BY <1>10, <3>1, WordMoves
  <2> QED
    BY <1>2, <2>1, <2>2, <2>3, <2>4
<1>12. ASSUME NEW x \in Tasks, x # t PROVE results'[x] = results[x]
  <2>1. got'[x] = got[x]
    BY <1>2, <1>10, <1>12
  <2>2. results[x] = got[x] /\ results'[x] = got'[x]
    BY <1>2, <1>3, <1>12 DEF results
  <2> QED
    BY <2>1, <2>2
<1>13. results' = results
  BY <1>11, <1>12 DEF results
<1> QED
  BY <1>8, <1>9, <1>13

\* When the status is there, all of the message has been read and answered.
LEMMA StatusApplied ==
  ASSUME Proper, FlashInv, NEW t \in Tasks, TakeStatus(t)
  PROVE  /\ owner = t /\ Sound(req[t]) /\ Applied(t) /\ results[t] = got[t]
<1>1. PortInv /\ Flow /\ ReadType /\ (dpc # "reply" => reply = <<>>)
  BY FlashInvFacts
<1>2. pc[t] = "status" /\ tx # <<>>
  BY DEF TakeStatus
<1>3. owner = t
  BY <1>1, <1>2 DEF PortInv, PortExclusive
<1>4. /\ InTouch(t) /\ req[t].op \in {"e", "w", "r"} /\ need \in Nat /\ Len(tx) \in Nat /\ Sound(req[t])
      /\ req[t].size \in Nat /\ Len(rx) \in Nat /\ Len(out[t]) \in Nat
      /\ Used(t) + Len(rx) + Len(out[t]) = Len(Message(req[t]))
  BY <1>1, <1>3, HolderFacts
<1>5. IsSeq(tx) /\ IsSeq(rx) /\ IsSeq(out[t]) /\ Len(tx) > 0 /\ need = 0
  BY <1>1, <1>2, <1>4, LenFacts DEF Flow, FlowType, InTouch
<1>6. CASE req[t].op = "e"
  <2>1. Used(t) = 1 /\ dpc = "line"
    BY <1>4, <1>5, <1>6 DEF InTouch, EraseStage
  <2>2. out[t] = <<>> /\ rx = <<>>
    BY <1>1, <1>3, <1>6, <2>1, AllRead
  <2>3. Applied(t)
    BY <1>3, <2>1, <2>2 DEF Applied
  <2>4. results[t] = got[t]
    BY <1>6 DEF results
  <2> QED
    BY <1>3, <1>4, <2>3, <2>4
<1>7. CASE req[t].op = "w"
  <2>1. Used(t) = 4 + req[t].size /\ dpc = "line"
    BY <1>4, <1>5, <1>7 DEF InTouch, WriteStage
  <2>2. Len(Message(req[t])) = req[t].size + 4
    BY <1>4, <1>7, LongMessage
  <2>3. Len(rx) = 0 /\ Len(out[t]) = 0
    <3>1. \A k, i, j \in Nat : 4 + k + i + j = k + 4 => i = 0 /\ j = 0
      OBVIOUS
    <3>2. 4 + req[t].size + Len(rx) + Len(out[t]) = req[t].size + 4
      BY <1>4, <2>1, <2>2
    <3> QED
      BY <1>4, <3>1, <3>2
  <2>4. Applied(t)
    BY <1>3, <1>5, <2>1, <2>3, LenFacts DEF Applied
  <2>5. results[t] = got[t]
    BY <1>7 DEF results
  <2> QED
    BY <1>3, <1>4, <2>4, <2>5
<1>8. CASE req[t].op = "r"
  <2>1. need * WordBytes = 0
    BY <1>5, WordAssumption
  <2>2. ~(Len(tx) = 0) /\ ReadStage(t)
    BY <1>4, <1>5, <1>8 DEF InTouch
  <2>3. ~(dpc = "reply" /\ Len(tx) + Len(reply) <= need * WordBytes)
    <3> SUFFICES ASSUME dpc = "reply", Len(tx) + Len(reply) <= 0 PROVE FALSE
      BY <2>1
    <3>1. Len(reply) \in Nat
      BY <1>1, LenFacts DEF Flow, FlowType
    <3> QED
      BY <1>4, <1>5, <3>1
  <2>4. Used(t) = 1 /\ dpc = "line" /\ Len(tx) <= need * WordBytes + 1
    BY <2>2, <2>3 DEF ReadStage
  <2>5. Len(tx) = 1 /\ reply = <<>>
    <3>1. Len(tx) \in Nat /\ Len(tx) > 0 /\ Len(tx) <= 0 + 1
      BY <1>4, <1>5, <2>1, <2>4
    <3>2. Len(tx) = 1
      BY <3>1
    <3> QED
      BY <1>1, <2>4, <3>2
  <2>6. out[t] = <<>> /\ rx = <<>>
    BY <1>1, <1>3, <1>8, <2>4, AllRead
  <2>7. Applied(t)
    BY <1>3, <2>4, <2>6 DEF Applied
  <2>8. WordsIn(tx \o reply) = <<>>
    <3>1. IsSeq(tx \o reply) /\ Len(tx \o reply) = 1
      <4>1. IsSeq(tx \o reply) /\ Len(tx \o reply) = Len(tx) + Len(reply)
        BY <1>5, <2>5, EmptyFacts, ConcatFacts
      <4>2. Len(reply) = 0
        BY <2>5, EmptyFacts
      <4> QED
        BY <2>5, <4>1, <4>2
    <3>2. 1 \div WordBytes = 0
      <4>1. 1 = WordBytes * 0 + 1 /\ WordBytes \in Nat \ {0} /\ 1 < WordBytes
        BY WordAssumption
      <4> QED
        BY <4>1, DivUnique
    <3>3. IsSeq(WordsIn(tx \o reply)) /\ Len(WordsIn(tx \o reply)) = 0
      <4>1. 0 = Len(tx \o reply) \div WordBytes
        BY <3>1, <3>2
      <4> QED
        BY <3>1, <4>1, WordsInFacts
    <3> QED
      BY <3>3, LenFacts
  <2>9. results[t] = got[t]
    <3>1. results[t] = got[t] \o <<>>
      BY <1>3, <1>8, <2>7, <2>8 DEF results
    <3>2. IsSeq(got[t])
      BY <1>1 DEF ReadType
    <3>3. PICK S : got[t] \in Seq(S)
      BY <3>2 DEF IsSeq
    <3> QED
      BY <3>1, <3>3
  <2> QED
    BY <1>3, <1>4, <2>7, <2>9
<1> QED
  BY <1>4, <1>6, <1>7, <1>8

\* The call returns, or goes on with its next sector or page.
LEMMA StatusMap ==
  ASSUME Proper, FlashInv, Flow', NEW t \in Tasks, TakeStatus(t)
  PROVE  Abstract!End(t)
<1>1. PortInv /\ Flow /\ ReadType /\ Origin
  BY FlashInvFacts
<1>2. owner = t /\ Sound(req[t]) /\ Applied(t) /\ results[t] = got[t]
  BY StatusApplied
<1> DEFINE resp == retflerr(Head(tx))
           rest == Rest(req[t], resp)
<1>3. /\ pc[t] = "status" /\ owner' = NoTask /\ req' = [req EXCEPT ![t] = rest]
      /\ rest = NoReq => got' = [got EXCEPT ![t] = <<>>]
      /\ rest # NoReq => UNCHANGED got
  BY DEF TakeStatus
<1>4. ~Applied(t)' /\ \A x \in Tasks : x # t => ~Applied(x) /\ ~Applied(x)'
  BY <1>2, <1>3, TaskAssumption DEF Applied
<1>5. calls' = [calls EXCEPT ![t] = [c |-> AsCall(rest), done |-> FALSE]]
  <2>1. DOMAIN req = Tasks
    BY <1>1 DEF Flow, FlowType
  <2> HIDE DEF rest
  <2> QED
    BY <1>3, <1>4, <2>1, CallsSet
<1>6. memory' = memory
  BY <1>1, DriverMemory DEF DriverStep
<1>7. calls[t].c = AsCall(req[t]) /\ calls[t].done
  <2>1. calls[t] = [c |-> AsCall(req[t]), done |-> Applied(t)]
    BY Zenon DEF calls
  <2>2. Applied(t) = TRUE
    BY <1>2, Zenon DEF Applied
  <2>3. PICK f : f = TRUE
    BY Zenon
  <2>4. calls[t] = [c |-> AsCall(req[t]), done |-> f]
    BY <2>1, <2>2, <2>3, Zenon
  <2>5. calls[t].c = AsCall(req[t]) /\ calls[t].done = f
    BY <2>4
  <2> QED
    BY <2>3, <2>5, Zenon
<1>8. DOMAIN got = Tasks
  BY <1>1 DEF ReadType
<1>9. /\ results = [x \in Tasks |-> results[x]] /\ results' = [x \in Tasks |-> results'[x]]
      /\ \A x \in Tasks : results'[x] = got'[x]
      /\ \A x \in Tasks : results[x] = got[x]
  <2>1. results = [x \in Tasks |-> results[x]] /\ results' = [x \in Tasks |-> results'[x]]
    BY DEF results
  <2>2. \A x \in Tasks : results'[x] = got'[x]
    BY <1>4 DEF results
  <2>3. \A x \in Tasks : x # t => results[x] = got[x]
    BY <1>4 DEF results
  <2> QED
    BY <1>2, <2>1, <2>2, <2>3
<1>10. CASE rest = NoReq
  <2>1. AsCall(NoReq) = Abstract!NoCall
    <3>1. sizew(Chunk(NoReq)) = 0
      BY WordAssumption DEF sizew, Chunk, NoReq
    <3> QED
      BY <3>1 DEF AsCall, NoReq, Abstract!NoCall
  <2>2. calls' = [calls EXCEPT ![t] = Abstract!Idle]
    BY <1>5, <1>10, <2>1, Zenon DEF Abstract!Idle
  <2>3. results' = [results EXCEPT ![t] = <<>>]
    <3>1. got' = [got EXCEPT ![t] = <<>>]
      BY <1>3, <1>10
    <3>2. \A x \in Tasks : results'[x] = IF x = t THEN <<>> ELSE results[x]
      BY <1>8, <1>9, <3>1
    <3> QED
      BY <1>9, <3>2
  <2> QED
    BY <1>6, <1>7, <2>2, <2>3, Zenon DEF Abstract!End
<1>11. CASE rest # NoReq
  <2>1. results' = results
    BY <1>3, <1>9, <1>11
  <2>2. PICK r \in Requests : \E i \in 0..PartCount(r) : req[t] = Taken(r, i)
    BY <1>1, <1>3 DEF Origin
  <2>3. PICK i \in 0..PartCount(r) : req[t] = Taken(r, i)
    BY <2>2
  <2>4. i \in Nat
    BY TakenFacts
  <2>5. rest = Taken(r, i + 1) /\ i + 1 \in 0..PartCount(r)
    BY <1>2, <1>11, <2>3, <2>4, TakenFacts
  <2>6. AsCall(rest) \in UNION {Parts(q) : q \in Requests}
    <3>1. AsCall(rest) \in Parts(r)
      BY <2>5, PartsAre
    <3> QED
      BY <3>1
  <2>7. rest.op = req[t].op /\ rest.addr > req[t].addr
    <3>1. SecWords \in Nat \ {0} /\ PageWords \in Nat \ {0}
      BY GeomAssumption DEF SecWords
    <3>2. req[t].addr \in Nat
      BY <1>2 DEF Sound
    <3>3. \/ rest = [req[t] EXCEPT !.addr = req[t].addr + SecWords, !.size = req[t].size - SecWords * WordBytes]
          \/ rest = [req[t] EXCEPT !.addr = req[t].addr + PageWords, !.size = req[t].size - Chunk(req[t])]
      BY <1>11 DEF Rest
    <3>4. /\ rest.op = req[t].op
          /\ rest.addr = req[t].addr + SecWords \/ rest.addr = req[t].addr + PageWords
      <4> HIDE DEF rest
      <4> QED
        BY <1>2, <3>3 DEF Sound
    <3> HIDE DEF rest
    <3> QED
      BY <3>1, <3>2, <3>4
  <2>8. /\ AsCall(rest).op = calls[t].c.op
        /\ AsCall(rest).addr > calls[t].c.addr
    <3> HIDE DEF rest
    <3> QED
      BY <1>7, <2>7 DEF AsCall
  <2> HIDE DEF rest
  <2> QED
    BY <1>5, <1>6, <1>7, <2>1, <2>6, <2>8, Zenon DEF Abstract!End
<1> QED
  BY <1>10, <1>11

\* The endless answer never begins.
LEMMA NoFlood == ASSUME PortInv, Flow PROVE dpc # "flood"
<1> SUFFICES ASSUME dpc = "flood" PROVE FALSE
  OBVIOUS
<1>1. PICK t \in Tasks : owner = t
  BY Busy
<1>2. InTouch(t) /\ req[t].op \in {"e", "w", "r"}
  BY <1>1, HolderFacts
<1> QED
  BY <1>2 DEF InTouch, EraseStage, ReadStage, WriteStage

\* Every step is one of the specification's, or leaves what it speaks of alone.
LEMMA NextMap ==
  ASSUME Proper, FlashInv, FlashInv', [Next]_vars
  PROVE  [Abstract!Next]_<<memory, calls, results>>
<1>1. PortInv /\ Flow
  BY FlashInvFacts
<1>2. PortInv' /\ Flow' /\ ~stopped'
  BY DEF Proper, FlashInv, StepInv, LegalInv
<1>3. CASE UNCHANGED vars
  <2>1. UNCHANGED <<owner, req, out, got, rx, tx, dpc, cmd, pos, reply, secs, pgm>>
    BY <1>3 DEF vars, drv, dev
  <2>2. \A x \in Tasks : Applied(x)' <=> Applied(x)
    BY <2>1 DEF Applied
  <2>3. calls' = calls
    BY <2>1, <2>2, CallsSame
  <2>4. results' = results
    <3>1. WordsIn(tx \o reply)' = WordsIn(tx \o reply)
      BY <2>1 DEF WordsIn
    <3> QED
      BY <2>1, <2>2, <3>1, ResultsSame DEF Due
  <2>5. memory' = memory
    <3>1. \A a : (InFlight(a)' <=> InFlight(a)) /\ StoredWord(a)' = StoredWord(a)
      BY <2>1, SameContents DEF InFlight
    <3> QED
      BY <2>1, <3>1 DEF memory, Addrs, rangeof, sectorof
  <2> QED
    BY <2>3, <2>4, <2>5
<1>4. CASE DeviceStep
  <2>1. CASE DevCommand
    BY <1>2, <2>1, CommandMap
  <2>2. CASE DevErase
    BY <2>2, EraseMap DEF Abstract!Next
  <2>3. CASE DevData
    BY <2>3, DataMap
  <2>4. CASE DevProgram
    BY <2>4, ProgramMap DEF Abstract!Next
  <2>5. CASE DevStore
    BY <2>5, StoreMap
  <2>6. CASE DevEol
    BY <1>2, <2>6, EolMap
  <2>7. CASE DevRead
    BY <2>7, ReadMap DEF Abstract!Next
  <2>8. CASE DevReply
    BY <2>8, ReplyMap
  <2>9. CASE DevFlood
    BY <1>1, <2>9, NoFlood DEF DevFlood
  <2> QED
    BY <1>4, <2>1, <2>2, <2>3, <2>4, <2>5, <2>6, <2>7, <2>8, <2>9 DEF DeviceStep
<1>5. ASSUME NEW t \in Tasks, Call(t) \/ DriverStep(t)
      PROVE  [Abstract!Next]_<<memory, calls, results>>
  <2>1. CASE Call(t)
    BY <1>2, <2>1, CallMap DEF Abstract!Next
  <2>2. CASE Lock(t)
    BY <1>2, <2>2, LockMap
  <2>3. CASE Send(t)
    BY <1>2, <2>3, SendMap
  <2>4. CASE TakeWord(t)
    BY <1>2, <2>4, WordMap
  <2>5. CASE TakeStatus(t)
    BY <1>2, <2>5, StatusMap DEF Abstract!Next
  <2> QED
    BY <1>5, <2>1, <2>2, <2>3, <2>4, <2>5 DEF DriverStep
<1> QED
  BY <1>3, <1>4, <1>5 DEF Next

\* For every geometry and layout, any number of tasks and every set of legal calls of whole words
\* whose reads stay in a page, with a board FIFO that holds more than a page: the driver, the two
\* channels and the device together behave as the flash of FlashSpec.  Every part of a call takes
\* effect at one instant between its start and its end, a read returns what the flash holds at
\* that instant, and a write changes no words but its own and blank ones before them in the page.
THEOREM FlashImplementsSpec == Proper /\ Spec => ImplementsFlash
<1> SUFFICES ASSUME Proper PROVE Spec => ImplementsFlash
  OBVIOUS
<1>1. Init => FlashInv /\ Abstract!Init
  BY MapInit, InitMap
<1>2. FlashInv /\ [Next]_vars => FlashInv'
  BY MapStep
<1>3. FlashInv /\ FlashInv' /\ [Next]_vars => [Abstract!Next]_<<memory, calls, results>>
  BY NextMap
<1> QED
  BY <1>1, <1>2, <1>3, PTL DEF Spec, ImplementsFlash, Abstract!Spec, Abstract!vars
----------------------------------------------------------------------------
(* Setting the flash up: FlashSetup over variables of its own, with the    *)
(* geometry of Flash.                                                      *)

CONSTANTS MaxAddr, MaxRanges, MaxLoads, LoadStarts, LoadSizes

VARIABLES starts, ends, firsts, built, states, pages, failed, loads

Setup == INSTANCE FlashSetup WITH
  PageBytes <- PageWords, rangestart <- starts, rangeend <- ends, secstart <- firsts,
  ready <- built, secs <- states, pgm <- pages

\* A range ends before each of those behind it starts.
LEMMA RangesApart ==
  ASSUME NEW rs, NEW re, Ordered(rs, re), NEW r \in 1..Len(rs), NEW q \in 1..Len(rs), r < q
  PROVE  re[r] < rs[q]
<1> DEFINE n == Len(rs)
           Z == {j \in Nat : r + 1 + j <= n /\ ~(re[r] < rs[r + 1 + j])}
<1>1. n \in Nat
  BY DEF Ordered
<1>2. \A i \in 1..n : rs[i] \in Nat /\ re[i] \in Nat /\ rs[i] < re[i]
  <2> SUFFICES ASSUME NEW i \in 1..n PROVE rs[i] \in Nat /\ re[i] \in Nat /\ rs[i] < re[i]
    OBVIOUS
  <2>1. rs \in Seq(Nat) /\ re \in Seq(Nat) /\ Len(re) = n /\ DOMAIN rs = 1..n
        /\ \A k \in DOMAIN rs : rs[k] < re[k]
    BY DEF Ordered
  <2>2. i \in 1..Len(rs) /\ i \in 1..Len(re) /\ i \in DOMAIN rs
    BY <2>1
  <2>3. rs[i] \in Nat /\ re[i] \in Nat
    BY <2>1, <2>2
  <2> QED
    BY <2>1, <2>2, <2>3
<1>3. \A i \in 1..(n - 1) : re[i] < rs[i + 1]
  BY DEF Ordered
<1> HIDE DEF n
<1>4. Z = {}
  <2> SUFFICES ASSUME Z # {} PROVE FALSE
    OBVIOUS
  <2>1. PICK j \in Z : \A i \in Z : j <= i
    BY LeastNat
  <2>2. j \in Nat /\ r + 1 + j <= n /\ ~(re[r] < rs[r + 1 + j])
    BY <2>1
  <2>3. r \in 1..n /\ r \in Nat
    BY DEF n
  <2>4. j # 0
    <3> SUFFICES ASSUME j = 0 PROVE FALSE
      OBVIOUS
    <3>1. r + 1 + j = r + 1 /\ r \in 1..(n - 1)
      BY <1>1, <2>2, <2>3
    <3> QED
      BY <1>3, <2>2, <3>1
  <2>5. /\ j - 1 \in Nat /\ r + 1 + (j - 1) <= n /\ ~(j <= j - 1)
        /\ r + 1 + (j - 1) = r + j /\ r + j \in 1..n /\ r + j \in 1..(n - 1) /\ (r + j) + 1 = r + 1 + j
        /\ r + 1 + j \in 1..n
    BY <1>1, <2>2, <2>3, <2>4
  <2>6. re[r] < rs[r + j]
    BY <2>1, <2>5
  <2>7. rs[r + j] < re[r + j] /\ re[r + j] < rs[r + 1 + j]
    BY <1>2, <1>3, <2>5
  <2>8. re[r] \in Nat /\ rs[r + j] \in Nat /\ re[r + j] \in Nat /\ rs[r + 1 + j] \in Nat
    BY <1>2, <2>3, <2>5
  <2> QED
    BY <2>2, <2>6, <2>7, <2>8
<1>5. q - r - 1 \in Nat /\ r + 1 + (q - r - 1) = q /\ q <= n
  BY <1>1 DEF n
<1> QED
  BY <1>4, <1>5

\* getrange finds the only range that holds the address, if there is one.
LEMMA RangeFound ==
  ASSUME NEW rs, NEW re, Ordered(rs, re), NEW a \in Nat, NEW r \in 1..Len(rs), rs[r] <= a, a <= re[r]
  PROVE  getrange(rs, re, a) = r
<1> DEFINE stop == {k \in DOMAIN rs : a < rs[k] \/ a <= re[k]}
           m == Min(stop)
<1>1. /\ Len(rs) \in Nat /\ DOMAIN rs = 1..Len(rs)
      /\ \A k \in 1..Len(rs) : rs[k] \in Nat /\ re[k] \in Nat /\ rs[k] < re[k]
  <2>1. rs \in Seq(Nat) /\ re \in Seq(Nat) /\ Len(re) = Len(rs) /\ DOMAIN rs = 1..Len(rs)
        /\ Len(rs) \in Nat /\ \A k \in DOMAIN rs : rs[k] < re[k]
    BY DEF Ordered
  <2>2. ASSUME NEW k \in 1..Len(rs) PROVE rs[k] \in Nat /\ re[k] \in Nat /\ rs[k] < re[k]
    <3>1. k \in 1..Len(rs) /\ k \in 1..Len(re) /\ k \in DOMAIN rs
      BY <2>1
    <3>2. rs[k] \in Nat /\ re[k] \in Nat
      BY <2>1, <3>1
    <3> QED
      BY <2>1, <3>1, <3>2
  <2> QED
    BY <2>1, <2>2
<1>2. r \in stop /\ stop \subseteq 1..Len(rs) /\ stop \subseteq Nat
  BY <1>1
<1>3. m \in stop /\ \A k \in stop : m <= k
  <2> HIDE DEF stop
  <2>1. \E x \in stop : \A y \in stop : x <= y
    BY <1>2, LeastNat
  <2> QED
    BY <2>1 DEF Min
<1>4. getrange(rs, re, a) = IF a < rs[m] THEN 0 ELSE m
  BY <1>2 DEF getrange
<1> HIDE DEF m
<1>5. m \in 1..Len(rs) /\ m <= r /\ (a < rs[m] \/ a <= re[m])
  BY <1>2, <1>3
<1> HIDE DEF stop
<1>6. ~(m < r)
  <2> SUFFICES ASSUME m < r PROVE FALSE
    OBVIOUS
  <2>1. re[m] < rs[r]
    BY <1>5, RangesApart
  <2>2. rs[m] \in Nat /\ re[m] \in Nat /\ rs[m] < re[m] /\ rs[r] \in Nat /\ m \in 1..Len(rs)
    BY <1>1, <1>5
  <2> QED
    BY <1>5, <2>1, <2>2
<1>7. m = r
  BY <1>1, <1>5, <1>6
<1> QED
  BY <1>1, <1>4, <1>7

\* y is x with v put in place at: the elements from there on move up by one.
IsInserted(y, x, at, v) ==
  /\ Len(y) = Len(x) + 1
  /\ \A i \in 1..(Len(x) + 1) : y[i] = IF i < at THEN x[i] ELSE IF i = at THEN v ELSE x[i - 1]

LEMMA InsertFacts ==
  ASSUME NEW S, NEW x \in Seq(S), NEW v \in S, NEW at \in 1..(Len(x) + 1)
  PROVE  Setup!InsertAt(x, at, v) \in Seq(S) /\ IsInserted(Setup!InsertAt(x, at, v), x, at, v)
<1> DEFINE y == Setup!InsertAt(x, at, v)
           n == Len(x)
           p == SubSeq(x, 1, at - 1)
           q == SubSeq(x, at, n)
<1>1. n \in Nat /\ at \in Nat
  OBVIOUS
<1>2. p \in Seq(S) /\ Len(p) = at - 1 /\ \A i \in 1..(at - 1) : p[i] = x[i]
  <2>1. \A i \in 1..(at - 1) : x[i] \in S
    OBVIOUS
  <2> QED
    BY <1>1, <2>1
<1>3. q \in Seq(S) /\ Len(q) = n - at + 1 /\ \A i \in 1..(n - at + 1) : q[i] = x[at + i - 1]
  <2>1. \A i \in at..n : x[i] \in S
    OBVIOUS
  <2> QED
    BY <1>1, <2>1
<1> HIDE DEF p, q
<1> DEFINE u == p \o <<v>>
<1>4. <<v>> \in Seq(S) /\ Len(<<v>>) = 1 /\ <<v>>[1] = v
  OBVIOUS
<1>5. u \in Seq(S) /\ Len(u) = at /\ \A i \in 1..at : u[i] = IF i < at THEN x[i] ELSE v
  <2>1. u \in Seq(S) /\ Len(u) = (at - 1) + 1
    BY <1>1, <1>2, <1>4
  <2>2. ASSUME NEW i \in 1..at PROVE u[i] = IF i < at THEN x[i] ELSE v
    BY <1>1, <1>2, <1>4
  <2> QED
    BY <1>1, <2>1, <2>2
<1> HIDE DEF u
<1>6. y = u \o q
  BY DEF Setup!InsertAt, u, p, q
<1> HIDE DEF y
<1>7. y \in Seq(S) /\ Len(y) = n + 1
  <2>1. u \o q \in Seq(S) /\ Len(u \o q) = Len(u) + Len(q)
    BY <1>3, <1>5, ConcatProperties
  <2>2. y \in Seq(S) /\ Len(y) = at + (n - at + 1)
    BY <1>3, <1>5, <1>6, <2>1
  <2> HIDE DEF n
  <2> QED
    BY <1>1, <2>2
<1>8. ASSUME NEW i \in 1..(n + 1) PROVE y[i] = IF i < at THEN x[i] ELSE IF i = at THEN v ELSE x[i - 1]
  <2>1. CASE i <= at
    <3>1. i \in 1..at /\ y[i] = u[i]
      BY <1>1, <1>3, <1>5, <1>6, <2>1
    <3> QED
      BY <1>1, <1>5, <2>1, <3>1
  <2>2. CASE i > at
    <3>1. i - at \in 1..(n - at + 1) /\ at + (i - at) - 1 = i - 1
      BY <1>1, <2>2
    <3>2. y[i] = q[i - at]
      BY <1>1, <1>3, <1>5, <1>6, <2>2, <3>1
    <3>3. q[i - at] = x[i - 1]
      BY <1>3, <3>1
    <3> QED
      BY <1>1, <2>2, <3>2, <3>3
  <2> QED
    BY <1>1, <2>1, <2>2
<1> QED
  BY <1>7, <1>8 DEF y, n, IsInserted

\* No range overlaps s..e, and the place of s among the ranges.
Fits(rs, re, s, e) ==
  \A r \in DOMAIN rs : ~(s >= rs[r] /\ s <= re[r]) /\ ~(e >= rs[r] /\ e <= re[r])
                       /\ ~(s < rs[r] /\ e > re[r])

Place(rs, s) == Setup!Min({r \in 1..(Len(rs) + 1) : r = Len(rs) + 1 \/ s <= rs[r]})

\* A range that overlaps none, put before the first that starts at it or later, leaves
\* the ranges in order and apart.
LEMMA InsertOrdered ==
  ASSUME NEW S, S \subseteq Nat, NEW rs \in Seq(S), NEW re \in Seq(S), Ordered(rs, re),
         NEW s \in S, NEW e \in S, s < e,
         Fits(rs, re, s, e), NEW at \in Nat, at = Place(rs, s)
  PROVE  /\ Setup!InsertAt(rs, at, s) \in Seq(S) /\ Setup!InsertAt(re, at, e) \in Seq(S)
         /\ Ordered(Setup!InsertAt(rs, at, s), Setup!InsertAt(re, at, e))
<1> DEFINE bs == Setup!InsertAt(rs, at, s)
           be == Setup!InsertAt(re, at, e)
           n == Len(rs)
           later == {r \in 1..(n + 1) : r = n + 1 \/ s <= rs[r]}
<1>1. /\ n \in Nat /\ Len(re) = n /\ DOMAIN rs = 1..n
      /\ \A r \in 1..n : rs[r] \in Nat /\ re[r] \in Nat /\ rs[r] < re[r]
      /\ \A r \in 1..(n - 1) : re[r] < rs[r + 1]
  <2>1. n \in Nat /\ Len(re) = n /\ DOMAIN rs = 1..n /\ (\A r \in DOMAIN rs : rs[r] < re[r])
        /\ \A r \in 1..(n - 1) : re[r] < rs[r + 1]
    BY DEF Ordered
  <2>2. \A r \in 1..n : rs[r] \in S /\ re[r] \in S
    BY <2>1
  <2> QED
    BY <2>1, <2>2
<1>2. at \in later /\ \A r \in later : at <= r
  <2>1. n + 1 \in later /\ later \subseteq Nat
    BY <1>1
  <2> HIDE DEF later
  <2>2. \E x \in later : \A y \in later : x <= y
    BY <2>1, LeastNat
  <2>3. at = Setup!Min(later)
    BY DEF later, Place
  <2> QED
    BY <2>2, <2>3 DEF Setup!Min
<1>3. at \in 1..(n + 1) /\ (at = n + 1 \/ s <= rs[at])
  BY <1>2
<1>4. ASSUME NEW r \in 1..n, r < at PROVE rs[r] < s
  <2>1. r \notin later
    BY <1>1, <1>2, <1>3, <1>4
  <2>2. ~(s <= rs[r]) /\ rs[r] \in Nat /\ s \in Nat
    BY <1>1, <2>1
  <2> QED
    BY <2>2
<1> HIDE DEF later
<1>5. /\ bs \in Seq(S) /\ Len(bs) = n + 1
      /\ \A i \in 1..(n + 1) : bs[i] = IF i < at THEN rs[i] ELSE IF i = at THEN s ELSE rs[i - 1]
  <2>1. at \in 1..(Len(rs) + 1)
    BY <1>3
  <2>2. bs \in Seq(S) /\ IsInserted(bs, rs, at, s)
    BY <2>1, InsertFacts, Zenon
  <2> QED
    BY <2>2 DEF IsInserted
<1>6. /\ be \in Seq(S) /\ Len(be) = n + 1
      /\ \A i \in 1..(n + 1) : be[i] = IF i < at THEN re[i] ELSE IF i = at THEN e ELSE re[i - 1]
  <2>1. at \in 1..(Len(re) + 1) /\ Len(re) = n
    BY <1>1, <1>3
  <2>2. be \in Seq(S) /\ IsInserted(be, re, at, e)
    BY <2>1, InsertFacts, Zenon
  <2> QED
    BY <2>1, <2>2 DEF IsInserted
<1>7. \A r \in 1..n : /\ ~(s >= rs[r] /\ s <= re[r]) /\ ~(e >= rs[r] /\ e <= re[r])
                      /\ ~(s < rs[r] /\ e > re[r])
  BY <1>1 DEF Fits
<1>8. s \in Nat /\ e \in Nat /\ at \in Nat
  BY <1>3
<1> HIDE DEF n, bs, be
<1>9. ASSUME NEW r \in 1..(n + 1) PROVE bs[r] < be[r]
  <2>1. CASE r < at
    <3>1. r \in 1..n /\ bs[r] = rs[r] /\ be[r] = re[r]
      BY <1>1, <1>3, <1>5, <1>6, <2>1
    <3> QED
      BY <1>1, <3>1
  <2>2. CASE r = at
    BY <1>5, <1>6, <2>2
  <2>3. CASE r > at
    <3>0. ~(r < at) /\ ~(r = at) /\ r - 1 \in 1..n
      BY <1>1, <1>3, <1>8, <2>3
    <3>1. bs[r] = rs[r - 1] /\ be[r] = re[r - 1]
      BY <1>5, <1>6, <3>0
    <3> QED
      BY <1>1, <3>0, <3>1
  <2> QED
    BY <1>8, <2>1, <2>2, <2>3
<1>10. ASSUME NEW r \in 1..n PROVE be[r] < bs[r + 1]
  <2>0. r \in 1..(n + 1) /\ r + 1 \in 1..(n + 1) /\ r \in Nat
    BY <1>1
  <2>1. CASE r + 1 < at
    <3>1. r \in 1..(n - 1) /\ be[r] = re[r] /\ bs[r + 1] = rs[r + 1]
      BY <1>1, <1>3, <1>5, <1>6, <2>0, <2>1
    <3> QED
      BY <1>1, <3>1
  <2>2. CASE r + 1 = at
    <3>1. be[r] = re[r] /\ bs[r + 1] = s
      BY <1>5, <1>6, <2>0, <2>2
    <3>0. r < at
      BY <2>0, <2>2
    <3>2. rs[r] < s /\ ~(s >= rs[r] /\ s <= re[r]) /\ rs[r] \in Nat /\ re[r] \in Nat
      BY <1>1, <1>4, <1>7, <3>0
    <3> QED
      BY <1>8, <3>1, <3>2
  <2>3. CASE r = at
    <3>1. be[r] = e /\ bs[r + 1] = rs[r]
      BY <1>5, <1>6, <2>0, <2>3
    <3>2. s <= rs[r] /\ rs[r] \in Nat /\ re[r] \in Nat /\ rs[r] < re[r]
      BY <1>1, <1>3, <2>0, <2>3
    <3> QED
      BY <1>7, <1>8, <3>1, <3>2
  <2>4. CASE r > at
    <3>0. /\ ~(r < at) /\ ~(r = at) /\ ~(r + 1 < at) /\ ~(r + 1 = at) /\ (r + 1) - 1 = r
          /\ r - 1 \in 1..(n - 1) /\ (r - 1) + 1 = r
      <4>1. at >= 1 /\ at \in Nat /\ r <= n /\ r \in Nat /\ n \in Nat
        BY <1>1, <1>3, <1>8, <2>0
      <4> QED
        BY <4>1, <2>4
    <3>1. be[r] = re[r - 1]
      BY <1>6, <2>0, <3>0
    <3>2. bs[r + 1] = rs[r]
      BY <1>5, <2>0, <3>0
    <3> QED
      BY <1>1, <3>0, <3>1, <3>2
  <2> QED
    BY <1>8, <2>0, <2>1, <2>2, <2>3, <2>4
<1>11. bs \in Seq(Nat) /\ be \in Seq(Nat) /\ DOMAIN bs = 1..(n + 1) /\ Len(bs) - 1 = n
  <2>1. Seq(S) \subseteq Seq(Nat)
    <3> SUFFICES ASSUME NEW x \in Seq(S) PROVE x \in Seq(Nat)
      OBVIOUS
    <3>1. Len(x) \in Nat /\ x = [i \in 1..Len(x) |-> x[i]] /\ \A i \in 1..Len(x) : x[i] \in Nat
      OBVIOUS
    <3> QED
      BY <3>1
  <2>2. bs \in Seq(Nat) /\ be \in Seq(Nat) /\ Len(bs) = n + 1
    BY <1>5, <1>6, <2>1
  <2> QED
    BY <1>1, <2>2
<1> QED
  BY <1>5, <1>6, <1>9, <1>10, <1>11 DEF Ordered, bs, be

\* The instance's geometry is the one of the lemmas above.
LEMMA SetupGeometry ==
  /\ Setup!SecWords = SecWords
  /\ \A rs, re, a : Setup!getrange(rs, re, a) = getrange(rs, re, a)
  /\ \A rs, re : Setup!SecStart(rs, re) = SecStart(rs, re)
<1>1. Setup!SecWords = SecWords
  BY DEF Setup!SecWords, SecWords
<1>2. ASSUME NEW rs, NEW re, NEW a PROVE Setup!getrange(rs, re, a) = getrange(rs, re, a)
  BY DEF Setup!getrange, getrange, Setup!Min, Min
<1>3. ASSUME NEW rs, NEW re PROVE Setup!SecStart(rs, re) = SecStart(rs, re)
  BY <1>1, Zenon DEF Setup!SecStart, SecStart
<1> QED
  BY <1>1, <1>2, <1>3

\* The arrays are the size that rangeinit gives them.
Built ==
  LET n == SecStart(starts, ends)[Len(starts) + 1]
  IN  /\ firsts = SecStart(starts, ends)
      /\ DOMAIN states = 0..(n - 1)
      /\ DOMAIN pages = 0..(n * SecPages - 1)

SetupInv ==
  /\ starts \in Seq(Setup!Addrs) /\ ends \in Seq(Setup!Addrs)
  /\ Ordered(starts, ends)
  /\ built => Built

LEMMA SetupInit == Setup!Init => SetupInv
<1> SUFFICES ASSUME Setup!Init PROVE SetupInv
  OBVIOUS
<1>1. starts = <<>> /\ ends = <<>> /\ built = FALSE
  BY DEF Setup!Init
<1>2. Ordered(<<>>, <<>>) /\ <<>> \in Seq(Setup!Addrs)
  BY DEF Ordered
<1> QED
  BY <1>1, <1>2 DEF SetupInv

\* addrange keeps the ranges in order.
LEMMA SetupAddrange ==
  ASSUME Setup!BoundsAssumption, SetupInv, NEW s \in Setup!Addrs, NEW e \in Setup!Addrs,
         Setup!addrange(s, e)
  PROVE  SetupInv'
<1> DEFINE n == Len(starts) + 1
           later == {r \in 1..n : r = n \/ s <= starts[r]}
           at == Place(starts, s)
<1>1. CASE Setup!Fail
  <2>1. starts' = starts /\ ends' = ends /\ firsts' = firsts /\ built' = built /\ states' = states
        /\ pages' = pages
    BY <1>1 DEF Setup!Fail, Setup!layout
  <2> QED
    BY <2>1, Zenon DEF SetupInv, Built
<1>2. CASE ~Setup!Fail
  <2>1. /\ ~built /\ e > s /\ \A r \in DOMAIN starts : ~Setup!Overlaps(s, e, r)
        /\ starts' = Setup!InsertAt(starts, at, s)
        /\ ends' = Setup!InsertAt(ends, at, e)
        /\ built' = built
    BY <1>2, Zenon DEF Setup!addrange, Place
  <2>2. Setup!Addrs \subseteq Nat
    BY DEF Setup!Addrs, Setup!BoundsAssumption
  <2>3. at \in Nat
    <3>1. n \in later /\ later \subseteq Nat
      BY DEF SetupInv
    <3> HIDE DEF later
    <3>2. \E x \in later : \A y \in later : x <= y
      BY <3>1, LeastNat
    <3>3. at = Setup!Min(later)
      BY DEF Place, later
    <3> QED
      BY <3>1, <3>2, <3>3 DEF Setup!Min
  <2>4. Fits(starts, ends, s, e)
    BY <2>1, Zenon DEF Setup!Overlaps, Fits
  <2>5. at = Place(starts, s)
    OBVIOUS
  <2>6. starts \in Seq(Setup!Addrs) /\ ends \in Seq(Setup!Addrs) /\ Ordered(starts, ends) /\ s < e
    BY <2>1, <2>2 DEF SetupInv
  <2> HIDE DEF at
  <2>7. /\ Setup!InsertAt(starts, at, s) \in Seq(Setup!Addrs)
        /\ Setup!InsertAt(ends, at, e) \in Seq(Setup!Addrs)
        /\ Ordered(Setup!InsertAt(starts, at, s), Setup!InsertAt(ends, at, e))
    BY <2>2, <2>3, <2>4, <2>5, <2>6, InsertOrdered, Zenon
  <2>8. starts' \in Seq(Setup!Addrs) /\ ends' \in Seq(Setup!Addrs) /\ Ordered(starts', ends') /\ ~built'
    BY <2>1, <2>7, Zenon
  <2> QED
    BY <2>8, Zenon DEF SetupInv, Ordered, Setup!Addrs
<1> QED
  BY <1>1, <1>2

LEMMA SetupRangeinit == ASSUME SetupInv, Setup!rangeinit PROVE SetupInv'
<1>1. CASE Setup!Fail
  <2>1. starts' = starts /\ ends' = ends /\ firsts' = firsts /\ built' = built /\ states' = states
        /\ pages' = pages
    BY <1>1 DEF Setup!Fail, Setup!layout
  <2> QED
    BY <2>1, Zenon DEF SetupInv, Built
<1>2. CASE ~Setup!Fail
  <2> DEFINE n == SecStart(starts, ends)[Len(starts) + 1]
  <2>1. Setup!SecStart(starts, ends) = SecStart(starts, ends)
    BY SetupGeometry
  <2>2. /\ firsts' = SecStart(starts, ends)
        /\ states' = [s \in 0..(n - 1) |-> "UNK"]
        /\ pages' = [p \in 0..(n * SecPages - 1) |-> <<>>]
        /\ starts' = starts /\ ends' = ends
    BY <1>2, <2>1, Zenon DEF Setup!rangeinit
  <2>3. DOMAIN states' = 0..(n - 1) /\ DOMAIN pages' = 0..(n * SecPages - 1)
    BY <2>2, Zenon
  <2>4. Built'
    BY <2>2, <2>3, Zenon DEF Built
  <2> QED
    BY <2>2, <2>4, Zenon DEF SetupInv
<1> QED
  BY <1>1, <1>2

\* preerase and preload change what the arrays hold and not their size.
LEMMA SetupLoads ==
  ASSUME SetupInv,
         (\E a \in LoadStarts, e \in Setup!Addrs : Setup!preerase(a, e))
         \/ (\E a \in LoadStarts, k \in LoadSizes : Setup!preload(a, k))
  PROVE  SetupInv'
<1> DEFINE Same == /\ starts' = starts /\ ends' = ends /\ firsts' = firsts /\ built' = built
                   /\ DOMAIN states' = DOMAIN states /\ DOMAIN pages' = DOMAIN pages
<1>1. Same
  <2>1. CASE Setup!Fail
    BY <2>1 DEF Setup!Fail, Setup!layout
  <2>2. ASSUME ~Setup!Fail, NEW a \in LoadStarts, NEW e \in Setup!Addrs, Setup!preerase(a, e)
        PROVE  Same
    <3>1. /\ starts' = starts /\ ends' = ends /\ firsts' = firsts /\ built' = built /\ pages' = pages
          /\ DOMAIN states' = DOMAIN states
      BY <2>2 DEF Setup!preerase, Setup!layout
    <3> QED
      BY <3>1
  <2>3. ASSUME ~Setup!Fail, NEW a \in LoadStarts, NEW k \in LoadSizes, Setup!preload(a, k)
        PROVE  Same
    <3>1. /\ starts' = starts /\ ends' = ends /\ firsts' = firsts /\ built' = built
          /\ DOMAIN pages' = DOMAIN pages /\ DOMAIN states' = DOMAIN states
      BY <2>3 DEF Setup!preload, Setup!layout
    <3> QED
      BY <3>1
  <2> QED
    BY <2>1, <2>2, <2>3
<1> QED
  BY <1>1, Zenon DEF SetupInv, Built

LEMMA SetupStep == Setup!BoundsAssumption /\ SetupInv /\ [Setup!Next]_(Setup!vars) => SetupInv'
<1> SUFFICES ASSUME Setup!BoundsAssumption, SetupInv, [Setup!Next]_(Setup!vars) PROVE SetupInv'
  OBVIOUS
<1>1. CASE UNCHANGED Setup!vars
  <2>1. starts' = starts /\ ends' = ends /\ firsts' = firsts /\ built' = built /\ states' = states
        /\ pages' = pages
    BY <1>1 DEF Setup!vars, Setup!layout
  <2> QED
    BY <2>1, Zenon DEF SetupInv, Built
<1>2. ASSUME NEW s \in Setup!Addrs, NEW e \in Setup!Addrs, Setup!addrange(s, e) PROVE SetupInv'
  BY <1>2, SetupAddrange
<1>3. CASE Setup!rangeinit
  BY <1>3, SetupRangeinit
<1>4. CASE \/ \E a \in LoadStarts, e \in Setup!Addrs : Setup!preerase(a, e)
           \/ \E a \in LoadStarts, k \in LoadSizes : Setup!preload(a, k)
  BY <1>4, SetupLoads
<1> QED
  BY <1>1, <1>2, <1>3, <1>4, Zenon DEF Setup!Next

\* getrange is right in every layout that addrange can build.
LEMMA RangesAreRight == ASSUME Setup!BoundsAssumption, SetupInv PROVE Setup!RangesRight
<1>1. Ordered(starts, ends)
  BY DEF SetupInv
<1>2. Setup!LayoutOrdered
  BY <1>1 DEF Setup!LayoutOrdered, Ordered
<1>3. ASSUME NEW a \in Setup!Addrs
      PROVE  {r \in DOMAIN starts : a \in starts[r]..ends[r]}
               = IF Setup!rangeof(a) = 0 THEN {} ELSE {Setup!rangeof(a)}
  <2>1. a \in Nat /\ Setup!rangeof(a) = getrange(starts, ends, a)
    BY SetupGeometry DEF Setup!rangeof, Setup!Addrs, Setup!BoundsAssumption
  <2>2. DOMAIN starts = 1..Len(starts) /\ \A r \in 1..Len(starts) : starts[r] \in Nat /\ ends[r] \in Nat
    BY <1>1 DEF Ordered
  <2>3. ASSUME NEW r \in DOMAIN starts, a \in starts[r]..ends[r] PROVE getrange(starts, ends, a) = r
    <3>1. r \in 1..Len(starts) /\ starts[r] <= a /\ a <= ends[r]
      BY <2>1, <2>2, <2>3
    <3> QED
      BY <1>1, <2>1, <3>1, RangeFound
  <2>4. ASSUME getrange(starts, ends, a) # 0
        PROVE  getrange(starts, ends, a) \in DOMAIN starts
               /\ a \in starts[getrange(starts, ends, a)]..ends[getrange(starts, ends, a)]
    <3>1. /\ getrange(starts, ends, a) \in 1..Len(starts)
          /\ starts[getrange(starts, ends, a)] \in Nat /\ ends[getrange(starts, ends, a)] \in Nat
          /\ starts[getrange(starts, ends, a)] <= a /\ a <= ends[getrange(starts, ends, a)]
      BY <1>1, <2>1, <2>4, RangeHolds
    <3> QED
      BY <2>1, <2>2, <3>1
  <2>5. CASE getrange(starts, ends, a) = 0
    <3>1. \A r \in DOMAIN starts : r # 0
      BY <2>2
    <3> QED
      BY <2>1, <2>3, <2>5, <3>1
  <2>6. CASE getrange(starts, ends, a) # 0
    BY <2>1, <2>3, <2>4, <2>6
  <2> QED
    BY <2>5, <2>6
<1>4. Setup!GetRangeCorrect
  BY <1>3, Zenon DEF Setup!GetRangeCorrect
<1> QED
  BY <1>2, <1>4 DEF Setup!RangesRight

\* RangesRight: whatever ranges addrange is called with and in whatever order, the ranges
\* are in order and apart and getrange finds the one an address is in.
THEOREM RangesStayRight == Setup!BoundsAssumption /\ Setup!Spec => []Setup!RangesRight
<1> SUFFICES ASSUME Setup!BoundsAssumption PROVE Setup!Spec => []Setup!RangesRight
  OBVIOUS
<1>1. Setup!Init => SetupInv
  BY SetupInit
<1>2. SetupInv /\ [Setup!Next]_(Setup!vars) => SetupInv'
  BY SetupStep
<1>3. SetupInv => Setup!RangesRight
  BY RangesAreRight
<1> QED
  BY <1>1, <1>2, <1>3, PTL DEF Setup!Spec

\* Every range is whole sectors.
Whole(rs, re) == \A r \in 1..Len(rs) : (re[r] + 1 - rs[r]) % SecWords = 0

\* The sector and the page of an address are among those of its range.
LEMMA InRange ==
  ASSUME NEW rs, NEW re, Ordered(rs, re), Whole(rs, re), NEW r \in 1..Len(rs),
         NEW a \in Nat, rs[r] <= a, a <= re[r]
  PROVE  /\ rs[r] \in Nat /\ SecStart(rs, re)[r] \in Nat /\ SecStart(rs, re)[r + 1] \in Nat
         /\ SECADDR(rs, SecStart(rs, re), r, a) \in Nat
         /\ SECADDR(rs, SecStart(rs, re), r, a) < SecStart(rs, re)[r + 1]
         /\ PAGEADDR(rs, SecStart(rs, re), r, a) \in Nat
         /\ PAGEADDR(rs, SecStart(rs, re), r, a) >= SecStart(rs, re)[r] * SecPages
         /\ PAGEADDR(rs, SecStart(rs, re), r, a) < SecStart(rs, re)[r + 1] * SecPages
<1> DEFINE ss == SecStart(rs, re)
           off == a - rs[r]
           size == re[r] + 1 - rs[r]
<1>1. rs[r] \in Nat /\ re[r] \in Nat /\ Len(rs) \in Nat
  BY DEF Ordered
<1>2. off \in Nat /\ size \in Nat /\ off < size
  BY <1>1
<1>3. size % SecWords = 0
  BY DEF Whole
<1>4. ss[r] \in Nat /\ ss[r + 1] \in Nat /\ ss[r + 1] = ss[r] + size \div SecWords
  <2>1. r \in 1..(Len(rs) + 1) /\ r + 1 \in 1..(Len(rs) + 1)
    BY <1>1
  <2>2. \A q \in 1..(Len(rs) + 1) : ss[q] \in Nat
    BY SecNumbers
  <2>3. ss[r + 1] = ss[r] + size \div SecWords
    BY <1>1, SecStartFacts
  <2> QED
    BY <2>1, <2>2, <2>3
<1>5. PageWords \in Nat \ {0} /\ SecPages \in Nat \ {0} /\ SecWords \in Nat \ {0}
  BY GeomAssumption DEF SecWords
<1>6. SECADDR(rs, ss, r, a) = ss[r] + off \div SecWords
      /\ PAGEADDR(rs, ss, r, a) = ss[r] * SecPages + off \div PageWords
  BY DEF SECADDR, PAGEADDR
<1> DEFINE so == off \div SecWords
           sz == size \div SecWords
           po == off \div PageWords
           pz == size \div PageWords
<1>7. so \in Nat /\ sz \in Nat /\ po \in Nat /\ pz \in Nat
  BY <1>2, <1>5, DivFacts
<1>8. so < sz /\ pz = sz * SecPages /\ size % PageWords = 0
  <2>1. so < sz
    <3>1. 0 % SecWords = 0 /\ 0 \in Nat /\ 0 <= size /\ size - 0 = size
      BY <1>2, <1>5
    <3> HIDE DEF off, size
    <3> QED
      BY <1>2, <1>3, <1>5, <3>1, WholeParts
  <2>2. pz = sz * SecPages
    BY <1>2, <1>3, PagesToSectors
  <2>3. size = SecWords * sz
    <3>1. size = SecWords * sz + (size % SecWords)
      BY <1>2, <1>5, DivFacts
    <3>2. SecWords * sz \in Nat
      BY <1>5, <1>7
    <3> HIDE DEF off, size, sz
    <3> QED
      BY <1>3, <3>1, <3>2
  <2> HIDE DEF size, sz, pz
  <2>4. size = PageWords * (SecPages * sz)
    BY <1>5, <1>7, <2>3 DEF SecWords
  <2>5. SecPages * sz \in Nat
    BY <1>5, <1>7
  <2>6. size % PageWords = 0
    <3> DEFINE q == SecPages * sz
    <3>1. q \in Nat /\ size = PageWords * q + 0 /\ 0 < PageWords
      BY <1>5, <2>4, <2>5
    <3> HIDE DEF q
    <3> QED
      BY <1>2, <1>5, <3>1, DivUnique
  <2> QED
    BY <2>1, <2>2, <2>6 DEF size, sz
<1>9. po < pz
  <2>1. 0 % PageWords = 0 /\ 0 \in Nat /\ 0 <= size /\ size - 0 = size
    BY <1>2, <1>5
  <2> HIDE DEF off, size
  <2> QED
    BY <1>2, <1>5, <1>8, <2>1, WholeParts
<1> HIDE DEF ss, off, size, so, sz, po, pz
<1> DEFINE f == ss[r]
           l == ss[r + 1]
<1>10. f \in Nat /\ l \in Nat /\ l = f + sz
  BY <1>4 DEF sz
<1>11. SECADDR(rs, ss, r, a) = f + so /\ PAGEADDR(rs, ss, r, a) = f * SecPages + po
  BY <1>6 DEF so, po
<1> HIDE DEF f, l
<1>12. l * SecPages = f * SecPages + pz /\ f * SecPages \in Nat
  BY <1>5, <1>7, <1>8, <1>10
<1> DEFINE fp == f * SecPages
           lp == l * SecPages
<1>13. fp \in Nat /\ lp = fp + pz /\ PAGEADDR(rs, ss, r, a) = fp + po
  BY <1>11, <1>12
<1> HIDE DEF fp, lp
<1>14. f + so \in Nat /\ f + so < l /\ fp + po \in Nat /\ fp + po >= fp /\ fp + po < lp
  BY <1>7, <1>8, <1>9, <1>10, <1>13
<1>15. /\ f \in Nat /\ l \in Nat /\ rs[r] \in Nat
       /\ SECADDR(rs, ss, r, a) \in Nat /\ SECADDR(rs, ss, r, a) < l
       /\ PAGEADDR(rs, ss, r, a) \in Nat /\ PAGEADDR(rs, ss, r, a) >= fp /\ PAGEADDR(rs, ss, r, a) < lp
  BY <1>1, <1>10, <1>11, <1>13, <1>14
<1> QED
  BY <1>15 DEF f, l, fp, lp, ss

\* Two addresses that share a page are in one range and less than a page apart.
LEMMA PageApart ==
  ASSUME NEW rs, NEW re, Ordered(rs, re), Whole(rs, re), NEW r \in 1..Len(rs), NEW q \in 1..Len(rs),
         NEW a \in Nat, rs[r] <= a, a <= re[r], NEW b \in Nat, rs[q] <= b, b <= re[q],
         PAGEADDR(rs, SecStart(rs, re), r, a) = PAGEADDR(rs, SecStart(rs, re), q, b)
  PROVE  r = q /\ a - b < PageWords /\ b - a < PageWords
<1> DEFINE ss == SecStart(rs, re)
<1>1. SecPages \in Nat \ {0} /\ PageWords \in Nat \ {0} /\ r \in Nat /\ q \in Nat
  BY GeomAssumption
<1>2. ASSUME NEW i \in 1..Len(rs), NEW j \in 1..Len(rs), i < j,
             NEW x \in Nat, NEW y \in Nat, rs[i] <= x, x <= re[i], rs[j] <= y, y <= re[j]
      PROVE  PAGEADDR(rs, ss, i, x) # PAGEADDR(rs, ss, j, y)
  <2> DEFINE m == ss[i + 1]
             k == ss[j]
             p == PAGEADDR(rs, ss, i, x)
             o == PAGEADDR(rs, ss, j, y)
  <2>1. m \in Nat /\ p \in Nat /\ p < m * SecPages
    BY <1>2, InRange
  <2>2. k \in Nat /\ o \in Nat /\ o >= k * SecPages
    BY <1>2, InRange
  <2>3. m <= k
    BY <1>2, SecAfter
  <2> HIDE DEF m, k, p, o, ss
  <2>4. m * SecPages <= k * SecPages
    <3>1. PICK d \in Nat : k = m + d
      <4>1. k - m \in Nat /\ k = m + (k - m)
        BY <2>1, <2>2, <2>3
      <4> QED
        BY <4>1
    <3>2. k * SecPages = m * SecPages + d * SecPages /\ d * SecPages \in Nat /\ m * SecPages \in Nat
      BY <1>1, <2>1, <3>1
    <3> QED
      BY <3>2
  <2>5. m * SecPages \in Nat /\ k * SecPages \in Nat
    BY <1>1, <2>1, <2>2
  <2> DEFINE mp == m * SecPages
             kp == k * SecPages
  <2>6. mp \in Nat /\ kp \in Nat /\ p < mp /\ mp <= kp /\ o >= kp
    BY <2>1, <2>2, <2>4, <2>5
  <2> HIDE DEF mp, kp
  <2>7. p # o
    BY <2>1, <2>2, <2>6
  <2> QED
    BY <2>7 DEF p, o
<1>3. ~(r < q) /\ ~(q < r)
  BY <1>2
<1>4. r = q
  BY <1>1, <1>3
<1>5. ss[r] * SecPages + (a - rs[r]) \div PageWords = ss[r] * SecPages + (b - rs[r]) \div PageWords
  BY <1>4 DEF PAGEADDR
<1>6. rs[r] \in Nat /\ ss[r] \in Nat
  BY InRange
<1> DEFINE x == a - rs[r]
           y == b - rs[r]
           c == ss[r] * SecPages
           dx == x \div PageWords
           dy == y \div PageWords
           px == PageWords * dx
           py == PageWords * dy
           mx == x % PageWords
           my == y % PageWords
<1>7. x \in Nat /\ y \in Nat /\ a - b = x - y
  BY <1>4, <1>6
<1>8. c \in Nat
  BY <1>1, <1>6
<1>9. /\ dx \in Nat /\ px \in Nat /\ mx \in Nat /\ mx < PageWords /\ x = px + mx
      /\ dy \in Nat /\ py \in Nat /\ my \in Nat /\ my < PageWords /\ y = py + my
  <2> HIDE DEF x, y
  <2> QED
    BY <1>1, <1>7, DivFacts
<1>10. c + dx = c + dy
  BY <1>5
<1> HIDE DEF ss, c, dx, dy, mx, my, x, y
<1>11. dx = dy
  BY <1>8, <1>9, <1>10
<1>12. px = py
  BY <1>11
<1> HIDE DEF px, py
<1>13. a - b = x - y /\ b - a = y - x
  BY <1>6, <1>7
<1> QED
  BY <1>1, <1>4, <1>7, <1>9, <1>12, <1>13

\* No two places share a page.
LEMMA PagesAreDistinct == ASSUME Setup!BoundsAssumption, SetupInv PROVE Setup!PagesDistinct
<1> SUFFICES ASSUME built, Setup!WholeSectors PROVE Setup!PagesDistinct
  BY DEF Setup!PagesDistinct
<1> DEFINE legal == {a \in Setup!Addrs : Setup!rangeof(a) # 0}
           ss == SecStart(starts, ends)
           n == ss[Len(starts) + 1]
<1>1. Ordered(starts, ends) /\ firsts = ss /\ DOMAIN states = 0..(n - 1)
      /\ DOMAIN pages = 0..(n * SecPages - 1)
  BY DEF SetupInv, Built
<1>2. DOMAIN starts = 1..Len(starts) /\ Len(starts) \in Nat
  BY <1>1 DEF Ordered
<1>3. Whole(starts, ends)
  BY <1>2, SetupGeometry DEF Setup!WholeSectors, Whole
<1>4. Setup!Addrs \subseteq Nat
  BY DEF Setup!Addrs, Setup!BoundsAssumption
<1>5. ASSUME NEW a \in legal
      PROVE  /\ a \in Nat /\ Setup!rangeof(a) \in 1..Len(starts)
             /\ starts[Setup!rangeof(a)] <= a /\ a <= ends[Setup!rangeof(a)]
             /\ Setup!sectorof(a) = SECADDR(starts, ss, Setup!rangeof(a), a)
             /\ Setup!pageof(a) = PAGEADDR(starts, ss, Setup!rangeof(a), a)
  <2>1. a \in Nat /\ Setup!rangeof(a) = getrange(starts, ends, a) /\ Setup!rangeof(a) # 0
    BY <1>4, SetupGeometry DEF Setup!rangeof
  <2>2. getrange(starts, ends, a) \in 1..Len(starts) /\ starts[getrange(starts, ends, a)] <= a
        /\ a <= ends[getrange(starts, ends, a)]
    BY <1>1, <2>1, RangeHolds
  <2>3. Setup!sectorof(a) = SECADDR(starts, ss, Setup!rangeof(a), a)
    BY <1>1, SetupGeometry DEF Setup!sectorof, Setup!SECADDR, SECADDR
  <2>4. Setup!pageof(a) = PAGEADDR(starts, ss, Setup!rangeof(a), a)
    BY <1>1 DEF Setup!pageof, Setup!PAGEADDR, PAGEADDR
  <2> QED
    BY <2>1, <2>2, <2>3, <2>4
<1> HIDE DEF legal
<1>6. ASSUME NEW a \in legal PROVE Setup!sectorof(a) \in DOMAIN states /\ Setup!pageof(a) \in DOMAIN pages
  <2> DEFINE r == Setup!rangeof(a)
             l == ss[r + 1]
             s == SECADDR(starts, ss, r, a)
             p == PAGEADDR(starts, ss, r, a)
  <2>1. a \in Nat /\ r \in 1..Len(starts) /\ starts[r] <= a /\ a <= ends[r]
        /\ Setup!sectorof(a) = s /\ Setup!pageof(a) = p
    BY <1>5
  <2> HIDE DEF r
  <2>2. l \in Nat /\ s \in Nat /\ s < l /\ p \in Nat /\ p < l * SecPages
    BY <1>1, <1>3, <2>1, InRange
  <2>3. l <= n /\ n \in Nat
    <3>1. Len(starts) + 1 \in 1..(Len(starts) + 1)
      BY <1>2
    <3> QED
      BY <1>1, <2>1, <3>1, SecNumbers
  <2> HIDE DEF l, s, p, n, ss
  <2>4. SecPages \in Nat \ {0}
    BY GeomAssumption
  <2>5. l * SecPages <= n * SecPages /\ l * SecPages \in Nat /\ n * SecPages \in Nat
    <3>1. PICK d \in Nat : n = l + d
      <4>1. n - l \in Nat /\ n = l + (n - l)
        BY <2>2, <2>3
      <4> QED
        BY <4>1
    <3>2. n * SecPages = l * SecPages + d * SecPages /\ d * SecPages \in Nat /\ l * SecPages \in Nat
      BY <2>2, <2>4, <3>1
    <3> QED
      BY <3>2
  <2> DEFINE lp == l * SecPages
             np == n * SecPages
  <2>6. lp <= np /\ lp \in Nat /\ np \in Nat /\ p < lp /\ DOMAIN pages = 0..(np - 1)
    BY <1>1, <2>2, <2>5
  <2> HIDE DEF lp, np
  <2>7. s \in 0..(n - 1) /\ p \in 0..(np - 1)
    BY <2>2, <2>3, <2>6
  <2> QED
    BY <1>1, <2>1, <2>6, <2>7
<1>7. ASSUME NEW a \in legal, NEW b \in legal, Setup!pageof(a) = Setup!pageof(b)
      PROVE  Setup!rangeof(a) = Setup!rangeof(b) /\ a - b < PageWords /\ b - a < PageWords
  BY <1>1, <1>3, <1>5, <1>7, PageApart
<1> QED
  BY <1>6, <1>7, Zenon DEF Setup!PagesDistinct, legal

\* PagesDistinct: in every layout of whole sectors, every sector and page index is inside
\* the arrays of rangeinit, and addresses share a page only within one range.
THEOREM PagesStayDistinct == Setup!BoundsAssumption /\ Setup!Spec => []Setup!PagesDistinct
<1> SUFFICES ASSUME Setup!BoundsAssumption PROVE Setup!Spec => []Setup!PagesDistinct
  OBVIOUS
<1>1. Setup!Init => SetupInv
  BY SetupInit
<1>2. SetupInv /\ [Setup!Next]_(Setup!vars) => SetupInv'
  BY SetupStep
<1>3. SetupInv => Setup!PagesDistinct
  BY PagesAreDistinct
<1> QED
  BY <1>1, <1>2, <1>3, PTL DEF Setup!Spec

\* Dividing a sum whose first part is whole.
LEMMA DivWhole ==
  ASSUME NEW d \in Nat \ {0}, NEW x \in Nat, x % d = 0, NEW y \in Nat
  PROVE  (x + y) \div d = x \div d + y \div d /\ (x + y) % d = y % d
<1> DEFINE p == x \div d
           q == y \div d
           v == y % d
<1>1. p \in Nat /\ x = d * p /\ q \in Nat /\ v \in Nat /\ v < d /\ y = d * q + v
  <2>1. p \in Nat /\ d * p \in Nat /\ x = d * p + (x % d)
    BY DivFacts
  <2>2. q \in Nat /\ v \in Nat /\ v < d /\ y = d * q + v
    BY DivFacts
  <2> HIDE DEF p, q, v
  <2> QED
    BY <2>1, <2>2
<1> HIDE DEF p, q, v
<1>2. x + y = d * (p + q) + v
  BY <1>1
<1>3. p + q \in Nat
  BY <1>1
<1> DEFINE s == p + q
           xy == x + y
<1>4. xy \in Nat /\ s \in Nat /\ xy = d * s + v
  BY <1>2, <1>3
<1> HIDE DEF s, xy
<1>5. xy \div d = s /\ xy % d = v
  BY <1>1, <1>4, DivUnique
<1> QED
  BY <1>5 DEF s, xy, p, q, v

\* The k-th word of a load of n bytes, off bytes on: it is in the load, the turns before its
\* own have taken the words before its page, and its turn, which ends at e, copies it.
WordPlaced(P, W, n, k, off) ==
  /\ off <= n - 1
  /\ (off % P) \div W + 1 \in Nat
  /\ (off \div P) * ((P - 1 + W - 1) \div W) + ((off % P) \div W + 1) = k
  /\ \A e \in Nat :
       e = P - 1 \/ e = n - 1 - P * (off \div P) =>
         /\ e > 0 /\ (off % P) \div W <= e
         /\ (off % P) \div W + 1 <= (e + W - 1) \div W

\* Every word of a load that starts with a page is placed.
LEMMA LoadWord ==
  ASSUME NEW P \in Nat \ {0}, NEW W \in Nat, W > 1, P % W = 0,
         NEW n \in Nat \ {0}, n % W # 1, NEW k \in Nat \ {0}, k <= (n + W - 1) \div W,
         NEW off \in Nat, off = (k - 1) * W
  PROVE  WordPlaced(P, W, n, k, off)
<1> DEFINE c == P \div W
           i == off \div P
           m == off % P
           h == k - 1
           j == h - c * i
<1>1. c \in Nat /\ P = W * c /\ c # 0
  <2>1. c \in Nat /\ W * c \in Nat /\ P = W * c + (P % W)
    BY DivFacts
  <2> HIDE DEF c
  <2> QED
    BY <2>1
<1>2. i \in Nat /\ m \in Nat /\ m < P /\ P * i \in Nat /\ off = P * i + m
  BY DivFacts
<1>3. h \in Nat /\ off = h * W
  OBVIOUS
<1>4. off <= n - 1
  <2> DEFINE b == (n + W - 1) \div W
             v == (n + W - 1) % W
  <2>1. n + W - 1 \in Nat /\ W \in Nat \ {0}
    OBVIOUS
  <2>2. b \in Nat /\ v \in Nat /\ n + W - 1 = W * b + v
    <3> DEFINE x == n + W - 1
    <3>1. x \in Nat
      BY <2>1
    <3> HIDE DEF x
    <3>2. x \div W \in Nat /\ x % W \in Nat /\ x = W * (x \div W) + (x % W)
      BY <2>1, <3>1, DivFacts
    <3> QED
      BY <3>2 DEF x
  <2>3. k <= b
    OBVIOUS
  <2> HIDE DEF b, v
  <2>4. PICK g \in Nat : b = k + g
    <3>1. b - k \in Nat /\ b = k + (b - k)
      BY <2>2, <2>3
    <3> QED
      BY <3>1
  <2>5. W * b = h * W + W + W * g /\ W * g \in Nat
    BY <1>3, <2>4
  <2> QED
    BY <1>3, <2>2, <2>5
<1> HIDE DEF c, i, m
<1>5. c * i \in Nat /\ m = W * j /\ j \in Int
  <2>1. P * i = W * (c * i)
    BY <1>1, <1>2
  <2>2. c * i \in Nat
    BY <1>1, <1>2
  <2> DEFINE ci == c * i
  <2>3. ci \in Nat /\ off = W * ci + m /\ off = h * W /\ j = h - ci
    BY <1>2, <1>3, <2>1, <2>2
  <2> HIDE DEF ci, h
  <2>4. m = W * (h - ci)
    BY <1>2, <1>3, <2>3
  <2> QED
    BY <1>3, <2>2, <2>3, <2>4
<1>6. j \in Nat
  <2> SUFFICES ASSUME ~(j \in Nat) PROVE FALSE
    OBVIOUS
  <2> HIDE DEF j
  <2>1. PICK g \in Nat : j = -1 - g
    <3>1. -1 - j \in Nat /\ j = -1 - (-1 - j)
      BY <1>5
    <3> QED
      BY <3>1
  <2>2. W * j = -W - W * g /\ W * g \in Nat
    BY <2>1
  <2> QED
    BY <1>2, <1>5, <2>2
<1>7. c * i + j + 1 = k
  BY <1>5
<1> HIDE DEF j
<1>8. m \div W = j
  <2>1. m = W * j + 0 /\ 0 < W /\ W \in Nat \ {0}
    BY <1>2, <1>5
  <2> QED
    BY <1>2, <1>6, <2>1, DivUnique
<1>9. (P - 1 + W - 1) \div W = c
  <2> DEFINE x == P - 1 + W - 1
             v == W - 2
  <2>1. x \in Nat /\ v \in Nat /\ v < W /\ x = W * c + v /\ W \in Nat \ {0}
    BY <1>1
  <2> HIDE DEF x, v
  <2>2. x \div W = c
    BY <1>1, <2>1, DivUnique
  <2> QED
    BY <2>2 DEF x
<1>10. i * c + (j + 1) = k
  BY <1>1, <1>2, <1>5, <1>6, <1>7
<1>11. ASSUME NEW e \in Nat, e = P - 1 \/ e = n - 1 - P * i
       PROVE  e > 0 /\ j <= e /\ j + 1 <= (e + W - 1) \div W
  <2>1. W * j \in Nat /\ j <= W * j
    <3>1. PICK g \in Nat : W = g + 1
      <4>1. W - 1 \in Nat /\ W = (W - 1) + 1
        OBVIOUS
      <4> QED
        BY <4>1
    <3>2. W * j = g * j + j /\ g * j \in Nat
      BY <1>6, <3>1
    <3> QED
      BY <1>6, <3>2
  <2>2. ASSUME W * j < e PROVE e > 0 /\ j <= e /\ j + 1 <= (e + W - 1) \div W
    <3> DEFINE wj == W * j
               x == e + W - 1
               w == j + 1
    <3>1. wj \in Nat /\ j <= wj /\ wj < e
      BY <2>1, <2>2
    <3>2. w * W = wj + W
      BY <1>6
    <3> HIDE DEF wj
    <3>3. w \in Nat /\ x \in Nat /\ w * W <= x /\ W \in Nat \ {0}
      BY <1>6, <3>1, <3>2
    <3> HIDE DEF w, x
    <3>4. w <= x \div W
      BY <3>3, DivAtLeast
    <3>5. j + 1 <= (e + W - 1) \div W
      BY <3>4 DEF w, x
    <3> QED
      BY <1>6, <3>1, <3>5
  <2>3. CASE e = P - 1
    <3>1. m < P /\ m = W * j
      BY <1>2, <1>5
    <3>2. W * j # P - 1
      <4> SUFFICES ASSUME W * j = P - 1 PROVE FALSE
        OBVIOUS
      <4>1. P = W * j + 1 /\ 1 < W /\ W \in Nat \ {0} /\ 1 \in Nat
        OBVIOUS
      <4>2. P % W = 1
        BY <1>6, <4>1, DivUnique
      <4> QED
        BY <4>2
    <3> QED
      BY <2>1, <2>2, <2>3, <3>1, <3>2
  <2>4. CASE e = n - 1 - P * i
    <3>1. W * j <= e
      <4> DEFINE pi == P * i
                 wj == W * j
      <4>1. pi \in Nat /\ wj \in Nat /\ off = pi + m /\ m = wj /\ e = n - 1 - pi
        BY <1>2, <1>5, <2>1, <2>4
      <4> HIDE DEF pi, wj
      <4>2. wj <= e
        BY <1>4, <4>1
      <4> QED
        BY <4>2 DEF wj
    <3>2. W * j # e
      <4> SUFFICES ASSUME W * j = e PROVE FALSE
        OBVIOUS
      <4> DEFINE q == c * i + j
      <4>1. P * i = W * (c * i)
        BY <1>1, <1>2
      <4>2. q \in Nat /\ W * q = W * (c * i) + W * j
        BY <1>5, <1>6
      <4>3. W * (c * i) \in Nat
        BY <1>5
      <4> DEFINE wq == W * q
                 wc == W * (c * i)
                 wj == W * j
                 pi == P * i
      <4>4. wq = wc + wj /\ pi = wc /\ wc \in Nat /\ wj \in Nat /\ wj = e /\ e = n - 1 - pi
        BY <2>1, <2>4, <4>1, <4>2, <4>3
      <4> HIDE DEF wq, wc, wj, pi
      <4>5. n = wq + 1
        BY <4>4
      <4> HIDE DEF q
      <4>6. n = W * q + 1 /\ 1 < W /\ W \in Nat \ {0} /\ 1 \in Nat
        BY <4>5 DEF wq
      <4>7. n % W = 1
        BY <4>2, <4>6, DivUnique
      <4> QED
        BY <4>7
    <3> QED
      BY <2>1, <2>2, <3>1, <3>2
  <2> QED
    BY <1>11, <2>3, <2>4
<1>12. /\ m \div W + 1 \in Nat
       /\ i * ((P - 1 + W - 1) \div W) + (m \div W + 1) = k
  BY <1>6, <1>8, <1>9, <1>10
<1>13. \A e \in Nat : e = P - 1 \/ e = n - 1 - P * i =>
         e > 0 /\ m \div W <= e /\ m \div W + 1 <= (e + W - 1) \div W
  BY <1>8, <1>11
<1> QED
  BY <1>4, <1>12, <1>13, Zenon DEF WordPlaced, i, m

\* Where turn i of a load ends: with its page, or with the load.
TurnEnds(P, n, i, stop, pageend, l) ==
  l \in Nat /\ l = IF stop >= pageend THEN P - 1 ELSE n - 1 - P * i

LEMMA LoadLast ==
  ASSUME NEW P \in Nat \ {0}, NEW start \in Nat, start % P = 0, NEW n \in Nat \ {0},
         NEW i \in Nat, P * i <= n - 1,
         NEW stop \in Nat, stop = start + n - 1,
         NEW pageend \in Nat, pageend = ((start + i * P) \div P) * P + P - 1,
         NEW l, l = (IF stop >= pageend THEN pageend ELSE stop) % P
  PROVE  TurnEnds(P, n, i, stop, pageend, l)
<1> DEFINE u == start \div P
           q == u + i
<1>1. u \in Nat /\ start = P * u
  <2>1. u \in Nat /\ P * u \in Nat /\ start = P * u + (start % P)
    BY DivFacts
  <2> HIDE DEF u
  <2> QED
    BY <2>1
<1> HIDE DEF u
<1>2. (start + i * P) \div P = q
  <2> DEFINE x == start + i * P
  <2>1. x = P * q + 0 /\ x \in Nat /\ q \in Nat
    BY <1>1
  <2> HIDE DEF x, q
  <2>2. x \div P = q
    BY <2>1, DivUnique
  <2> QED
    BY <2>2 DEF x
<1> DEFINE pq == P * q
<1>3. q \in Nat /\ pq \in Nat /\ pageend = pq + P - 1 /\ pq = start + P * i /\ P * i \in Nat
  BY <1>1, <1>2
<1>4. ASSUME stop >= pageend PROVE l \in Nat /\ l = P - 1
  <2> DEFINE v == P - 1
  <2>1. l = pageend % P /\ v \in Nat /\ v < P /\ pageend = P * q + v /\ q \in Nat
    BY <1>3, <1>4
  <2> HIDE DEF q, v
  <2>2. pageend % P = v
    BY <2>1, DivUnique
  <2> QED
    BY <2>1, <2>2 DEF v
<1>5. ASSUME ~(stop >= pageend) PROVE l \in Nat /\ l = n - 1 - P * i
  <2> DEFINE e == n - 1 - P * i
             pi == P * i
  <2>1. pi \in Nat /\ pq = start + pi /\ pi <= n - 1 /\ e = n - 1 - pi
    BY <1>3
  <2> HIDE DEF pi, pq, e
  <2>2. e \in Nat /\ e < P /\ stop = pq + e /\ l = stop % P
    BY <1>3, <1>5, <2>1
  <2>4. stop = P * q + e /\ q \in Nat
    BY <1>3, <2>2 DEF pq
  <2> HIDE DEF q
  <2>3. stop % P = e
    BY <2>2, <2>4, DivUnique
  <2> QED
    BY <2>2, <2>3 DEF e
<1>6. l \in Nat /\ l = IF stop >= pageend THEN P - 1 ELSE n - 1 - P * i
  BY <1>4, <1>5
<1> QED
  BY <1>6 DEF TurnEnds

\* A word that a turn copies.
LEMMA LoadedWord ==
  ASSUME Setup!SizesAssumption, NEW old, NEW l \in Nat, NEW from \in Nat, NEW w \in Nat, w > 0,
         l > 0, w <= l + 1, w <= (l + WordBytes - 1) \div WordBytes
  PROVE  /\ Len(Setup!LoadPage(old, 0, l, from)) = l + 1
         /\ Setup!LoadPage(old, 0, l, from)[w] = from + w
<1>1. WordBytes \in Nat \ {0}
  BY DEF Setup!SizesAssumption
<1>2. 0 \div WordBytes = 0
  <2>1. 0 = WordBytes * 0 + 0 /\ 0 < WordBytes /\ 0 \in Nat
    BY <1>1
  <2> QED
    BY <1>1, <2>1, DivUnique
<1>3. Setup!Copied(0, l) = (l + WordBytes - 1) \div WordBytes
  BY <1>1 DEF Setup!Copied
<1>4. (l + WordBytes - 1) \div WordBytes \in Nat
  <2>1. l + WordBytes - 1 \in Nat
    BY <1>1
  <2> QED
    BY <1>1, <2>1, DivFacts
<1>5. w \in 1..(l + 1) /\ w - 0 \div WordBytes \in 1..Setup!Copied(0, l)
      /\ from + (w - 0 \div WordBytes) = from + w
  BY <1>2, <1>3, <1>4
<1>6. Setup!LoadPage(old, 0, l, from)[w] = from + w
  BY <1>5, Zenon DEF Setup!LoadPage, Setup!Data
<1>7. Len(Setup!LoadPage(old, 0, l, from)) = l + 1
  BY DEF Setup!LoadPage
<1> QED
  BY <1>6, <1>7

\* Loads from the start of a page, none of which ends in the first byte of a word: preload
\* would leave that byte out, and put a load from elsewhere at one offset in all of its pages.
LoadsFit ==
  /\ \A a \in LoadStarts : a % PageWords = 0
  /\ \A n \in LoadSizes : n % WordBytes # 1

\* Every word of a load is read back from where it was put.
LEMMA PreloadPuts ==
  ASSUME Setup!BoundsAssumption, Setup!SizesAssumption, LoadsFit, SetupInv,
         NEW a \in LoadStarts, NEW n \in LoadSizes, Setup!preload(a, n), ~failed',
         NEW k \in 1..((n + WordBytes - 1) \div WordBytes)
  PROVE  Setup!ReadBack(pages', a + (k - 1) * WordBytes) = Setup!Data(k)
<1> DEFINE r == Setup!rangeof(a)
           start == a - starts[r]
           stop == start + n - 1
           first == start % PageWords
           turns == 0..((stop - start) \div PageWords)
           pageend(i) == ((start + i * PageWords) \div PageWords) * PageWords + PageWords - 1
           last(i) == (IF stop >= pageend(i) THEN pageend(i) ELSE stop) % PageWords
           from(i) == i * Setup!Copied(first, PageWords - 1)
           off == (k - 1) * WordBytes
           x == a + off
           i == off \div PageWords
           m == off % PageWords
           w == m \div WordBytes + 1
           ss == SecStart(starts, ends)
           P == PageWords
           W == WordBytes
<1>1. /\ built /\ Setup!WholeSectors /\ Setup!PageAligned /\ Setup!InOneRange(a, a + n - 1)
      /\ pages' = [p \in DOMAIN pages |->
                     IF p - Setup!pageof(a) \in turns
                     THEN Setup!LoadPage(pages[p], first, last(p - Setup!pageof(a)), from(p - Setup!pageof(a)))
                     ELSE pages[p]]
  <2>1. ~Setup!Fail
    BY Zenon DEF Setup!Fail
  <2> QED
    BY <2>1, Zenon DEF Setup!preload
<1>2. /\ P \in Nat \ {0} /\ W \in Nat /\ W > 1 /\ W \in Nat \ {0} /\ P % W = 0 /\ n \in Nat \ {0}
      /\ a \in Nat /\ a % P = 0 /\ n % W # 1
  BY GeomAssumption DEF Setup!BoundsAssumption, Setup!SizesAssumption, LoadsFit
<1>3. k \in Nat \ {0} /\ k <= (n + W - 1) \div W /\ off \in Nat
  <2>1. n + W - 1 \in Nat
    BY <1>2
  <2>2. (n + W - 1) \div W \in Nat
    BY <1>2, <2>1, DivFacts
  <2>3. k \in Nat \ {0} /\ k <= (n + W - 1) \div W
    BY <2>2
  <2>4. k - 1 \in Nat
    BY <2>3
  <2> QED
    BY <1>2, <2>3, <2>4
<1>4. Ordered(starts, ends) /\ firsts = ss
  BY <1>1, Zenon DEF SetupInv, Built
<1>5. DOMAIN starts = 1..Len(starts) /\ Whole(starts, ends)
  <2>1. DOMAIN starts = 1..Len(starts)
    BY <1>4 DEF Ordered
  <2> QED
    BY <1>1, <2>1, SetupGeometry DEF Setup!WholeSectors, Whole
<1>6. r = getrange(starts, ends, a) /\ r # 0 /\ a + n - 1 <= ends[r]
  BY <1>1, SetupGeometry DEF Setup!rangeof, Setup!InOneRange
<1>7. r \in 1..Len(starts) /\ starts[r] \in Nat /\ ends[r] \in Nat /\ starts[r] <= a /\ a <= ends[r]
  BY <1>2, <1>4, <1>6, RangeHolds
<1>8. starts[r] % P = 0
  BY <1>1, <1>5, <1>7 DEF Setup!PageAligned
<1>9. start \in Nat /\ start % P = 0 /\ stop \in Nat /\ stop - start = n - 1 /\ n - 1 \in Nat
  <2>1. start \in Nat
    BY <1>2, <1>7
  <2>2. start % P = 0
    <3> HIDE DEF r, P
    <3> QED
      BY <1>2, <1>7, <1>8, <2>1, WholeParts
  <2> QED
    BY <1>2, <2>1, <2>2
<1> HIDE DEF r, P, W
<1>10. /\ off <= n - 1 /\ w \in Nat
       /\ i * ((P - 1 + W - 1) \div W) + w = k
       /\ \A e \in Nat :
            e = P - 1 \/ e = n - 1 - P * i =>
              e > 0 /\ m \div W <= e /\ w <= (e + W - 1) \div W
  <2>1. off = (k - 1) * W
    BY DEF W
  <2>2. /\ off <= n - 1
        /\ (off % P) \div W + 1 \in Nat
        /\ (off \div P) * ((P - 1 + W - 1) \div W) + ((off % P) \div W + 1) = k
        /\ \A e \in Nat :
              e = P - 1 \/ e = n - 1 - P * (off \div P) =>
                /\ e > 0 /\ (off % P) \div W <= e
                /\ (off % P) \div W + 1 <= (e + W - 1) \div W
    <3> HIDE DEF off
    <3>1. P \in Nat \ {0} /\ W \in Nat /\ W > 1 /\ P % W = 0
      BY <1>2
    <3>2. n \in Nat \ {0} /\ n % W # 1
      BY <1>2
    <3>3. k \in Nat \ {0} /\ k <= (n + W - 1) \div W /\ off \in Nat
      BY <1>3
    <3>4. WordPlaced(P, W, n, k, off)
      BY <2>1, <3>1, <3>2, <3>3, LoadWord, Zenon
    <3> QED
      BY <3>4, Zenon DEF WordPlaced
  <2>3. i = off \div P /\ m = off % P /\ w = (off % P) \div W + 1
    BY DEF P, W
  <2> HIDE DEF off, i, m, w
  <2> QED
    BY <2>2, <2>3
<1>11. i \in Nat /\ m \in Nat /\ P * i \in Nat /\ off = P * i + m /\ m \div W \in Nat /\ w = m \div W + 1
       /\ w > 0
  <2>1. i \in Nat /\ m \in Nat /\ P * i \in Nat /\ off = P * i + m
    <3> HIDE DEF off
    <3>1. i = off \div P /\ m = off % P
      BY DEF P
    <3> HIDE DEF i, m
    <3> QED
      BY <1>2, <1>3, <3>1, DivFacts
  <2>2. w = m \div W + 1
    BY DEF W
  <2> HIDE DEF i, m, off, w
  <2>3. m \div W \in Nat
    BY <1>2, <2>1, DivFacts
  <2> QED
    BY <2>1, <2>2, <2>3
<1>12. i \in turns /\ P * i <= n - 1
  <2>1. P * i <= n - 1
    <3> DEFINE pi == P * i
    <3>1. pi \in Nat /\ off = pi + m /\ m \in Nat /\ off <= n - 1
      BY <1>10, <1>11
    <3> HIDE DEF pi, off, m
    <3>2. pi <= n - 1
      BY <1>2, <3>1
    <3> QED
      BY <3>2 DEF pi
  <2>2. i * P <= n - 1
    <3> HIDE DEF i
    <3> QED
      BY <1>2, <1>11, <2>1
  <2>3. i <= (n - 1) \div P
    <3> HIDE DEF i
    <3> QED
      BY <1>2, <1>9, <1>11, <2>2, DivAtLeast
  <2>4. (n - 1) \div P \in Nat
    BY <1>2, <1>9, DivFacts
  <2>5. turns = 0..((n - 1) \div P)
    BY <1>9 DEF P
  <2> HIDE DEF turns, i
  <2> QED
    BY <1>11, <2>1, <2>3, <2>4, <2>5
<1> DEFINE l == last(i)
<1>13. l \in Nat /\ (l = P - 1 \/ l = n - 1 - P * i)
  <2> DEFINE pe == ((start + i * P) \div P) * P + P - 1
  <2>1. pageend(i) = pe
    BY DEF P
  <2>2. pe \in Nat
    <3> DEFINE y == start + i * P
    <3> HIDE DEF i
    <3>1. y \in Nat
      BY <1>2, <1>9, <1>11
    <3> HIDE DEF y
    <3>2. y \div P \in Nat
      BY <1>2, <3>1, DivFacts
    <3>3. (y \div P) * P + P - 1 \in Nat
      BY <1>2, <3>2
    <3> QED
      BY <3>3 DEF y
  <2>3. l = (IF stop >= pe THEN pe ELSE stop) % P
    BY <2>1, Zenon DEF P
  <2>4. pe = ((start + i * P) \div P) * P + P - 1 /\ stop = start + n - 1
    OBVIOUS
  <2> HIDE DEF l, pe, start, stop, i
  <2> QED
    <3>1. P \in Nat \ {0} /\ n \in Nat \ {0}
      BY <1>2
    <3>2. start \in Nat /\ start % P = 0 /\ stop \in Nat
      BY <1>9
    <3>3. i \in Nat /\ P * i <= n - 1
      BY <1>11, <1>12
    <3>4. TurnEnds(P, n, i, stop, pe, l)
      BY <2>2, <2>3, <2>4, <3>1, <3>2, <3>3, LoadLast, Zenon
    <3> QED
      BY <3>4, Zenon DEF TurnEnds
<1>14. first = 0 /\ from(i) \in Nat /\ from(i) + w = k
  <2>1. first = 0
    BY <1>9 DEF P
  <2>2. P - 1 > 0 /\ P - 1 \in Nat
    <3>1. P # 1
      <4> SUFFICES ASSUME P = 1 PROVE FALSE
        OBVIOUS
      <4>1. 1 = W * 0 + 1 /\ 1 < W /\ 1 \in Nat /\ 0 \in Nat
        BY <1>2
      <4>2. 1 % W = 1
        BY <1>2, <4>1, DivUnique
      <4> QED
        BY <1>2, <4>2
    <3> QED
      BY <1>2, <3>1
  <2>3. Setup!Copied(0, P - 1) = (P - 1 + W - 1) \div W
    BY <2>2 DEF Setup!Copied, W
  <2>4. (P - 1 + W - 1) \div W \in Nat
    <3>1. P - 1 + W - 1 \in Nat
      BY <1>2
    <3> QED
      BY <1>2, <3>1, DivFacts
  <2>5. from(i) = i * ((P - 1 + W - 1) \div W)
    BY <2>1, <2>3 DEF P
  <2> HIDE DEF i, w, from
  <2> QED
    BY <1>10, <1>11, <2>1, <2>4, <2>5
<1>15. x \in Nat /\ starts[r] <= x /\ x <= ends[r] /\ x - starts[r] = start + off /\ x = a + off
  <2>1. off <= n - 1 /\ off \in Nat
    BY <1>3, <1>10
  <2> DEFINE lo == starts[r]
             hi == ends[r]
  <2>2. lo \in Nat /\ hi \in Nat /\ lo <= a /\ a + n - 1 <= hi /\ start = a - lo
    BY <1>6, <1>7
  <2> HIDE DEF off, start, lo, hi
  <2>3. x \in Nat /\ lo <= x /\ x <= hi /\ x - lo = start + off
    BY <1>2, <2>1, <2>2
  <2> QED
    BY <2>3 DEF lo, hi
<1>16. Setup!rangeof(x) = r
  <2> HIDE DEF x
  <2>1. getrange(starts, ends, x) = r
    BY <1>4, <1>7, <1>15, RangeFound
  <2> QED
    BY <2>1, SetupGeometry DEF Setup!rangeof
<1>17. (start + off) \div P = start \div P + i /\ start \div P \in Nat /\ x % P = m
  <2> HIDE DEF start, off, x
  <2>3. P \in Nat \ {0} /\ off \in Nat
    BY <1>2, <1>3
  <2>4. start \in Nat /\ start % P = 0
    BY <1>9
  <2>5. a \in Nat /\ a % P = 0
    BY <1>2
  <2>6. (start + off) \div P = start \div P + off \div P
    BY <2>3, <2>4, DivWhole, Zenon
  <2>7. (a + off) % P = off % P
    BY <2>3, <2>5, DivWhole, Zenon
  <2>1. (start + off) \div P = start \div P + off \div P /\ (a + off) % P = off % P
    BY <2>6, <2>7
  <2>2. start \div P \in Nat
    BY <1>2, <1>9, DivFacts
  <2> QED
    BY <1>15, <2>1, <2>2 DEF P
<1>18. ss[r] \in Nat /\ SecPages \in Nat /\ ss[r] * SecPages \in Nat
  <2>3. a \in Nat
    BY <1>2
  <2>4. SecStart(starts, ends)[r] \in Nat
    <3> HIDE DEF r, ss
    <3> QED
      BY <1>4, <1>5, <1>7, <2>3, InRange
  <2>1. ss[r] \in Nat
    BY <2>4, Zenon
  <2>2. SecPages \in Nat
    BY GeomAssumption
  <2> QED
    BY <2>1, <2>2
<1>19. Setup!pageof(x) - Setup!pageof(a) = i /\ Setup!pageof(x) = PAGEADDR(starts, ss, r, x)
  <2>1. Setup!pageof(x) = ss[r] * SecPages + (x - starts[r]) \div P
    BY <1>4, <1>16 DEF Setup!pageof, Setup!PAGEADDR, P
  <2>2. Setup!pageof(a) = ss[r] * SecPages + start \div P
    BY <1>4 DEF Setup!pageof, Setup!PAGEADDR, P, r
  <2> DEFINE c == ss[r] * SecPages
             d == start \div P
  <2>3. Setup!pageof(x) = c + (d + i) /\ Setup!pageof(a) = c + d /\ c \in Nat /\ d \in Nat
    BY <1>15, <1>17, <1>18, <2>1, <2>2
  <2>4. Setup!pageof(x) = PAGEADDR(starts, ss, r, x)
    BY <2>1 DEF PAGEADDR, P
  <2> HIDE DEF c, d, i, x
  <2> QED
    BY <1>11, <2>3, <2>4
<1>20. Setup!pageof(x) \in DOMAIN pages
  <2>1. Setup!PagesDistinct
    BY PagesAreDistinct
  <2>2. x \in Setup!Addrs
    <3>1. ends[r] \in Setup!Addrs
      <4>1. r \in 1..Len(ends) /\ ends \in Seq(Setup!Addrs)
        BY <1>4, <1>7 DEF Ordered, SetupInv
      <4> HIDE DEF Setup!Addrs
      <4> QED
        BY <4>1
    <3> HIDE DEF x
    <3> QED
      BY <1>15, <3>1 DEF Setup!Addrs, Setup!BoundsAssumption
  <2>3. Setup!rangeof(x) # 0
    BY <1>6, <1>16
  <2> HIDE DEF x
  <2> QED
    BY <1>1, <2>1, <2>2, <2>3 DEF Setup!PagesDistinct
<1> DEFINE p == Setup!pageof(x)
<1>21. pages'[p] = Setup!LoadPage(pages[p], first, l, from(i))
  <2>1. p \in DOMAIN pages /\ p - Setup!pageof(a) = i /\ i \in turns
    BY <1>12, <1>19, <1>20
  <2> HIDE DEF p, turns, first, from, last, i
  <2> QED
    BY <1>1, <2>1 DEF l
<1> DEFINE f == from(i)
<1>22. Len(pages'[p]) = l + 1 /\ pages'[p][w] = k /\ w <= l + 1
  <2>1. f \in Nat /\ f + w = k /\ pages'[p] = Setup!LoadPage(pages[p], 0, l, f)
    BY <1>14, <1>21
  <2> HIDE DEF f, l, p, w, m, i
  <2>2. l > 0 /\ m \div W <= l /\ w <= (l + W - 1) \div W
    BY <1>10, <1>13
  <2>3. w \in Nat /\ w > 0 /\ w <= l + 1
    BY <1>11, <1>13, <2>2
  <2>4. w <= (l + WordBytes - 1) \div WordBytes
    BY <2>2 DEF W
  <2>5. /\ Len(Setup!LoadPage(pages[p], 0, l, f)) = l + 1
        /\ Setup!LoadPage(pages[p], 0, l, f)[w] = f + w
    BY <1>13, <2>1, <2>2, <2>3, <2>4, LoadedWord
  <2> QED
    BY <2>1, <2>3, <2>5
<1>23. Setup!ReadBack(pages', x) = IF w <= Len(pages'[p]) THEN pages'[p][w] ELSE Setup!Blank
  <2>1. (x % PageWords) \div WordBytes + 1 = w
    <3>1. x % PageWords = m
      BY <1>17 DEF P
    <3> HIDE DEF x, m
    <3> QED
      BY <3>1
  <2> HIDE DEF x, w
  <2> QED
    BY <2>1 DEF Setup!ReadBack
<1>24. Setup!ReadBack(pages', x) = k
  <2> HIDE DEF x, w, p, l
  <2> QED
    BY <1>22, <1>23
<1> QED
  BY <1>24 DEF Setup!Data

\* PreloadExact: at whatever page a load starts and however many pages it takes, each of its
\* words is where the device will read it.
THEOREM PreloadIsExact ==
  Setup!BoundsAssumption /\ Setup!SizesAssumption /\ LoadsFit /\ Setup!Spec => Setup!PreloadExact
<1> SUFFICES ASSUME Setup!BoundsAssumption, Setup!SizesAssumption, LoadsFit
             PROVE  Setup!Spec => Setup!PreloadExact
  OBVIOUS
<1> DEFINE Exact ==
     \A a \in LoadStarts, n \in LoadSizes :
       Setup!preload(a, n) /\ ~failed' =>
         \A k \in 1..((n + WordBytes - 1) \div WordBytes) :
           Setup!ReadBack(pages', a + (k - 1) * WordBytes) = Setup!Data(k)
<1>1. Setup!Init => SetupInv
  BY SetupInit
<1>2. SetupInv /\ [Setup!Next]_(Setup!vars) => SetupInv'
  BY SetupStep
<1>3. SetupInv => Exact
  BY PreloadPuts
<1>4. SetupInv /\ [Setup!Next]_(Setup!vars) => [Exact]_(Setup!vars)
  BY <1>3, Zenon
<1> HIDE DEF Exact
<1>5. Setup!Spec => [][Exact]_(Setup!vars)
  BY <1>1, <1>2, <1>4, PTL DEF Setup!Spec
<1> QED
  BY <1>5 DEF Setup!PreloadExact, Exact
============================================================================
