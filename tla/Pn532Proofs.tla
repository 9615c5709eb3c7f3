---------------------------- MODULE Pn532Proofs ----------------------------
(***************************************************************************)
(* Proofs about the card reader: the interrupt pin tells the truth for     *)
(* every host and every size of the FIFO, and a command is acknowledged    *)
(* before it is answered, and answered as itself, by hosts that read long   *)
(* answers.                                                                *)
(***************************************************************************)
EXTENDS Pn532, SequenceTheorems, TLAPS

(***************************************************************************)
(* The pin                                                                 *)
(***************************************************************************)
\* What the FIFO may hold
Sayings == {"ack", "tags", "none", "sam", "version", "data", "done", "failed", "syntax"}

\* Inductive invariant: what irqmanage_th remembers is true when it is not woken, and
\* when it is woken with an empty FIFO it remembers that the FIFO was not empty.
IrqInv ==
  /\ to \in Seq(Sayings) /\ push \in Seq(Sayings)
  /\ irq \in BOOLEAN /\ wasempty \in BOOLEAN /\ changed \in BOOLEAN
  /\ push # <<>> => wake = {}
  /\ wake # {} => ~changed
  /\ ~changed => (irq <=> to # <<>>) /\ (wasempty <=> to = <<>>)
  /\ changed /\ wasempty => to # <<>>

\* pushresp has a sequence to write.
LEMMA ItemsType == ASSUME NEW r \in Sayings PROVE Items(r) \in Seq(Sayings)
  BY CapAssumption DEF Items

LEMMA ResponseType == Response \in Sayings
  BY DEF Response, Sayings

LEMMA IrqInit == Init => IrqInv
<1>1. <<>> \in Seq(Sayings)
  OBVIOUS
<1> QED
  BY <1>1, Zenon DEF Init, IrqInv

\* The bytes of a frame, handled by process_th
LEMMA IrqProcess == IrqInv /\ process_th => IrqInv'
<1> SUFFICES ASSUME IrqInv, process_th PROVE IrqInv'
  OBVIOUS
<1> DEFINE b == Head(frame)
<1>1. Settled /\ UNCHANGED <<push, irq, wasempty>>
  BY DEF process_th
<1>2. CASE UNCHANGED <<wake, to, changed>>
  BY <1>1, <1>2 DEF IrqInv
<1>3. CASE PD0(b)
  BY <1>1, <1>3 DEF IrqInv, PD0, Settled
<1>4. CASE LOCK(b)
  BY <1>1, <1>4 DEF IrqInv, LOCK, Settled
<1> QED
  BY <1>2, <1>3, <1>4 DEF process_th, Preamble, Header, PDN, DCS

\* resp_th runs only when irqmanage_th has nothing to do.
LEMMA IrqResp == IrqInv /\ resp_th => IrqInv'
<1> SUFFICES ASSUME IrqInv, resp_th PROVE IrqInv'
  OBVIOUS
<1>1. wake' = {} /\ ~changed /\ UNCHANGED <<irq, wasempty>>
  BY DEF IrqInv, resp_th
<1>2. CASE UNCHANGED <<to, changed, push>>
  BY <1>1, <1>2 DEF IrqInv
<1>3. CASE to' = <<"ack", "ack">> /\ changed' = TRUE /\ UNCHANGED push
  BY <1>1, <1>3 DEF IrqInv, Sayings
<1>4. CASE to' = <<>> /\ changed' = (changed \/ to # <<>>) /\ push' \in Seq(Sayings)
  BY <1>1, <1>4 DEF IrqInv
<1>5. Items(Response) \in Seq(Sayings) /\ push \in Seq(Sayings)
  BY ItemsType, ResponseType DEF IrqInv
<1> QED
  BY <1>2, <1>3, <1>4, <1>5 DEF resp_th, RespNew, RespAck

\* Every step keeps the invariant.
LEMMA IrqStep == IrqInv /\ [Next]_vars => IrqInv'
<1> SUFFICES ASSUME IrqInv, [Next]_vars PROVE IrqInv'
  OBVIOUS
<1>1. CASE process_th
  BY <1>1, IrqProcess
<1>2. CASE resp_th
  BY <1>2, IrqResp
<1>3. CASE Push
  <2>1. to' \in Seq(Sayings) /\ push' \in Seq(Sayings) /\ to' # <<>>
    BY <1>3 DEF IrqInv, Push
  <2> QED
    BY <1>3, <2>1 DEF IrqInv, Push
<1>4. CASE AckFires
  BY <1>4 DEF IrqInv, AckFires, Settled
<1>5. CASE irqmanage_th
  BY <1>5 DEF IrqInv, irqmanage_th, Low
<1>6. CASE ReadItem
  <2>1. to' \in Seq(Sayings) /\ ~wasempty
    BY <1>6 DEF IrqInv, ReadItem, Settled
  <2> QED
    BY <1>6, <2>1 DEF IrqInv, ReadItem, Settled
<1>7. CASE Nack \/ Stop
  <2>1. Drop
    BY <1>7 DEF Nack, Stop
  <2>2. <<>> \in Seq(Sayings)
    OBVIOUS
  <2> QED
    BY <2>1, <2>2 DEF IrqInv, Drop, Settled
<1>8. CASE UNCHANGED <<to, push, irq, wasempty, changed, wake>>
  BY <1>8 DEF IrqInv
<1> QED
  BY <1>1, <1>2, <1>3, <1>4, <1>5, <1>6, <1>7, <1>8
    DEF Next, vars, Send, ReadBegin, setcardpresent, setcardnotpresent

\* Whatever the host does, sending while answers wait or at any pace included: when no
\* thread can run, the pin is low exactly when the FIFO holds something (irqmanage_th
\* of pn532_base.cpp).
THEOREM PinTellsTheTruth == Spec => []IrqTells
<1>1. IrqInv => IrqTells
  BY DEF IrqInv, IrqTells, Settled
<1> QED
  BY IrqInit, IrqStep, <1>1, PTL DEF Spec

(***************************************************************************)
(* The acknowledge                                                         *)
(***************************************************************************)
\* Inductive invariant, for a host that reads long answers before it sends, and whose
\* frames are faster than the delays: no frame comes in while pushresp writes, resp_th
\* does nothing but note the end of a read-out while one comes in, and a command that
\* is not acknowledged is about to be.
AckInv ==
  /\ frame # <<>> => push = <<>>
  /\ frame # <<>> /\ "ack" \in wake => opstate \in {"ACKRDOUT", "READOUT"}
  /\ ~acked => "new" \in wake \/ opstate \in {"ACK", "OFF"}
  /\ push # <<>> => acked /\ wake = {}
  /\ said # None => acked

LEMMA AckInit == Init => AckInv
  BY DEF Init, AckInv

LEMMA AckProcess == AckInv /\ process_th => AckInv'
<1> SUFFICES ASSUME AckInv, process_th PROVE AckInv'
  OBVIOUS
<1>1. push = <<>> /\ wake = {} /\ UNCHANGED <<push, opstate>>
  BY DEF AckInv, process_th, Settled
<1>2. CASE UNCHANGED <<wake, hist>>
  BY <1>1, <1>2 DEF AckInv, hist
<1>3. CASE LOCK(Head(frame))
  BY <1>1, <1>3 DEF AckInv, LOCK
<1> QED
  BY <1>2, <1>3 DEF process_th, Preamble, Header, PD0, PDN, DCS

LEMMA AckResp == AckInv /\ resp_th => AckInv'
<1> SUFFICES ASSUME AckInv, resp_th PROVE AckInv'
  OBVIOUS
<1>1. wake # {} /\ push = <<>> /\ wake' = {} /\ UNCHANGED frame
  BY DEF AckInv, resp_th
<1>2. CASE RespNew
  BY <1>1, <1>2 DEF AckInv, RespNew
<1>3. CASE RespAck
  BY <1>1, <1>3 DEF AckInv, RespAck
<1> QED
  BY <1>2, <1>3 DEF resp_th

LEMMA AckStep == ~LeaveUnread /\ ~SlowFrames /\ AckInv /\ [Next]_vars => AckInv'
<1> SUFFICES ASSUME ~LeaveUnread, ~SlowFrames, AckInv, [Next]_vars PROVE AckInv'
  OBVIOUS
<1>1. CASE process_th
  BY <1>1, AckProcess
<1>2. CASE resp_th
  BY <1>2, AckResp
<1>3. CASE Push
  BY <1>3 DEF AckInv, Push, hist
<1>4. CASE AckFires
  BY <1>4 DEF AckInv, AckFires, Settled, hist
<1>5. CASE irqmanage_th
  BY <1>5 DEF AckInv, irqmanage_th, ReadOut, hist
<1>6. ASSUME NEW f \in Frames, Send(f) PROVE AckInv'
  BY <1>6 DEF AckInv, Send, Settled, hist
<1>7. CASE UNCHANGED <<frame, push, wake, opstate, acked, said>>
  BY <1>7 DEF AckInv
<1> QED
  BY <1>1, <1>2, <1>3, <1>4, <1>5, <1>6, <1>7
    DEF Next, vars, ReadBegin, ReadItem, Nack, Stop, Drop, setcardpresent, setcardnotpresent, hist

\* For every set of frames, number of retries and size of the FIFO: what resp_th
\* answers was acknowledged before, also when the command interrupted another one or
\* an acknowledge was never read.
THEOREM AcknowledgedFirst == ~LeaveUnread /\ ~SlowFrames /\ Spec => []AckFirst
<1>1. AckInv => AckFirst
  BY DEF AckInv, AckFirst
<1> SUFFICES ASSUME ~LeaveUnread, ~SlowFrames PROVE Spec => []AckFirst
  OBVIOUS
<1>2. AckInv /\ [Next]_vars => AckInv'
  BY AckStep
<1> QED
  BY AckInit, <1>2, <1>1, PTL DEF Spec

(***************************************************************************)
(* The answer                                                              *)
(***************************************************************************)
\* What a frame is made of
FrameItems == PreBytes \cup {"len", "lcs", "tfi", "dcs"} \cup Frames

Total(f) == Len(f.pre) + (IF f.payload = "none" THEN 6 ELSE 7)

\* The positions of a frame at which the command, the payload and the end are
Carried(f) == {Len(f.pre) + 4, Total(f)} \cup (IF f.payload = "none" THEN {} ELSE {Len(f.pre) + 5})

\* pn532state when k bytes of the frame were handled: in the preamble it counts the
\* zeros that came last.
ParseAt(f, k) ==
  LET n == Len(f.pre)
  IN IF k < n THEN IF k > 0 /\ f.pre[k] = "00"
                     THEN IF k > 1 /\ f.pre[k - 1] = "00" THEN "UNLOCK2" ELSE "UNLOCK1"
                     ELSE "IDLE"
     ELSE IF k = n THEN "UNLOCK3" ELSE IF k = n + 1 THEN "UNLOCK4" ELSE IF k = n + 2 THEN "UNLOCK5"
     ELSE IF k = n + 3 THEN "PD0" ELSE IF k = Total(f) - 1 THEN "LOCK"
     ELSE IF k = Total(f) - 2 THEN "DCS" ELSE "PDN"

\* What is left of frame f when k bytes of it were handled
Remains(s, f, k) ==
  /\ s \in Seq(FrameItems) /\ Len(s) = Total(f) - k
  /\ \A j \in 1..Len(s) : /\ k + j <= Len(f.pre) => s[j] = f.pre[k + j]
                          /\ k + j \in Carried(f) => s[j] = f

\* The payload that the registers were loaded from is that of f.
Loaded(f) ==
  f.payload # "none" =>
    /\ mif.bad = (f.cmd = "rfconfig" \/ (f.payload = "short" /\ f.cmd \in Checked))
    /\ f.cmd = "exchange" /\ ~mif.bad => (mif.read => f.payload = "read")

\* Frame f is coming in, and k bytes of it were handled.
Coming(f, k) ==
  /\ Remains(frame, f, k)
  /\ parse = ParseAt(f, k)
  /\ k >= Len(f.pre) + 4 => mif.cmd = f.cmd
  /\ k >= Len(f.pre) + 5 => Loaded(f)

\* resp_th works on the last command.
Working ==
  /\ frame = <<>> /\ push = <<>>
  /\ "new" \in wake \/ opstate \in {"ACK", "ACKRDOUT", "PREDELAY", "BUSY"}

\* Inductive invariant: the parser is where the frame is, and while resp_th works the
\* registers hold the command that was last completed.
AnswerInv ==
  /\ AckInv
  /\ mif \in [cmd: Kinds \cup {None}, bad: BOOLEAN, read: BOOLEAN, retries: Int, max: Int]
  /\ frame = <<>> => parse = "IDLE"
  /\ frame # <<>> => \E f \in Frames : \E k \in 0..(Total(f) - 1) : Coming(f, k)
  /\ Working => asked \in Frames /\ mif.cmd = asked.cmd /\ Loaded(asked)
  /\ said # None => said \in Answers(asked)

LEMMA FrameFacts ==
  ASSUME NEW f \in Frames
  PROVE  /\ f.cmd \in Kinds /\ f.payload \in {"read", "good", "short", "none"} /\ f.retries \in Int
         /\ f.pre \in Seq(PreBytes) /\ Len(f.pre) \in Nat /\ Len(f.pre) >= 3
         /\ \A i \in 1..Len(f.pre) : f.pre[i] \in PreBytes /\ (UnlockedAt(f.pre, i) <=> i = Len(f.pre))
<1>1. /\ f.cmd \in Kinds /\ f.payload \in {"read", "good", "short", "none"} /\ f.retries \in Retries
      /\ f.pre \in Seq(PreBytes) /\ f.pre # <<>>
      /\ \A i \in 1..Len(f.pre) : UnlockedAt(f.pre, i) <=> i = Len(f.pre)
  BY FramesAssumption, Zenon
<1>2. f.retries \in Int
  <2>1. f.retries \in Retries
    BY <1>1, Zenon
  <2>2. \A x \in Retries : x \in Int
    BY RetriesAssumption
  <2> QED
    BY <2>1, <2>2, Zenon
<1>3. Len(f.pre) \in Nat /\ Len(f.pre) >= 1 /\ \A i \in 1..Len(f.pre) : f.pre[i] \in PreBytes
  BY <1>1
<1>4. Len(f.pre) >= 3
  BY <1>1, <1>3 DEF UnlockedAt
<1> QED
  BY <1>1, <1>2, <1>3, <1>4, Zenon

LEMMA TotalFacts ==
  ASSUME NEW f \in Frames
  PROVE  /\ Total(f) \in Nat /\ Len(f.pre) \in Nat /\ Len(f.pre) >= 3
         /\ f.payload = "none" => Total(f) = Len(f.pre) + 6
         /\ f.payload # "none" => Total(f) = Len(f.pre) + 7
<1> DEFINE n == Len(f.pre)
<1>1. n \in Nat /\ n >= 3
  BY FrameFacts, Zenon
<1>2. Total(f) = IF f.payload = "none" THEN n + 6 ELSE n + 7
  BY DEF Total
<1> HIDE DEF n
<1>3. /\ Total(f) \in Nat
      /\ f.payload = "none" => Total(f) = n + 6
      /\ f.payload # "none" => Total(f) = n + 7
  BY <1>1, <1>2
<1> QED
  BY <1>1, <1>3, Zenon DEF n

LEMMA Joined ==
  ASSUME NEW S, NEW s \in Seq(S), NEW t \in Seq(S)
  PROVE  /\ s \o t \in Seq(S) /\ Len(s \o t) = Len(s) + Len(t)
         /\ \A j \in 1..Len(s) : (s \o t)[j] = s[j]
         /\ \A j \in 1..Len(t) : (s \o t)[Len(s) + j] = t[j]
  BY ConcatProperties

LEMMA FramedRemains == ASSUME NEW f \in Frames PROVE Remains(Framed(f), f, 0)
<1> DEFINE p == f.pre
           n == Len(f.pre)
           mid == <<"len", "lcs", "tfi", f>>
           load == IF f.payload = "none" THEN <<>> ELSE <<f>>
           last == <<"dcs", f>>
           a == p \o mid
           c == a \o load
<1>1. p \in Seq(FrameItems)
  <2>1. p \in Seq(PreBytes)
    BY FrameFacts, Zenon
  <2>2. PreBytes \subseteq FrameItems
    BY DEF FrameItems
  <2> QED
    BY <2>1, <2>2
<1>2. mid \in Seq(FrameItems) /\ last \in Seq(FrameItems) /\ load \in Seq(FrameItems)
  <2>1. {"len", "lcs", "tfi", "dcs", f} \subseteq FrameItems
    BY DEF FrameItems
  <2> QED
    BY <2>1
<1>3. Len(mid) = 4 /\ mid[4] = f /\ Len(last) = 2 /\ last[2] = f
  OBVIOUS
<1>4. /\ f.payload = "none" => Len(load) = 0
      /\ f.payload # "none" => Len(load) = 1 /\ load[1] = f
  OBVIOUS
<1>5. Framed(f) = c \o last
  BY DEF Framed
<1>6. /\ Total(f) \in Nat /\ n \in Nat /\ Len(p) = n /\ n >= 3
      /\ f.payload = "none" => Total(f) = n + 6
      /\ f.payload # "none" => Total(f) = n + 7
  BY TotalFacts, Zenon
<1> HIDE DEF p, n, mid, load, last
<1>7. /\ a \in Seq(FrameItems) /\ Len(a) = Len(p) + Len(mid)
      /\ \A j \in 1..Len(p) : a[j] = p[j]
      /\ \A j \in 1..Len(mid) : a[Len(p) + j] = mid[j]
  BY <1>1, <1>2, Joined
<1> HIDE DEF a
<1>8. /\ c \in Seq(FrameItems) /\ Len(c) = Len(a) + Len(load)
      /\ \A j \in 1..Len(a) : c[j] = a[j]
      /\ \A j \in 1..Len(load) : c[Len(a) + j] = load[j]
  <2>1. a \in Seq(FrameItems) /\ load \in Seq(FrameItems)
    BY <1>2, <1>7, Zenon
  <2> QED
    BY <2>1, Joined
<1> HIDE DEF c
<1>9. /\ c \o last \in Seq(FrameItems) /\ Len(c \o last) = Len(c) + Len(last)
      /\ \A j \in 1..Len(c) : (c \o last)[j] = c[j]
      /\ \A j \in 1..Len(last) : (c \o last)[Len(c) + j] = last[j]
  <2>1. c \in Seq(FrameItems) /\ last \in Seq(FrameItems)
    BY <1>2, <1>8, Zenon
  <2> QED
    BY <2>1, Joined
<1> DEFINE w == c \o last
<1> HIDE DEF w
<1>10. Len(a) = n + 4 /\ a[n + 4] = f /\ \A j \in 1..n : a[j] = p[j]
  <2>1. Len(a) = n + 4 /\ 4 \in 1..Len(mid)
    BY <1>3, <1>6, <1>7
  <2>2. a[Len(p) + 4] = mid[4]
    BY <1>7, <2>1
  <2> QED
    BY <1>3, <1>6, <1>7, <2>1, <2>2
<1>11. /\ Len(c) = Total(f) - 2
       /\ c[n + 4] = f /\ \A j \in 1..n : c[j] = p[j]
       /\ f.payload # "none" => c[n + 5] = f
  <2>1. Len(c) = Total(f) - 2
    BY <1>4, <1>6, <1>8, <1>10
  <2>2. n + 4 \in 1..Len(a) /\ \A j \in 1..n : j \in 1..Len(a)
    BY <1>6, <1>10
  <2>3. f.payload # "none" => c[Len(a) + 1] = load[1]
    BY <1>4, <1>8
  <2> QED
    BY <1>4, <1>6, <1>8, <1>10, <2>1, <2>2, <2>3
<1>12. /\ w \in Seq(FrameItems) /\ Len(w) = Total(f)
       /\ w[n + 4] = f /\ w[Total(f)] = f /\ \A j \in 1..n : w[j] = p[j]
       /\ f.payload # "none" => w[n + 5] = f
  <2>1. w \in Seq(FrameItems) /\ Len(w) = Total(f)
    BY <1>3, <1>6, <1>9, <1>11 DEF w
  <2>2. n + 4 \in 1..Len(c) /\ (\A j \in 1..n : j \in 1..Len(c)) /\ (f.payload # "none" => n + 5 \in 1..Len(c))
    BY <1>6, <1>11
  <2>3. w[Len(c) + 2] = last[2]
    BY <1>3, <1>9 DEF w
  <2> QED
    BY <1>3, <1>6, <1>9, <1>11, <2>1, <2>2, <2>3 DEF w
<1>13. ASSUME NEW j \in 1..Len(w)
       PROVE  /\ 0 + j <= n => w[j] = p[0 + j]
              /\ 0 + j \in Carried(f) => w[j] = f
  <2>1. 0 + j = j /\ j \in Nat /\ (j <= n => j \in 1..n)
    BY <1>6, <1>12
  <2>2. j \in Carried(f) => j = n + 4 \/ j = Total(f) \/ (f.payload # "none" /\ j = n + 5)
    BY DEF Carried, n
  <2> QED
    BY <1>12, <2>1, <2>2
<1>14. w = Framed(f) /\ Len(w) = Total(f) - 0
  BY <1>5, <1>6, <1>12 DEF w
<1> QED
  BY <1>12, <1>13, <1>14 DEF Remains, p, n

LEMMA RemainsTail ==
  ASSUME NEW f \in Frames, NEW k \in Nat, NEW s, Remains(s, f, k), k < Total(f)
  PROVE  /\ s # <<>> /\ Head(s) = s[1] /\ Remains(Tail(s), f, k + 1)
         /\ k + 1 = Total(f) => Tail(s) = <<>>
         /\ k + 1 < Total(f) => Tail(s) # <<>>
         /\ k + 1 <= Len(f.pre) => s[1] = f.pre[k + 1]
         /\ k + 1 \in Carried(f) => s[1] = f
<1>1. s \in Seq(FrameItems) /\ Len(s) = Total(f) - k /\ Len(s) >= 1
  BY TotalFacts DEF Remains
<1>2. /\ Tail(s) \in Seq(FrameItems) /\ Len(Tail(s)) = Len(s) - 1 /\ s # <<>> /\ Head(s) = s[1]
      /\ \A j \in 1..Len(Tail(s)) : Tail(s)[j] = s[j + 1]
  BY <1>1
<1>3. Tail(s) = <<>> <=> Len(Tail(s)) = 0
  <2>1. \A t \in Seq(FrameItems) : t = <<>> <=> Len(t) = 0
    BY EmptySeq
  <2> QED
    BY <1>2, <2>1
<1>4. Remains(Tail(s), f, k + 1)
  <2>1. ASSUME NEW j \in 1..Len(Tail(s))
        PROVE  /\ k + 1 + j <= Len(f.pre) => Tail(s)[j] = f.pre[k + 1 + j]
               /\ k + 1 + j \in Carried(f) => Tail(s)[j] = f
    <3>1. j + 1 \in 1..Len(s) /\ Tail(s)[j] = s[j + 1] /\ k + (j + 1) = k + 1 + j
      BY <1>1, <1>2, TotalFacts
    <3> QED
      BY <3>1 DEF Remains
  <2> QED
    BY <1>1, <1>2, <2>1, TotalFacts DEF Remains
<1>5. /\ k + 1 <= Len(f.pre) => s[1] = f.pre[k + 1]
      /\ k + 1 \in Carried(f) => s[1] = f
  BY <1>1 DEF Remains
<1> QED
  BY <1>1, <1>2, <1>3, <1>4, <1>5, TotalFacts

\* One byte of the preamble: the zeros that came last are counted, and 00 00 FF unlocks.
LEMMA PreambleStep ==
  ASSUME NEW f \in Frames, NEW k \in Nat, k < Len(f.pre), parse = ParseAt(f, k)
  PROVE  /\ parse \in {"IDLE", "UNLOCK1", "UNLOCK2"}
         /\ AfterPreamble(f.pre[k + 1]) = ParseAt(f, k + 1)
<1> DEFINE n == Len(f.pre)
           p == f.pre
<1>1. /\ n \in Nat /\ n >= 3
      /\ \A i \in 1..n : UnlockedAt(p, i) <=> i = n
  BY FrameFacts, Zenon
<1>2. k \in 0..(n - 1) /\ k + 1 \in 1..n
  BY <1>1
<1>3. UnlockedAt(p, k + 1) <=> k + 1 = n
  BY <1>1, <1>2, Zenon
<1>4. k + 1 = n <=> k >= 2 /\ p[k - 1] = "00" /\ p[k] = "00" /\ p[k + 1] = "FF"
  BY <1>2, <1>3 DEF UnlockedAt
<1>5. parse = IF k > 0 /\ p[k] = "00"
                THEN IF k > 1 /\ p[k - 1] = "00" THEN "UNLOCK2" ELSE "UNLOCK1"
                ELSE "IDLE"
  BY <1>2 DEF ParseAt
<1>6. /\ k + 1 = n => ParseAt(f, k + 1) = "UNLOCK3"
      /\ k + 1 # n => ParseAt(f, k + 1) = IF p[k + 1] = "00"
                                            THEN IF k > 0 /\ p[k] = "00" THEN "UNLOCK2" ELSE "UNLOCK1"
                                            ELSE "IDLE"
  BY <1>1, <1>2 DEF ParseAt
<1> HIDE DEF n, p
<1> DEFINE x == p[k - 1]
           y == p[k]
           z == p[k + 1]
<1>7. /\ parse \in {"IDLE", "UNLOCK1", "UNLOCK2"}
      /\ AfterPreamble(z) = ParseAt(f, k + 1)
  <2> HIDE DEF x, y, z
  <2>1. k + 1 = n <=> k >= 2 /\ x = "00" /\ y = "00" /\ z = "FF"
    BY <1>4 DEF x, y, z
  <2>2. /\ k > 1 /\ x = "00" /\ y = "00" => parse = "UNLOCK2"
        /\ k > 0 /\ y = "00" /\ ~(k > 1 /\ x = "00") => parse = "UNLOCK1"
        /\ ~(k > 0 /\ y = "00") => parse = "IDLE"
    BY <1>5 DEF x, y
  <2>3. /\ k + 1 = n => ParseAt(f, k + 1) = "UNLOCK3"
        /\ k + 1 # n /\ z = "00" /\ k > 0 /\ y = "00" => ParseAt(f, k + 1) = "UNLOCK2"
        /\ k + 1 # n /\ z = "00" /\ ~(k > 0 /\ y = "00") => ParseAt(f, k + 1) = "UNLOCK1"
        /\ k + 1 # n /\ z # "00" => ParseAt(f, k + 1) = "IDLE"
    BY <1>6 DEF y, z
  <2>4. CASE k > 1 /\ x = "00" /\ y = "00"
    BY <2>1, <2>2, <2>3, <2>4 DEF AfterPreamble
  <2>5. CASE k > 0 /\ y = "00" /\ ~(k > 1 /\ x = "00")
    BY <2>1, <2>2, <2>3, <2>5 DEF AfterPreamble
  <2>6. CASE ~(k > 0 /\ y = "00")
    BY <2>1, <2>2, <2>3, <2>6 DEF AfterPreamble
  <2> QED
    BY <2>4, <2>5, <2>6
<1> QED
  BY <1>7 DEF p, z

MifType == [cmd: Kinds \cup {None}, bad: BOOLEAN, read: BOOLEAN, retries: Int, max: Int]

\* process_th handles byte k + 1 of frame f: the parser follows the frame, and its end
\* completes the command.
LEMMA ProcessByte ==
  ASSUME NEW f \in Frames, NEW k \in 0..(Total(f) - 1), Coming(f, k), process_th, mif \in MifType
  PROVE  \/ /\ k + 1 < Total(f) /\ frame' # <<>> /\ Coming(f, k + 1)'
            /\ mif' \in MifType /\ UNCHANGED hist
         \/ /\ frame' = <<>> /\ parse' = "IDLE" /\ asked' = f /\ said' = None
            /\ mif' \in MifType /\ mif'.cmd = f.cmd /\ Loaded(f)'
<1> DEFINE n == Len(f.pre)
           b == Head(frame)
<1>1. /\ Total(f) \in Nat /\ n \in Nat /\ n >= 3 /\ k \in Nat /\ k < Total(f)
      /\ f.payload = "none" => Total(f) = n + 6
      /\ f.payload # "none" => Total(f) = n + 7
  BY TotalFacts
<1>2. Remains(frame, f, k) /\ parse = ParseAt(f, k) /\ frame' = Tail(frame)
  BY DEF Coming, process_th
<1>3. /\ b = frame[1] /\ Remains(frame', f, k + 1)
      /\ k + 1 = Total(f) => frame' = <<>>
      /\ k + 1 < Total(f) => frame' # <<>>
      /\ k + 1 <= n => b = f.pre[k + 1]
      /\ k + 1 \in Carried(f) => b = f
  BY <1>1, <1>2, RemainsTail
<1>4. Preamble(b) \/ Header(b) \/ PD0(b) \/ PDN(b) \/ DCS(b) \/ LOCK(b)
  BY DEF process_th
<1>5. /\ k >= n + 4 => mif.cmd = f.cmd
      /\ k >= n + 5 => Loaded(f)
  BY DEF Coming
<1>6. f.cmd \in Kinds /\ f.retries \in Int
  BY FrameFacts, Zenon
<1> HIDE DEF b
<1>7. CASE k < n
  <2>1. parse \in {"IDLE", "UNLOCK1", "UNLOCK2"} /\ AfterPreamble(b) = ParseAt(f, k + 1)
    BY <1>1, <1>2, <1>3, <1>7, PreambleStep
  <2>2. Preamble(b)
    BY <1>4, <2>1 DEF Header, PD0, PDN, DCS, LOCK
  <2>3. parse' = ParseAt(f, k + 1) /\ UNCHANGED <<mif, hist>>
    BY <2>1, <2>2 DEF Preamble
  <2>4. k + 1 < Total(f) /\ ~(k + 1 >= n + 4) /\ ~(k + 1 >= n + 5)
    BY <1>1, <1>7
  <2> QED
    BY <1>3, <2>3, <2>4, Zenon DEF Coming
<1>8. CASE k \in {n, n + 1, n + 2}
  <2>1. /\ parse = IF k = n THEN "UNLOCK3" ELSE IF k = n + 1 THEN "UNLOCK4" ELSE "UNLOCK5"
        /\ ParseAt(f, k + 1) = IF k = n THEN "UNLOCK4" ELSE IF k = n + 1 THEN "UNLOCK5" ELSE "PD0"
    BY <1>1, <1>2, <1>8 DEF ParseAt
  <2>2. Header(b)
    BY <1>4, <2>1 DEF Preamble, PD0, PDN, DCS, LOCK
  <2>3. parse' = ParseAt(f, k + 1) /\ UNCHANGED <<mif, hist>>
    BY <1>1, <1>8, <2>1, <2>2 DEF Header, AfterHeader
  <2>4. k + 1 < Total(f) /\ ~(k + 1 >= n + 4) /\ ~(k + 1 >= n + 5)
    BY <1>1, <1>8
  <2> QED
    BY <1>3, <2>3, <2>4, Zenon DEF Coming
<1>9. CASE k = n + 3
  <2>1. /\ parse = "PD0" /\ b = f
        /\ ParseAt(f, k + 1) = IF f.payload = "none" THEN "DCS" ELSE "PDN"
    <3>1. k + 1 \in Carried(f)
      BY <1>1, <1>9 DEF Carried
    <3>2. parse = "PD0"
      BY <1>1, <1>2, <1>9 DEF ParseAt
    <3>3. ParseAt(f, k + 1) = IF f.payload = "none" THEN "DCS" ELSE "PDN"
      BY <1>1, <1>9 DEF ParseAt
    <3> QED
      BY <1>3, <3>1, <3>2, <3>3, Zenon
  <2>2. PD0(f)
    BY <1>4, <2>1 DEF Preamble, Header, PDN, DCS, LOCK
  <2>3. parse' = ParseAt(f, k + 1) /\ mif' = [mif EXCEPT !.cmd = f.cmd] /\ UNCHANGED hist
    BY <2>1, <2>2 DEF PD0
  <2>4. mif' \in MifType /\ mif'.cmd = f.cmd
    BY <1>6, <2>3 DEF MifType
  <2>5. k + 1 < Total(f) /\ ~(k + 1 >= n + 5)
    BY <1>1, <1>9
  <2> QED
    BY <1>3, <2>3, <2>4, <2>5, Zenon DEF Coming
<1>10. CASE k = n + 4 /\ f.payload # "none"
  <2>1. parse = "PDN" /\ b = f /\ ParseAt(f, k + 1) = "DCS" /\ mif.cmd = f.cmd
    <3>1. k + 1 \in Carried(f) /\ mif.cmd = f.cmd
      BY <1>1, <1>5, <1>10 DEF Carried
    <3>2. parse = "PDN" /\ ParseAt(f, k + 1) = "DCS"
      <4>1. Total(f) = n + 7 /\ k = n + 4
        BY <1>1, <1>10
      <4>2. ParseAt(f, k) = "PDN"
        BY <1>1, <4>1 DEF ParseAt
      <4>3. ParseAt(f, k + 1) = "DCS"
        BY <1>1, <4>1, SMTT(40) DEF ParseAt
      <4> QED
        BY <1>2, <4>2, <4>3
    <3> QED
      BY <1>3, <3>1, <3>2, Zenon
  <2>2. PDN(f)
    BY <1>4, <2>1 DEF Preamble, Header, PD0, DCS, LOCK
  <2>3. /\ parse' = ParseAt(f, k + 1) /\ UNCHANGED hist
        /\ mif' = [mif EXCEPT !.bad = IsBad(f),
                              !.read = IF mif.cmd = "exchange" /\ ~IsBad(f) THEN f.payload = "read" ELSE mif.read,
                              !.max = IF mif.cmd = "rfconfig" THEN f.retries ELSE mif.max]
    BY <2>1, <2>2 DEF PDN
  <2>4. IsBad(f) = (f.cmd = "rfconfig" \/ (f.payload = "short" /\ f.cmd \in Checked)) /\ IsBad(f) \in BOOLEAN
    BY <2>1, Zenon DEF IsBad
  <2>5. /\ mif'.cmd = mif.cmd /\ mif'.bad = IsBad(f) /\ mif'.retries = mif.retries
        /\ mif'.read = IF mif.cmd = "exchange" /\ ~IsBad(f) THEN f.payload = "read" ELSE mif.read
        /\ mif'.max = IF mif.cmd = "rfconfig" THEN f.retries ELSE mif.max
    BY <2>3 DEF MifType
  <2>6. mif'.cmd = f.cmd /\ Loaded(f)'
    BY <2>1, <2>4, <2>5, Zenon DEF Loaded
  <2>7. mif' \in MifType
    <3>1. mif.read \in BOOLEAN /\ mif.max \in Int
      BY DEF MifType
    <3>2. (IF mif.cmd = "exchange" /\ ~IsBad(f) THEN f.payload = "read" ELSE mif.read) \in BOOLEAN
      BY <3>1, Zenon
    <3>3. (IF mif.cmd = "rfconfig" THEN f.retries ELSE mif.max) \in Int
      BY <1>6, <3>1
    <3> QED
      BY <2>3, <2>4, <3>2, <3>3 DEF MifType
  <2>8. k + 1 < Total(f)
    BY <1>1, <1>10
  <2> QED
    BY <1>3, <2>3, <2>6, <2>7, <2>8, Zenon DEF Coming
<1>11. CASE k = Total(f) - 2
  <2>1. parse = "DCS" /\ ParseAt(f, k + 1) = "LOCK" /\ mif.cmd = f.cmd /\ Loaded(f)
    <3>1. parse = "DCS" /\ ParseAt(f, k + 1) = "LOCK" /\ k >= n + 4
      BY <1>1, <1>2, <1>11 DEF ParseAt
    <3>2. f.payload # "none" => k >= n + 5
      BY <1>1, <1>11
    <3>3. Loaded(f)
      BY <1>5, <3>2, Zenon DEF Loaded
    <3> QED
      BY <1>5, <3>1, <3>3
  <2>2. DCS(b)
    BY <1>4, <2>1 DEF Preamble, Header, PD0, PDN, LOCK
  <2>3. parse' = ParseAt(f, k + 1) /\ UNCHANGED <<mif, hist>>
    BY <2>1, <2>2 DEF DCS
  <2>4. k + 1 < Total(f)
    BY <1>1, <1>11
  <2>5. Loaded(f)' /\ mif'.cmd = f.cmd
    BY <2>1, <2>3, Zenon DEF Loaded
  <2> QED
    BY <1>3, <2>3, <2>4, <2>5, Zenon DEF Coming
<1>12. CASE k = Total(f) - 1
  <2>1. parse = "LOCK" /\ b = f /\ k >= n + 5 /\ mif.cmd = f.cmd /\ Loaded(f)
    BY <1>1, <1>2, <1>3, <1>5, <1>12 DEF ParseAt, Carried
  <2>2. LOCK(f)
    BY <1>4, <2>1 DEF Preamble, Header, PD0, PDN, DCS
  <2>3. /\ parse' = "IDLE" /\ asked' = f /\ said' = None
        /\ mif' = [mif EXCEPT !.retries = IF mif.cmd = "inlist" THEN mif.max ELSE @]
    BY <2>2 DEF LOCK
  <2>4. mif' \in MifType
    BY <2>3 DEF MifType
  <2>5. mif'.cmd = mif.cmd /\ mif'.bad = mif.bad /\ mif'.read = mif.read
    BY <2>3 DEF MifType
  <2>6. Loaded(f)' /\ mif'.cmd = f.cmd
    BY <2>1, <2>5, Zenon DEF Loaded
  <2>7. frame' = <<>>
    BY <1>1, <1>3, <1>12
  <2> QED
    BY <2>3, <2>4, <2>6, <2>7, Zenon
<1>13. \/ k < n \/ k \in {n, n + 1, n + 2} \/ k = n + 3 \/ (k = n + 4 /\ f.payload # "none")
       \/ k = Total(f) - 2 \/ k = Total(f) - 1
  BY <1>1
<1> QED
  BY <1>7, <1>8, <1>9, <1>10, <1>11, <1>12, <1>13, Zenon

LEMMA AnswerInit == Init => AnswerInv
<1> SUFFICES ASSUME Init PROVE AnswerInv
  OBVIOUS
<1>1. PICK b \in BOOLEAN : mif = [cmd |-> None, bad |-> b, read |-> FALSE, retries |-> 0, max |-> Endless]
  BY DEF Init
<1>2. mif \in [cmd: Kinds \cup {None}, bad: BOOLEAN, read: BOOLEAN, retries: Int, max: Int]
  BY <1>1, RetriesAssumption
<1> QED
  BY <1>2, AckInit DEF Init, AnswerInv, Working

LEMMA AnswerProcess == AnswerInv /\ process_th => AnswerInv'
<1> SUFFICES ASSUME AnswerInv, process_th PROVE AnswerInv'
  OBVIOUS
<1>1. AckInv /\ AckInv' /\ frame # <<>> /\ mif \in MifType
  BY AckProcess DEF AnswerInv, process_th, MifType
<1>2. PICK f \in Frames : \E k \in 0..(Total(f) - 1) : Coming(f, k)
  BY <1>1 DEF AnswerInv
<1>3. PICK k \in 0..(Total(f) - 1) : Coming(f, k)
  BY <1>2
<1>4. CASE /\ k + 1 < Total(f) /\ frame' # <<>> /\ Coming(f, k + 1)'
           /\ mif' \in MifType /\ UNCHANGED hist
  <2>1. k + 1 \in 0..(Total(f) - 1)
    BY <1>4, TotalFacts
  <2>2. \E g \in Frames : \E j \in 0..(Total(g) - 1) : Coming(g, j)'
    BY <1>4, <2>1
  <2>3. said' # None => said' \in Answers(asked)'
    BY <1>4 DEF AnswerInv, hist, Answers
  <2> QED
    BY <1>1, <1>4, <2>2, <2>3, Zenon DEF AnswerInv, Working, MifType
<1>5. CASE /\ frame' = <<>> /\ parse' = "IDLE" /\ asked' = f /\ said' = None
           /\ mif' \in MifType /\ mif'.cmd = f.cmd /\ Loaded(f)'
  <2>1. Loaded(asked)' /\ asked' \in Frames /\ mif'.cmd = asked'.cmd
    BY <1>5, Zenon DEF Loaded
  <2> QED
    BY <1>1, <1>5, <2>1, Zenon DEF AnswerInv, Working, MifType
<1> QED
  BY <1>1, <1>3, <1>4, <1>5, ProcessByte

\* While the registers hold the command, what pushresp writes answers it.
LEMMA ResponseRight ==
  ASSUME PayloadsGiven, asked \in Frames, mif.cmd = asked.cmd, Loaded(asked)
  PROVE  Response \in Answers(asked)
<1>1. asked.cmd \in Kinds /\ asked.payload \in {"read", "good", "short", "none"}
  BY FrameFacts, Zenon
<1>2. CASE asked.payload = "none"
  <2>1. asked.cmd \in {"rfconfig", "unknown"}
    BY <1>2 DEF PayloadsGiven
  <2> QED
    BY <2>1 DEF Response, Answers
<1>3. CASE asked.payload # "none" /\ asked.cmd = "exchange"
  BY <1>1, <1>3 DEF Response, Answers, Loaded, Checked
<1>4. CASE asked.payload # "none" /\ asked.cmd # "exchange"
  <2>1. mif.bad = (asked.cmd = "rfconfig" \/ (asked.payload = "short" /\ asked.cmd \in Checked))
    BY <1>4, Zenon DEF Loaded
  <2>2. CASE asked.cmd = "inlist"
    BY <1>4, <2>1, <2>2 DEF Response, Answers, Checked
  <2>3. CASE asked.cmd = "sam"
    BY <1>4, <2>1, <2>3 DEF Response, Answers, Checked
  <2>4. CASE asked.cmd = "version"
    BY <1>4, <2>1, <2>4 DEF Response, Answers, Checked
  <2>5. CASE asked.cmd \in {"rfconfig", "unknown"}
    BY <1>4, <2>5 DEF Response, Answers
  <2> QED
    BY <1>1, <1>4, <2>2, <2>3, <2>4, <2>5 DEF Kinds
<1> QED
  BY <1>2, <1>3, <1>4

LEMMA AnswerResp == PayloadsGiven /\ AnswerInv /\ resp_th => AnswerInv'
<1> SUFFICES ASSUME PayloadsGiven, AnswerInv, resp_th PROVE AnswerInv'
  OBVIOUS
<1>1. AckInv /\ AckInv' /\ UNCHANGED <<frame, parse, asked>> /\ wake # {} /\ wake' = {} /\ push = <<>>
  BY AckResp DEF AnswerInv, AckInv, resp_th
<1>2. UNCHANGED <<parse, frame, mif.cmd, mif.bad, mif.read>> /\ mif' \in MifType
  BY <1>1 DEF AnswerInv, resp_th, RespNew, RespAck, MifType
<1>3. (frame' = <<>> => parse' = "IDLE")
      /\ (frame' # <<>> => \E f \in Frames : \E k \in 0..(Total(f) - 1) : Coming(f, k)')
  <2>1. \A f \in Frames : \A k \in 0..(Total(f) - 1) : Coming(f, k) => Coming(f, k)'
    BY <1>2 DEF Coming, Loaded
  <2> QED
    BY <1>2, <2>1 DEF AnswerInv
<1>4. Working' => Working
  BY <1>1 DEF Working, resp_th, RespNew, RespAck
<1>5. Working => asked \in Frames /\ mif.cmd = asked.cmd /\ Loaded(asked)
  BY DEF AnswerInv
<1>6. Working' => asked' \in Frames /\ mif'.cmd = asked'.cmd /\ Loaded(asked)'
  BY <1>1, <1>2, <1>4, <1>5 DEF Loaded
<1>7. said' # None => said' \in Answers(asked)'
  <2>1. CASE UNCHANGED said
    BY <1>1, <2>1 DEF AnswerInv, Answers
  <2>2. CASE said' = Response /\ wake = {"ack"} /\ opstate = "BUSY"
    <3>1. frame = <<>>
      BY <1>1, <2>2 DEF AckInv
    <3>2. Response \in Answers(asked)
      BY <1>1, <1>5, <2>2, <3>1, ResponseRight DEF Working
    <3>3. Answers(asked)' = Answers(asked)
      BY <1>1 DEF Answers
    <3> QED
      BY <2>2, <3>2, <3>3
  <2> QED
    BY <2>1, <2>2 DEF resp_th, RespNew, RespAck
<1> QED
  BY <1>1, <1>2, <1>3, <1>6, <1>7, Zenon DEF AnswerInv, MifType

\* Steps that touch neither the parser nor the command
LEMMA AnswerFrame ==
  ASSUME AnswerInv, AckInv', UNCHANGED <<frame, parse, asked, said>>,
         mif' \in MifType, UNCHANGED <<mif.cmd, mif.bad>>, mif'.read => mif.read,
         Working' => Working
  PROVE  AnswerInv'
<1>1. \A f \in Frames : Loaded(f) => Loaded(f)'
  BY DEF Loaded
<1>2. \A f \in Frames : \A k \in 0..(Total(f) - 1) : Coming(f, k) => Coming(f, k)'
  BY <1>1 DEF Coming
<1>3. Answers(asked)' = Answers(asked)
  BY DEF Answers
<1>4. Working' => asked' \in Frames /\ mif'.cmd = asked'.cmd /\ Loaded(asked)'
  BY DEF AnswerInv, Loaded
<1> QED
  BY <1>2, <1>3, <1>4 DEF AnswerInv, MifType

LEMMA AnswerStep ==
  PayloadsGiven /\ ~LeaveUnread /\ ~SlowFrames /\ IrqInv /\ AnswerInv /\ [Next]_vars => AnswerInv'
<1> SUFFICES ASSUME PayloadsGiven, ~LeaveUnread, ~SlowFrames, IrqInv, AnswerInv, [Next]_vars PROVE AnswerInv'
  OBVIOUS
<1>1. AckInv /\ AckInv' /\ mif \in MifType
  BY AckStep DEF AnswerInv, MifType
<1>2. CASE process_th
  BY <1>2, AnswerProcess
<1>3. CASE resp_th
  BY <1>3, AnswerResp
<1>4. CASE Push
  <2>1. UNCHANGED <<frame, parse, asked, said>> /\ push # <<>>
    BY <1>4 DEF Push, hist
  <2>2. mif' \in MifType /\ UNCHANGED <<mif.bad, mif.read>>
    BY <1>1, <1>4 DEF Push, MifType
  <2>3. frame = <<>> /\ wake = {} /\ wake' = {}
    BY <1>1, <1>4, <2>1 DEF AckInv, Push
  <2>4. ~Working'
    <3>1. push \in Seq(Sayings) /\ push' = Tail(push)
      BY <1>4 DEF IrqInv, Push
    <3>2. CASE Len(push) = 1
      BY <1>4, <2>3, <3>2 DEF Push, Working
    <3>3. CASE Len(push) # 1
      <4>1. Len(push) \in Nat /\ Len(push) > 1
        <5>1. Len(push) \in Nat
          BY <3>1
        <5>2. Len(push) # 0
          BY <2>1, <3>1, EmptySeq
        <5>3. \A m \in Nat : m # 0 /\ m # 1 => m > 1
          OBVIOUS
        <5> QED
          BY <3>3, <5>1, <5>2, <5>3, Zenon
      <4>2. Len(Tail(push)) = Len(push) - 1
        BY <2>1, <3>1
      <4>3. push' # <<>>
        <5>1. Len(<<>>) = 0
          OBVIOUS
        <5>2. Len(push') # 0
          BY <3>1, <4>1, <4>2
        <5> QED
          BY <5>1, <5>2, Zenon
      <4> QED
        BY <4>3 DEF Working
    <3> QED
      BY <3>2, <3>3
  <2>5. Answers(asked)' = Answers(asked)
    BY <2>1 DEF Answers
  <2> QED
    BY <1>1, <2>1, <2>2, <2>3, <2>4, <2>5 DEF AnswerInv, MifType
<1>5. CASE AckFires \/ irqmanage_th
  <2>1. UNCHANGED <<frame, parse, asked, said, mif, push, opstate>> /\ ("new" \in wake' => "new" \in wake)
    BY <1>5 DEF AckFires, irqmanage_th, hist
  <2> QED
    BY <1>1, <2>1, AnswerFrame DEF Working
<1>6. ASSUME NEW f \in Frames, Send(f) PROVE AnswerInv'
  <2>1. frame = <<>> /\ frame' = Framed(f) /\ UNCHANGED <<parse, mif, asked, said>>
    BY <1>6 DEF Send, hist
  <2>2. Remains(frame', f, 0) /\ 0 \in 0..(Total(f) - 1) /\ Len(f.pre) >= 3 /\ Len(f.pre) \in Nat
    BY <2>1, FramedRemains, TotalFacts
  <2>3. frame' # <<>>
    BY <2>2, TotalFacts DEF Remains
  <2>4. ParseAt(f, 0) = "IDLE"
    BY <2>2 DEF ParseAt
  <2>5. Coming(f, 0)'
    BY <2>1, <2>2, <2>4 DEF Coming, AnswerInv
  <2>6. \E g \in Frames : \E j \in 0..(Total(g) - 1) : Coming(g, j)'
    BY <2>2, <2>5
  <2>7. Answers(asked)' = Answers(asked)
    BY <2>1 DEF Answers
  <2> QED
    BY <1>1, <2>1, <2>3, <2>6, <2>7, Zenon DEF AnswerInv, Working
<1>7. CASE setcardpresent
  <2>1. mif' = [mif EXCEPT !.read = FALSE] /\ UNCHANGED <<frame, parse, asked, said, push, wake, opstate>>
    BY <1>7 DEF setcardpresent, hist
  <2>2. mif' \in MifType /\ UNCHANGED <<mif.cmd, mif.bad>> /\ ~mif'.read
    BY <1>1, <2>1 DEF MifType
  <2> QED
    BY <1>1, <2>1, <2>2, AnswerFrame DEF Working
<1>8. CASE UNCHANGED <<frame, parse, asked, said, mif, push, wake, opstate>>
  BY <1>1, <1>8, AnswerFrame DEF Working
<1> QED
  BY <1>2, <1>3, <1>4, <1>5, <1>6, <1>7, <1>8
    DEF Next, vars, ReadBegin, ReadItem, Nack, Stop, Drop, setcardnotpresent, hist

\* For every set of frames with a proper preamble, noise before it included, and a payload
\* where the code looks for one, every number of retries and every size of the FIFO: what
\* resp_th says after a command is an answer to that command, also when it came while an
\* earlier one was being worked on.
THEOREM AnswersTheLastCommand ==
  PayloadsGiven /\ ~LeaveUnread /\ ~SlowFrames /\ Spec => []RightAnswer
<1>1. AnswerInv => RightAnswer
  BY DEF AnswerInv, RightAnswer
<1> SUFFICES ASSUME PayloadsGiven, ~LeaveUnread, ~SlowFrames PROVE Spec => []RightAnswer
  OBVIOUS
<1>2. IrqInv /\ AnswerInv /\ [Next]_vars => AnswerInv'
  BY AnswerStep
<1> QED
  BY IrqInit, IrqStep, AnswerInit, <1>2, <1>1, PTL DEF Spec
============================================================================
