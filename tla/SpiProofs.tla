----------------------------- MODULE SpiProofs -----------------------------
(***************************************************************************)
(* Theorems about Spi, for any number of tasks, any clocks, any size of    *)
(* data_buf and any transfers: what goes out and what comes back are exact *)
(* over all chunks of a transaction.                                       *)
(*                                                                         *)
(* The argument follows the task that has the lock through its chunks.     *)
(* Between two chunks the peripheral rests and the registers are those     *)
(* that the task wrote.  In a chunk, transfer_th is at some bit: the bits  *)
(* before it have gone out and their places in data_buf hold what came in, *)
(* the others still hold what has to go out.  A transfer cannot end before *)
(* waitdone listens, because both the task and transfer_th wait for the    *)
(* same edge of the APB clock.                                             *)
(***************************************************************************)
EXTENDS Spi, SequenceTheorems, TLAPS

\* The jobs that the layer and the peripheral agree on: no writes (see the run spi_write), and
\* one byte if the most significant bit goes first (see calcnextbit).
Agreed == \A j \in Jobs : j.kind = "transfer" /\ (j.msb => j.bits = 8)

PCs == {"idle", "lock", "begun", "started", "waitdone", "done", "end"}

\* The first m bits of a job's data on the wire, and of what comes back
Sent(msb, m) == [k \in 1..m |-> <<"out", OnWire(msb, k - 1)>>]
Got(msb, m)  == [k \in 1..m |-> <<"in", OnWire(msb, k - 1)>>]

Size    == regs.mosi + 1
Base(t) == task[t].sent - Size

\* The first n places of a buffer b, when i bits of a chunk are exchanged that begins at bit s
\* of the job
Swapped(b, msb, s, n, i) ==
  \A p \in 0..(n - 1) :
    b[p] = IF converttoendian(msb, p) < i THEN <<"in", s + converttoendian(msb, p)>> ELSE <<"out", s + p>>

Exchanged(t, i) == Swapped(buf, regs.msb, Base(t), Size, i)

\* transfer_th is at bit i of the chunk.
Cycle(t) ==
  \E i \in 0..(Size - 1) :
    /\ wire = Sent(regs.msb, Base(t) + i + 1)
    /\ tr.bit = converttoendian(regs.msb, i) /\ tr.bitrd = converttoendian(regs.msb, i)
    /\ tr.lastbit = converttoendian(regs.msb, Size - 1)
    /\ tr.lastbitrd = converttoendian(regs.msb, Size - 1)
    /\ Exchanged(t, i)

\* Nothing of the chunk has gone out.
Fresh(t) == wire = Sent(regs.msb, Base(t)) /\ Exchanged(t, 0)

Started(t) ==
  \/ trig = {"update_ev"} /\ tr.pc = "idle" /\ regs.usr = TRUE /\ left[t] = NextApb /\ Fresh(t)
  \/ trig = {} /\ tr.pc = "starting" /\ left[t] = left["transfer_th"] /\ Fresh(t)
  \/ trig = {} /\ tr.pc = "high" /\ left[t] = 0 /\ left["transfer_th"] > 0 /\ Cycle(t)

Waiting(t) ==
  /\ trig = {}
  /\ \/ tr.pc = "starting" /\ Fresh(t)
     \/ tr.pc \in {"high", "low"} /\ Cycle(t)

Finished(t) ==
  /\ tr.pc = "idle" /\ trig \in {{}, {"lowerusrbit_ev"}}
  /\ trig = {} => regs.usr = FALSE
  /\ trig # {} => left[t] > 0
  /\ wire = Sent(regs.msb, task[t].sent) /\ Exchanged(t, Size)

\* A chunk of whole bytes is under way.
InChunk(t) ==
  /\ regs.mosi \in Positions /\ Size % 8 = 0 /\ regs.miso = regs.mosi
  /\ Base(t) \in Nat /\ Base(t) % 8 = 0
  /\ task[t].result = Got(regs.msb, Base(t))
  /\ task[t].pc = "started" => Started(t)
  /\ task[t].pc = "waitdone" => Waiting(t)
  /\ task[t].pc = "done" => Finished(t)

BetweenChunks(t) ==
  /\ tr.pc = "idle" /\ regs.usr = FALSE /\ trig \in {{}, {"update_ev"}}
  /\ trig # {} => left[t] > 0 /\ task[t].pc = "begun"
  /\ task[t].pc = "begun" => task[t].sent < task[t].job.bits
  /\ task[t].pc = "end" => task[t].sent = task[t].job.bits
  /\ wire = Sent(regs.msb, task[t].sent) /\ task[t].result = Got(regs.msb, task[t].sent)

Holds(t) ==
  /\ task[t].job \in Jobs /\ task[t].sent \in Nat /\ task[t].sent % 8 = 0
  /\ task[t].sent <= task[t].job.bits
  /\ regs.msb = task[t].job.msb
  /\ task[t].pc \in {"begun", "end"} => BetweenChunks(t)
  /\ task[t].pc \in {"started", "waitdone", "done"} => InChunk(t)

Shape ==
  /\ lock \in Tasks \cup {None}
  /\ DOMAIN task = Tasks
  /\ \A t \in Tasks : /\ DOMAIN task[t] = {"pc", "job", "sent", "result"} /\ task[t].pc \in PCs
                      /\ task[t].pc \in {"begun", "started", "waitdone", "done", "end"} <=> lock = t
                      /\ task[t].pc = "lock" => task[t].job \in Jobs /\ task[t].sent = 0 /\ task[t].result = <<>>
  /\ DOMAIN regs = {"usr", "mosi", "miso", "msb", "clock"} /\ regs.clock \in Clocks
  /\ DOMAIN tr = {"pc", "bit", "bitrd", "lastbit", "lastbitrd", "clock"} /\ tr.clock \in Clocks
  /\ DOMAIN buf = Positions
  /\ left \in [Threads -> Nat] /\ half \in {0, 1}
  /\ sig.clock \in Clocks /\ ("update_ev" \notin trig => sig = regs)

BusInv ==
  /\ Shape
  /\ lock = None => tr.pc = "idle" /\ trig = {} /\ regs.usr = FALSE
  /\ \A t \in Tasks : lock = t => Holds(t)

----------------------------------------------------------------------------
(* The order of the bits.                                                  *)

\* A place and the bit that goes out from it change roles.
LEMMA PlaceFacts ==
  ASSUME NEW m \in BOOLEAN, NEW k \in Nat
  PROVE  /\ converttoendian(m, k) \in Nat
         /\ converttoendian(m, converttoendian(m, k)) = k
         /\ OnWire(m, k) = converttoendian(m, k)
  BY DEF converttoendian, OnWire

\* A chunk of whole bytes is sent from its own places.
LEMMA PlaceInChunk ==
  ASSUME NEW m \in BOOLEAN, NEW n \in Nat, n % 8 = 0, NEW k \in 0..(n - 1)
  PROVE  converttoendian(m, k) \in 0..(n - 1)
  BY DEF converttoendian

LEMMA PlaceShift ==
  ASSUME NEW m \in BOOLEAN, NEW b \in Nat, b % 8 = 0, NEW k \in Nat
  PROVE  OnWire(m, b + k) = b + converttoendian(m, k)
  BY DEF converttoendian, OnWire

\* calcnextbit goes from the place of a bit to the place of the next one, but for the step
\* from one byte to the next with the most significant bit first.
LEMMA PlaceNext ==
  ASSUME NEW m \in BOOLEAN, NEW k \in Nat, m => k + 1 < 8
  PROVE  calcnextbit(converttoendian(m, k), m) = converttoendian(m, k + 1)
<1>1. CASE m = TRUE
  <2>1. k % 8 = k /\ k \div 8 = 0 /\ (k + 1) % 8 = k + 1 /\ (k + 1) \div 8 = 0
    BY <1>1
  <2>2. converttoendian(m, k) = 7 - k /\ converttoendian(m, k + 1) = 7 - (k + 1)
    BY <1>1, <2>1 DEF converttoendian
  <2>3. (7 - k) % 8 # 0
    BY <1>1
  <2>4. calcnextbit(7 - k, TRUE) = 7 - (k + 1)
    <3>1. calcnextbit(7 - k, TRUE) = (7 - k) - 1
      BY <2>3 DEF calcnextbit
    <3>2. (7 - k) - 1 = 7 - (k + 1)
      OBVIOUS
    <3> QED
      BY <3>1, <3>2, Zenon
  <2>5. calcnextbit(converttoendian(m, k), m) = calcnextbit(7 - k, TRUE)
    BY <1>1, <2>2, Zenon
  <2> QED
    BY <2>2, <2>4, <2>5, Zenon
<1>2. CASE m = FALSE
  BY <1>2 DEF converttoendian, calcnextbit
<1> QED
  BY <1>1, <1>2

LEMMA PlaceUnique ==
  ASSUME NEW m \in BOOLEAN, NEW j \in Nat, NEW k \in Nat, converttoendian(m, j) = converttoendian(m, k)
  PROVE  j = k
  BY PlaceFacts

----------------------------------------------------------------------------
(* The bits on the wire and the bits that come back.                       *)

LEMMA FunIsSeq ==
  ASSUME NEW S, NEW n \in Nat, NEW f \in [1..n -> S]
  PROVE  f \in Seq(S) /\ Len(f) = n
  OBVIOUS

LEMMA SentFacts ==
  ASSUME NEW msb, NEW m \in Nat
  PROVE  /\ Sent(msb, 0) = <<>> /\ Len(Sent(msb, m)) = m
         /\ Append(Sent(msb, m), <<"out", OnWire(msb, m)>>) = Sent(msb, m + 1)
<1> DEFINE e(k) == <<"out", OnWire(msb, k - 1)>>
           S == {e(k) : k \in 1..(m + 1)}
           s == [k \in 1..m |-> e(k)]
           z == [k \in 1..(m + 1) |-> e(k)]
<1>1. s \in Seq(S) /\ Len(s) = m /\ z \in Seq(S) /\ Len(z) = m + 1
  <2>1. s \in [1..m -> S] /\ z \in [1..(m + 1) -> S] /\ m + 1 \in Nat
    OBVIOUS
  <2> HIDE DEF s, z, S
  <2> QED
    BY <2>1
<1>2. Sent(msb, m) = s /\ Sent(msb, m + 1) = z
  BY DEF Sent
<1>3. e(m + 1) = <<"out", OnWire(msb, m)>>
  BY DEF OnWire
<1>4. e(m + 1) \in S
  OBVIOUS
<1>5. Append(s, e(m + 1)) = z
  <2>1. /\ Append(s, e(m + 1)) \in Seq(S) /\ Len(Append(s, e(m + 1))) = m + 1
        /\ \A k \in 1..m : Append(s, e(m + 1))[k] = s[k]
        /\ Append(s, e(m + 1))[m + 1] = e(m + 1)
    <3> HIDE DEF s, S, e
    <3> QED
      BY <1>1, <1>4
  <2>2. \A k \in 1..(m + 1) : Append(s, e(m + 1))[k] = z[k]
    <3>1. \A k \in 1..m : s[k] = e(k) /\ z[k] = e(k)
      OBVIOUS
    <3>2. z[m + 1] = e(m + 1)
      OBVIOUS
    <3> HIDE DEF s, z, e
    <3> QED
      BY <2>1, <3>1, <3>2
  <2> HIDE DEF s, z, e, S
  <2> QED
    BY <1>1, <2>1, <2>2, SeqEqual
<1>6. Sent(msb, 0) = <<>>
  BY DEF Sent
<1> QED
  BY <1>1, <1>2, <1>3, <1>5, <1>6

\* The result grows by the places of a chunk.
LEMMA GotFacts ==
  ASSUME NEW msb, NEW b \in Nat, NEW n \in Nat, NEW c,
         c = [k \in 1..n |-> <<"in", OnWire(msb, b + k - 1)>>]
  PROVE  Got(msb, 0) = <<>> /\ Got(msb, b) \o c = Got(msb, b + n)
<1> DEFINE e(k) == <<"in", OnWire(msb, k - 1)>>
           S == {e(k) : k \in 1..(b + n)}
           s == [k \in 1..b |-> e(k)]
           z == [k \in 1..(b + n) |-> e(k)]
<1>1. s \in Seq(S) /\ Len(s) = b /\ z \in Seq(S) /\ Len(z) = b + n
  <2>1. s \in [1..b -> S] /\ z \in [1..(b + n) -> S] /\ b + n \in Nat
    <3>1. (\A k \in 1..b : k \in 1..(b + n)) /\ b + n \in Nat
      OBVIOUS
    <3>2. \A k \in 1..(b + n) : e(k) \in S
      OBVIOUS
    <3> HIDE DEF e, S
    <3> QED
      BY <3>1, <3>2
  <2> HIDE DEF s, z, S
  <2> QED
    BY <2>1
<1>2. Got(msb, b) = s /\ Got(msb, b + n) = z
  BY DEF Got
<1>3. c \in Seq(S) /\ Len(c) = n /\ \A k \in 1..n : c[k] = e(b + k)
  <2>1. \A k \in 1..n : c[k] = e(b + k)
    <3>1. \A k \in 1..n : b + k - 1 = (b + k) - 1
      OBVIOUS
    <3> QED
      BY <3>1
  <2>2. \A k \in 1..n : e(b + k) \in S
    <3>1. \A k \in 1..n : b + k \in 1..(b + n)
      OBVIOUS
    <3>2. \A k \in 1..(b + n) : e(k) \in S
      OBVIOUS
    <3> HIDE DEF e, S
    <3> QED
      BY <3>1, <3>2
  <2>3. c \in [1..n -> S]
    <3>1. c = [k \in 1..n |-> c[k]]
      OBVIOUS
    <3> HIDE DEF S, e
    <3> QED
      BY <2>1, <2>2, <3>1
  <2> HIDE DEF S, e
  <2>4. c \in Seq(S) /\ Len(c) = n
    BY <2>3, FunIsSeq
  <2> QED
    BY <2>1, <2>4
<1>4. s \o c = z
  <2>1. /\ s \o c \in Seq(S) /\ Len(s \o c) = b + n
        /\ \A k \in 1..(b + n) : (s \o c)[k] = IF k <= b THEN s[k] ELSE c[k - b]
    <3> HIDE DEF s, S, e
    <3>1. /\ s \o c \in Seq(S) /\ Len(s \o c) = Len(s) + Len(c)
          /\ \A k \in 1..(Len(s) + Len(c)) : (s \o c)[k] = IF k <= Len(s) THEN s[k] ELSE c[k - Len(s)]
      BY <1>1, <1>3, ConcatProperties
    <3> QED
      BY <1>1, <1>3, <3>1
  <2>2. ASSUME NEW k \in 1..(b + n) PROVE (s \o c)[k] = z[k]
    <3>1. z[k] = e(k) /\ (k <= b => s[k] = e(k))
      OBVIOUS
    <3>2. k > b => k - b \in 1..n /\ b + (k - b) = k
      OBVIOUS
    <3>3. (s \o c)[k] = IF k <= b THEN s[k] ELSE c[k - b]
      BY <2>1
    <3> HIDE DEF s, z, e
    <3>4. CASE k <= b
      BY <3>1, <3>3, <3>4
    <3>5. CASE k > b
      <4>1. c[k - b] = e(b + (k - b))
        BY <1>3, <3>2, <3>5
      <4> QED
        BY <3>1, <3>2, <3>3, <3>5, <4>1
    <3>6. k <= b \/ k > b
      OBVIOUS
    <3> QED
      BY <3>4, <3>5, <3>6
  <2> HIDE DEF s, z, e, S
  <2> QED
    BY <1>1, <2>1, <2>2, SeqEqual
<1>5. Got(msb, 0) = <<>>
  BY DEF Got
<1> QED
  BY <1>2, <1>4, <1>5

----------------------------------------------------------------------------
(* The buffer in a chunk.                                                  *)

LEMMA BufFacts == BufBits \in Nat /\ BufBits > 0 /\ BufBits % 8 = 0
<1>1. BufBits \in Nat /\ BufBits % 32 = 0 /\ BufBits > 0
  BY BufAssumption
<1> QED
  BY <1>1

\* A chunk is written in its places.
LEMMA SwappedStart ==
  ASSUME NEW m \in BOOLEAN, NEW s \in Nat, NEW n \in Nat, NEW b, \A p \in 0..(n - 1) : b[p] = <<"out", s + p>>
  PROVE  Swapped(b, m, s, n, 0)
<1>1. \A p \in 0..(n - 1) : converttoendian(m, p) \in Nat
  BY PlaceFacts
<1>2. \A p \in 0..(n - 1) : ~(converttoendian(m, p) < 0)
  BY <1>1
<1> QED
  BY <1>2 DEF Swapped

\* A bit that is to go out is still there.
LEMMA SwappedOut ==
  ASSUME NEW m \in BOOLEAN, NEW s \in Nat, s % 8 = 0, NEW n \in Nat, n % 8 = 0, NEW b, NEW i \in Nat,
         Swapped(b, m, s, n, i), NEW j \in 0..(n - 1), j >= i
  PROVE  b[converttoendian(m, j)] = <<"out", OnWire(m, s + j)>>
<1> DEFINE c == converttoendian(m, j)
<1>1. c \in 0..(n - 1)
  BY PlaceInChunk
<1>2. converttoendian(m, c) = j
  BY PlaceFacts
<1>3. OnWire(m, s + j) = s + c
  <2>1. j \in Nat
    OBVIOUS
  <2> QED
    BY <2>1, PlaceShift
<1> HIDE DEF c
<1>4. ~(converttoendian(m, c) < i)
  BY <1>2
<1>5. b[c] = <<"out", s + c>>
  BY <1>1, <1>4 DEF Swapped
<1> QED
  BY <1>3, <1>5 DEF c

\* A received bit goes to its place.
LEMMA SwappedStep ==
  ASSUME NEW m \in BOOLEAN, NEW s \in Nat, NEW n \in Nat, n % 8 = 0, NEW b, 0..(n - 1) \subseteq DOMAIN b,
         NEW i \in 0..(n - 1), Swapped(b, m, s, n, i), NEW w, w = s + i,
         NEW d, d = [b EXCEPT ![converttoendian(m, i)] = <<"in", w>>]
  PROVE  Swapped(d, m, s, n, i + 1)
<1> DEFINE c == converttoendian(m, i)
<1>1. c \in 0..(n - 1)
  BY PlaceInChunk
<1>2. converttoendian(m, c) = i
  BY PlaceFacts
<1> SUFFICES ASSUME NEW p \in 0..(n - 1)
             PROVE  d[p] = IF converttoendian(m, p) < i + 1 THEN <<"in", s + converttoendian(m, p)>>
                           ELSE <<"out", s + p>>
  BY DEF Swapped
<1>3. b[p] = IF converttoendian(m, p) < i THEN <<"in", s + converttoendian(m, p)>> ELSE <<"out", s + p>>
  BY DEF Swapped
<1>4. converttoendian(m, p) \in Nat /\ converttoendian(m, converttoendian(m, p)) = p
  BY PlaceFacts
<1>5. d = [b EXCEPT ![c] = <<"in", w>>]
  OBVIOUS
<1> HIDE DEF c
<1>6. CASE p = c
  <2>1. d[p] = <<"in", w>>
    BY <1>1, <1>5, <1>6
  <2>2. converttoendian(m, p) = i /\ i < i + 1
    BY <1>2, <1>6
  <2> QED
    BY <2>1, <2>2
<1>7. CASE p # c
  <2>1. d[p] = b[p]
    BY <1>5, <1>7
  <2>2. converttoendian(m, p) # i
    BY <1>4, <1>7 DEF c
  <2>3. converttoendian(m, p) < i + 1 <=> converttoendian(m, p) < i
    BY <1>4, <2>2
  <2> QED
    BY <1>3, <2>1, <2>3
<1> QED
  BY <1>6, <1>7

\* At the end the buffer holds what came in, at the place of the bit that went out with it.
LEMMA SwappedEnd ==
  ASSUME NEW m \in BOOLEAN, NEW s \in Nat, s % 8 = 0, NEW n \in Nat, n % 8 = 0, NEW b, Swapped(b, m, s, n, n)
  PROVE  Got(m, s) \o [k \in 1..n |-> b[k - 1]] = Got(m, s + n)
<1> DEFINE c == [k \in 1..n |-> b[k - 1]]
<1>1. ASSUME NEW k \in 1..n PROVE b[k - 1] = <<"in", OnWire(m, s + k - 1)>>
  <2> DEFINE p == k - 1
  <2>1. p \in 0..(n - 1) /\ p \in Nat /\ s + k - 1 = s + p
    OBVIOUS
  <2> HIDE DEF p
  <2>2. converttoendian(m, p) \in 0..(n - 1)
    BY <2>1, PlaceInChunk
  <2>3. converttoendian(m, p) < n
    BY <2>2
  <2>4. b[p] = <<"in", s + converttoendian(m, p)>>
    BY <2>1, <2>3 DEF Swapped
  <2>5. OnWire(m, s + p) = s + converttoendian(m, p)
    BY <2>1, PlaceShift
  <2>6. b[p] = <<"in", OnWire(m, s + k - 1)>>
    BY <2>1, <2>4, <2>5
  <2> QED
    BY <2>6 DEF p
<1>2. c = [k \in 1..n |-> <<"in", OnWire(m, s + k - 1)>>]
  BY <1>1
<1> HIDE DEF c
<1>3. Got(m, s) \o c = Got(m, s + n)
  BY <1>2, GotFacts
<1> QED
  BY <1>3 DEF c

----------------------------------------------------------------------------
(* The shape of the state.                                                 *)

LEMMA JobFacts ==
  ASSUME NEW j \in Jobs
  PROVE  j.bits \in Nat /\ j.bits > 0 /\ j.bits % 8 = 0 /\ j.msb \in BOOLEAN /\ j.clock \in Clocks
  BY JobsAssumption

LEMMA ClockFacts == ASSUME NEW c \in Clocks PROVE c.high \in Nat /\ c.high > 0 /\ c.low \in Nat /\ c.low > 0
  BY ClocksAssumption

Fields == {"pc", "job", "sent", "result"}
Holding == {"begun", "started", "waitdone", "done", "end"}

\* A step of the task that holds the lock, or takes or returns it
LEMMA TaskShape ==
  ASSUME Shape, NEW t \in Tasks, DOMAIN task' = Tasks, DOMAIN task'[t] = Fields, task'[t].pc \in PCs,
         lock' \in Tasks \cup {None},
         task'[t].pc \in Holding <=> lock' = t,
         task'[t].pc # "lock",
         \A x \in Tasks : x # t => task'[x] = task[x] /\ (lock' = x <=> lock = x)
  PROVE  \A x \in Tasks :
           /\ DOMAIN task'[x] = Fields /\ task'[x].pc \in PCs
           /\ task'[x].pc \in Holding <=> lock' = x
           /\ task'[x].pc = "lock" => task'[x].job \in Jobs /\ task'[x].sent = 0 /\ task'[x].result = <<>>
<1> SUFFICES ASSUME NEW x \in Tasks
             PROVE  /\ DOMAIN task'[x] = Fields /\ task'[x].pc \in PCs
                    /\ task'[x].pc \in Holding <=> lock' = x
                    /\ task'[x].pc = "lock" => task'[x].job \in Jobs /\ task'[x].sent = 0 /\ task'[x].result = <<>>
  OBVIOUS
<1>1. CASE x = t
  BY <1>1
<1>2. CASE x # t
  BY <1>2 DEF Shape, Fields, Holding
<1> QED
  BY <1>1, <1>2

LEMMA ShapeParts ==
  ASSUME Shape
  PROVE  /\ lock \in Tasks \cup {None} /\ DOMAIN task = Tasks
         /\ \A t \in Tasks : DOMAIN task[t] = Fields /\ task[t].pc \in PCs /\ (task[t].pc \in Holding <=> lock = t)
         /\ DOMAIN regs = {"usr", "mosi", "miso", "msb", "clock"} /\ regs.clock \in Clocks
         /\ DOMAIN tr = {"pc", "bit", "bitrd", "lastbit", "lastbitrd", "clock"} /\ tr.clock \in Clocks
         /\ DOMAIN buf = Positions /\ left \in [Threads -> Nat] /\ half \in {0, 1}
         /\ sig.clock \in Clocks /\ ("update_ev" \notin trig => sig = regs)
         /\ NextApb \in Nat /\ NextApb > 0
<1>1. half \in {0, 1}
  BY DEF Shape
<1>2. NextApb \in Nat /\ NextApb > 0
  BY <1>1 DEF NextApb
<1> QED
  BY <1>2 DEF Shape, Fields, Holding

LEMMA ShapeCall == ASSUME Shape, NEW t \in Tasks, NEW j \in Jobs, Call(t, j) PROVE Shape'
<1> DEFINE new == [pc |-> "lock", job |-> j, sent |-> 0, result |-> <<>>]
<1>1. task[t].pc = "idle" /\ task' = [task EXCEPT ![t] = new]
      /\ UNCHANGED <<lock, regs, buf, sig, trig, tr, left, half, wire>>
  BY DEF Call
<1>2. DOMAIN task' = Tasks
  BY <1>1 DEF Shape
<1>3. ASSUME NEW x \in Tasks
      PROVE  /\ DOMAIN task'[x] = {"pc", "job", "sent", "result"} /\ task'[x].pc \in PCs
             /\ task'[x].pc \in {"begun", "started", "waitdone", "done", "end"} <=> lock' = x
             /\ task'[x].pc = "lock" => task'[x].job \in Jobs /\ task'[x].sent = 0 /\ task'[x].result = <<>>
  <2>1. CASE x = t
    <3>1. task'[x] = new
      BY <1>1, <2>1 DEF Shape
    <3>2. lock # t
      BY <1>1 DEF Shape
    <3> QED
      BY <1>1, <2>1, <3>1, <3>2 DEF PCs
  <2>2. CASE x # t
    <3>1. task'[x] = task[x]
      BY <1>1, <2>2 DEF Shape
    <3> QED
      BY <1>1, <3>1 DEF Shape
  <2> QED
    BY <2>1, <2>2
<1> QED
  BY <1>1, <1>2, <1>3 DEF Shape

LEMMA ShapeTransaction == ASSUME Shape, NEW t \in Tasks, spiTransaction(t) PROVE Shape'
<1>1. /\ task[t].pc = "lock" /\ lock = None /\ lock' = t
      /\ regs' = [regs EXCEPT !.msb = task[t].job.msb, !.clock = task[t].job.clock]
      /\ trig' = trig \cup {"update_ev"} /\ left' = [left EXCEPT ![t] = NextApb]
      /\ task' = [task EXCEPT ![t].pc = "begun"] /\ UNCHANGED <<buf, sig, tr, half>>
  BY DEF spiTransaction, Lock, Notify, Waits
<1>2. DOMAIN task' = Tasks /\ DOMAIN task'[t] = Fields /\ task'[t].pc = "begun"
      /\ \A x \in Tasks : x # t => task'[x] = task[x]
  BY <1>1 DEF Shape, Fields
<1>3. task[t].job \in Jobs
  BY <1>1 DEF Shape
<1>4. \A x \in Tasks : x # t => (lock' = x <=> lock = x)
  BY <1>1, TaskAssumption
<1>5. \A x \in Tasks :
           /\ DOMAIN task'[x] = Fields /\ task'[x].pc \in PCs
           /\ task'[x].pc \in Holding <=> lock' = x
           /\ task'[x].pc = "lock" => task'[x].job \in Jobs /\ task'[x].sent = 0 /\ task'[x].result = <<>>
  BY <1>1, <1>2, <1>4, TaskShape DEF PCs, Holding
<1>6. DOMAIN regs' = {"usr", "mosi", "miso", "msb", "clock"} /\ regs'.clock \in Clocks
  BY <1>1, <1>3, JobFacts DEF Shape
<1>7. left' \in [Threads -> Nat]
  BY <1>1, ShapeParts DEF Threads
<1> QED
  BY <1>1, <1>2, <1>5, <1>6, <1>7 DEF Shape, Fields, Holding

\* The steps of a holder that keep the lock, or give it back
LEMMA ShapeHolder ==
  ASSUME Shape, NEW t \in Tasks, Chunk(t) \/ WaitDone(t) \/ Collect(t) \/ spiEndTransaction(t)
  PROVE  Shape'
<1>0. DOMAIN task = Tasks /\ DOMAIN task[t] = Fields
  BY ShapeParts
<1>1. CASE Chunk(t)
  <2>1. /\ task[t].pc = "begun" /\ DOMAIN regs' = DOMAIN regs /\ regs'.clock = regs.clock
        /\ DOMAIN buf' = Positions
        /\ trig' = trig \cup {"update_ev"} /\ left' = [left EXCEPT ![t] = NextApb]
        /\ UNCHANGED <<lock, sig, tr, half, wire>>
    BY <1>1, ShapeParts DEF Chunk, Notify, Waits
  <2>2. \E n : task' = [task EXCEPT ![t].pc = "started", ![t].sent = n]
    BY <1>1 DEF Chunk
  <2>3. DOMAIN task' = Tasks /\ DOMAIN task'[t] = Fields /\ task'[t].pc = "started"
        /\ \A x \in Tasks : x # t => task'[x] = task[x]
    BY <1>0, <2>2 DEF Fields
  <2>4. \A x \in Tasks :
           /\ DOMAIN task'[x] = Fields /\ task'[x].pc \in PCs
           /\ task'[x].pc \in Holding <=> lock' = x
           /\ task'[x].pc = "lock" => task'[x].job \in Jobs /\ task'[x].sent = 0 /\ task'[x].result = <<>>
    <3>1. lock = t /\ lock' = lock /\ lock \in Tasks \cup {None}
      BY <2>1, ShapeParts DEF Holding
    <3> QED
      BY <2>1, <2>3, <3>1, TaskShape DEF PCs, Holding
  <2>5. left' \in [Threads -> Nat]
    BY <2>1, ShapeParts DEF Threads
  <2> QED
    BY <2>1, <2>3, <2>4, <2>5 DEF Shape, Fields, Holding
<1>2. CASE WaitDone(t) \/ Collect(t)
  <2>1. /\ task[t].pc \in {"started", "done"}
        /\ UNCHANGED <<lock, regs, buf, sig, trig, tr, left, half, wire>>
    BY <1>2 DEF WaitDone, Collect
  <2>2. DOMAIN task' = Tasks /\ DOMAIN task'[t] = Fields /\ task'[t].pc \in {"waitdone", "begun", "end"}
        /\ \A x \in Tasks : x # t => task'[x] = task[x]
    <3>1. CASE WaitDone(t)
      BY <1>0, <3>1 DEF WaitDone, Fields
    <3>2. CASE Collect(t)
      <4>1. PICK v : \E more \in BOOLEAN :
              task' = [task EXCEPT ![t].result = v, ![t].pc = IF more THEN "begun" ELSE "end"]
        BY <3>2 DEF Collect
      <4>2. \E pc \in {"begun", "end"} : task' = [task EXCEPT ![t].result = v, ![t].pc = pc]
        BY <4>1
      <4> QED
        BY <1>0, <4>2 DEF Fields
    <3> QED
      BY <1>2, <3>1, <3>2
  <2>3. \A x \in Tasks :
           /\ DOMAIN task'[x] = Fields /\ task'[x].pc \in PCs
           /\ task'[x].pc \in Holding <=> lock' = x
           /\ task'[x].pc = "lock" => task'[x].job \in Jobs /\ task'[x].sent = 0 /\ task'[x].result = <<>>
    <3>1. lock = t /\ lock' = lock /\ lock \in Tasks \cup {None}
      BY <2>1, ShapeParts DEF Holding
    <3> QED
      BY <2>1, <2>2, <3>1, TaskShape DEF PCs, Holding
  <2> QED
    BY <2>1, <2>2, <2>3 DEF Shape, Fields, Holding
<1>3. CASE spiEndTransaction(t)
  <2>1. /\ task[t].pc = "end" /\ lock' = None /\ task' = [task EXCEPT ![t] = Rest]
        /\ UNCHANGED <<regs, buf, sig, trig, tr, left, half, wire>>
    BY <1>3 DEF spiEndTransaction
  <2>2. DOMAIN task' = Tasks /\ task'[t] = Rest /\ \A x \in Tasks : x # t => task'[x] = task[x]
    BY <1>0, <2>1
  <2>3. DOMAIN task'[t] = Fields /\ task'[t].pc = "idle"
    BY <2>2 DEF Rest, Fields
  <2>4. lock = t
    BY <2>1, ShapeParts DEF Holding
  <2>5. \A x \in Tasks :
           /\ DOMAIN task'[x] = Fields /\ task'[x].pc \in PCs
           /\ task'[x].pc \in Holding <=> lock' = x
           /\ task'[x].pc = "lock" => task'[x].job \in Jobs /\ task'[x].sent = 0 /\ task'[x].result = <<>>
    BY <2>1, <2>2, <2>3, <2>4, TaskShape, TaskAssumption DEF PCs, Holding
  <2> QED
    BY <2>1, <2>2, <2>5 DEF Shape, Fields, Holding
<1> QED
  BY <1>1, <1>2, <1>3

\* The peripheral's steps and time
LEMMA ShapeSystem ==
  ASSUME Shape, update_th \/ setupmaster \/ ClockLow \/ CycleEnd \/ Tick
  PROVE  Shape'
<1>0. /\ DOMAIN task = Tasks /\ (\A x \in Tasks : DOMAIN task[x] = Fields)
      /\ left \in [Threads -> Nat] /\ NextApb \in Nat /\ "transfer_th" \in Threads
      /\ regs.clock \in Clocks /\ tr.clock \in Clocks
  BY ShapeParts DEF Threads
<1>1. CASE update_th
  <2>1. /\ trig' = {} /\ UNCHANGED <<lock, task, buf, half, wire>>
        /\ DOMAIN regs' = DOMAIN regs /\ regs'.clock = regs.clock
        /\ DOMAIN tr' = DOMAIN tr /\ tr'.clock = tr.clock
        /\ left' = left \/ left' = [left EXCEPT !["transfer_th"] = NextApb]
    BY <1>1, ShapeParts DEF update_th, Waits
  <2>2. left' \in [Threads -> Nat]
    BY <1>0, <2>1
  <2>3. sig' = regs'
    <3>1. CASE "update_ev" \in trig
      BY <1>1, <3>1 DEF update_th
    <3>2. CASE "update_ev" \notin trig
      <4>1. sig = regs
        BY <3>2, ShapeParts
      <4> QED
        BY <1>1, <3>2, <4>1 DEF update_th
    <3> QED
      BY <3>1, <3>2
  <2> QED
    BY <2>1, <2>2, <2>3 DEF Shape
<1>2. CASE setupmaster
  <2>2. /\ UNCHANGED <<lock, task, regs, buf, sig, trig, half>>
        /\ DOMAIN tr' = {"pc", "bit", "bitrd", "lastbit", "lastbitrd", "clock"} /\ tr'.clock = sig.clock
        /\ left' = [left EXCEPT !["transfer_th"] = sig.clock.high]
    BY <1>2 DEF setupmaster, Drive, Waits
  <2>3. sig.clock \in Clocks
    BY ShapeParts
  <2>4. left' \in [Threads -> Nat]
    BY <1>0, <2>2, <2>3, ClockFacts
  <2> QED
    BY <2>2, <2>3, <2>4 DEF Shape
<1>3. CASE ClockLow
  <2>1. /\ UNCHANGED <<lock, task, regs, buf, sig, trig, half, wire>>
        /\ tr' = [tr EXCEPT !.pc = "low"] /\ left' = [left EXCEPT !["transfer_th"] = tr.clock.low]
    BY <1>3 DEF ClockLow, Waits
  <2>2. left' \in [Threads -> Nat]
    BY <1>0, <2>1, ClockFacts
  <2>3. DOMAIN tr' = DOMAIN tr /\ tr'.clock = tr.clock
    BY <2>1, ShapeParts
  <2> QED
    BY <2>1, <2>2, <2>3 DEF Shape
<1>4. CASE CycleEnd
  <2>1. UNCHANGED <<lock, regs, sig, half>> /\ DOMAIN buf' = Positions
    BY <1>4, ShapeParts DEF CycleEnd, Store
  <2>2. PICK bit, bitrd : NextCycle(bit, bitrd) \/ TransferEnd(bit, bitrd)
    BY <1>4 DEF CycleEnd
  <2>3. CASE NextCycle(bit, bitrd)
    <3>1. /\ tr' = [tr EXCEPT !.pc = "high", !.bit = bit, !.bitrd = bitrd]
          /\ left' = [left EXCEPT !["transfer_th"] = tr.clock.high] /\ UNCHANGED <<task, trig>>
      BY <2>3 DEF NextCycle, Drive, Waits
    <3>2. left' \in [Threads -> Nat]
      BY <1>0, <3>1, ClockFacts
    <3>3. DOMAIN tr' = DOMAIN tr /\ tr'.clock = tr.clock
      BY <3>1, ShapeParts
    <3> QED
      BY <2>1, <3>1, <3>2, <3>3 DEF Shape
  <2>4. CASE TransferEnd(bit, bitrd)
    <3>1. /\ tr' = [tr EXCEPT !.pc = "idle", !.bit = -1, !.bitrd = -1]
          /\ trig' = trig \cup {"lowerusrbit_ev"}
          /\ task' = [t \in Tasks |-> IF task[t].pc = "waitdone" THEN [task[t] EXCEPT !.pc = "done"] ELSE task[t]]
          /\ left' = [x \in Threads |-> IF x \in Tasks /\ task[x].pc = "waitdone" THEN NextApb ELSE left[x]]
      BY <2>4 DEF TransferEnd, Notify
    <3>2. left' \in [Threads -> Nat]
      BY <1>0, <3>1
    <3>3. DOMAIN tr' = DOMAIN tr /\ tr'.clock = tr.clock
      BY <3>1, ShapeParts
    <3>4. DOMAIN task' = Tasks
      BY <3>1
    <3>5. ASSUME NEW x \in Tasks
          PROVE  /\ DOMAIN task'[x] = Fields /\ task'[x].pc \in PCs
                 /\ task'[x].pc \in Holding <=> lock' = x
                 /\ task'[x].pc = "lock" => task'[x].job \in Jobs /\ task'[x].sent = 0 /\ task'[x].result = <<>>
      <4>1. CASE task[x].pc = "waitdone"
        <5>1. task'[x] = [task[x] EXCEPT !.pc = "done"]
          BY <3>1, <4>1
        <5>2. DOMAIN task'[x] = Fields /\ task'[x].pc = "done"
          BY <1>0, <5>1 DEF Fields
        <5>3. lock = x
          BY <4>1, ShapeParts DEF Holding
        <5> QED
          BY <2>1, <5>2, <5>3 DEF PCs, Holding
      <4>2. CASE task[x].pc # "waitdone"
        <5>1. task'[x] = task[x]
          BY <3>1, <4>2
        <5> QED
          BY <2>1, <5>1 DEF Shape, Fields, Holding
      <4> QED
        BY <4>1, <4>2
    <3> QED
      BY <2>1, <3>1, <3>2, <3>3, <3>4, <3>5 DEF Shape, Fields, Holding
  <2> QED
    BY <2>2, <2>3, <2>4
<1>5. CASE Tick
  <2>1. UNCHANGED <<lock, task, regs, buf, sig, trig, tr, wire>> /\ half' = 1 - half
        /\ left' = [x \in Threads |-> IF left[x] > 0 THEN left[x] - 1 ELSE 0]
    BY <1>5 DEF Tick
  <2>2. left' \in [Threads -> Nat]
    BY <1>0, <2>1
  <2>3. half' \in {0, 1}
    BY <2>1, ShapeParts
  <2> QED
    BY <2>1, <2>2, <2>3 DEF Shape
<1> QED
  BY <1>1, <1>2, <1>3, <1>4, <1>5
----------------------------------------------------------------------------
(* What a step leaves alone.                                               *)

LEMMA FrameFacts ==
  ASSUME NEW t \in Tasks, task'[t].sent = task[t].sent, regs'.mosi = regs.mosi, regs'.msb = regs.msb,
         buf' = buf, wire' = wire
  PROVE  /\ Size' = Size /\ Base(t)' = Base(t)
         /\ \A i : Exchanged(t, i) => Exchanged(t, i)'
         /\ Fresh(t) => Fresh(t)'
<1>1. Size' = Size
  BY DEF Size
<1>2. Base(t)' = Base(t)
  BY <1>1 DEF Base
<1>3. \A i : Exchanged(t, i) => Exchanged(t, i)'
  BY <1>1, <1>2, Zenon DEF Exchanged
<1>4. Fresh(t) => Fresh(t)'
  BY <1>2, <1>3, Zenon DEF Fresh
<1> QED
  BY <1>1, <1>2, <1>3, <1>4, Zenon

LEMMA CycleFrame ==
  ASSUME NEW t \in Tasks, task'[t].sent = task[t].sent, regs' = regs, buf' = buf, wire' = wire,
         tr'.bit = tr.bit, tr'.bitrd = tr.bitrd, tr'.lastbit = tr.lastbit, tr'.lastbitrd = tr.lastbitrd,
         Cycle(t)
  PROVE  Cycle(t)'
<1>1. Size' = Size /\ Base(t)' = Base(t) /\ (\A i : Exchanged(t, i) => Exchanged(t, i)')
  BY FrameFacts, Zenon
<1>2. PICK i \in 0..(Size - 1) :
        /\ wire = Sent(regs.msb, Base(t) + i + 1)
        /\ tr.bit = converttoendian(regs.msb, i) /\ tr.bitrd = converttoendian(regs.msb, i)
        /\ tr.lastbit = converttoendian(regs.msb, Size - 1)
        /\ tr.lastbitrd = converttoendian(regs.msb, Size - 1)
        /\ Exchanged(t, i)
  BY Zenon DEF Cycle
<1>3. /\ wire' = Sent(regs'.msb, Base(t)' + i + 1)
      /\ tr'.bit = converttoendian(regs'.msb, i) /\ tr'.bitrd = converttoendian(regs'.msb, i)
      /\ tr'.lastbit = converttoendian(regs'.msb, Size' - 1)
      /\ tr'.lastbitrd = converttoendian(regs'.msb, Size' - 1)
      /\ Exchanged(t, i)' /\ i \in 0..(Size' - 1)
  BY <1>1, <1>2, Zenon
<1> QED
  BY <1>3, Zenon DEF Cycle

\* A step of somebody else
LEMMA HoldsFrame ==
  ASSUME NEW t \in Tasks, Holds(t), task'[t] = task[t], UNCHANGED <<regs, buf, trig, tr, wire, left, half>>
  PROVE  Holds(t)'
<1>1. /\ Size' = Size /\ Base(t)' = Base(t) /\ (\A i : Exchanged(t, i) => Exchanged(t, i)')
      /\ (Fresh(t) => Fresh(t)') /\ (Cycle(t) => Cycle(t)') /\ NextApb' = NextApb
  <2>1. Size' = Size /\ Base(t)' = Base(t) /\ (\A i : Exchanged(t, i) => Exchanged(t, i)') /\ (Fresh(t) => Fresh(t)')
    BY FrameFacts, Zenon
  <2>2. Cycle(t) => Cycle(t)'
    BY CycleFrame, Zenon
  <2>3. NextApb' = NextApb
    BY DEF NextApb
  <2> QED
    BY <2>1, <2>2, <2>3, Zenon
<1>2. Started(t) => Started(t)'
  BY <1>1, Zenon DEF Started
<1>3. Waiting(t) => Waiting(t)'
  BY <1>1, Zenon DEF Waiting
<1>4. Finished(t) => Finished(t)'
  BY <1>1, Zenon DEF Finished
<1>5. InChunk(t) => InChunk(t)'
  BY <1>1, <1>2, <1>3, <1>4, Zenon DEF InChunk
<1>6. BetweenChunks(t) => BetweenChunks(t)'
  BY Zenon DEF BetweenChunks
<1> QED
  BY <1>5, <1>6, Zenon DEF Holds
----------------------------------------------------------------------------
(* The steps of a task.                                                    *)

LEMMA HolderFacts ==
  ASSUME BusInv, NEW t \in Tasks, task[t].pc \in Holding
  PROVE  /\ lock = t /\ Holds(t)
         /\ task[t].job \in Jobs /\ task[t].sent \in Nat /\ task[t].sent % 8 = 0
         /\ task[t].sent <= task[t].job.bits /\ regs.msb = task[t].job.msb
         /\ regs.msb \in BOOLEAN /\ task[t].job.bits \in Nat /\ task[t].job.bits % 8 = 0
<1>1. lock = t
  BY ShapeParts DEF BusInv
<1>2. Holds(t)
  BY <1>1 DEF BusInv
<1>3. /\ task[t].job \in Jobs /\ task[t].sent \in Nat /\ task[t].sent % 8 = 0
      /\ task[t].sent <= task[t].job.bits /\ regs.msb = task[t].job.msb
  BY <1>2 DEF Holds
<1>4. regs.msb \in BOOLEAN /\ task[t].job.bits \in Nat /\ task[t].job.bits % 8 = 0
  BY <1>3, JobFacts
<1> QED
  BY <1>1, <1>2, <1>3, <1>4

LEMMA HoldsTransaction == ASSUME BusInv, NEW t \in Tasks, spiTransaction(t) PROVE Holds(t)'
<1>1. /\ task[t].pc = "lock" /\ lock = None /\ lock' = t
      /\ regs' = [regs EXCEPT !.msb = task[t].job.msb, !.clock = task[t].job.clock]
      /\ trig' = trig \cup {"update_ev"} /\ left' = [left EXCEPT ![t] = NextApb]
      /\ task' = [task EXCEPT ![t].pc = "begun"] /\ wire' = <<>> /\ UNCHANGED <<buf, sig, tr, half>>
  BY DEF spiTransaction, Lock, Notify, Waits
<1>2. tr.pc = "idle" /\ trig = {} /\ regs.usr = FALSE
  BY <1>1 DEF BusInv
<1>3. task[t].job \in Jobs /\ task[t].sent = 0 /\ task[t].result = <<>>
  BY <1>1 DEF BusInv, Shape
<1>4. DOMAIN task = Tasks /\ DOMAIN task[t] = Fields /\ left \in [Threads -> Nat] /\ NextApb \in Nat /\ NextApb > 0
      /\ DOMAIN regs = {"usr", "mosi", "miso", "msb", "clock"}
  BY ShapeParts DEF BusInv
<1>5. /\ task'[t].pc = "begun" /\ task'[t].job = task[t].job
      /\ task'[t].sent = 0 /\ task'[t].result = <<>>
  BY <1>1, <1>3, <1>4 DEF Fields
<1>6. regs'.msb = task[t].job.msb /\ regs'.usr = regs.usr
  BY <1>1, <1>4
<1>7. left'[t] = NextApb
  BY <1>1, <1>4 DEF Threads
<1>8. PICK m : m = task[t].job.msb
  OBVIOUS
<1>9. Sent(m, 0) = <<>> /\ Got(m, 0) = <<>>
  BY SentFacts DEF Got
<1>10. task[t].job.bits \in Nat /\ task[t].job.bits > 0
  BY <1>3, JobFacts
<1>11. BetweenChunks(t)'
  <2>1. tr'.pc = "idle" /\ regs'.usr = FALSE /\ trig' = {"update_ev"}
    BY <1>1, <1>2, <1>6, Zenon
  <2>2. left'[t] > 0
    BY <1>4, <1>7
  <2>3. wire' = Sent(regs'.msb, task'[t].sent) /\ task'[t].result = Got(regs'.msb, task'[t].sent)
    BY <1>1, <1>5, <1>6, <1>8, <1>9
  <2>4. task'[t].sent < task'[t].job.bits
    BY <1>5, <1>10
  <2>5. trig' \in {{}, {"update_ev"}} /\ task'[t].pc = "begun" /\ "begun" # "end"
    BY <2>1, <1>5
  <2> QED
    BY <2>1, <2>2, <2>3, <2>4, <2>5, Zenon DEF BetweenChunks
<1>12. /\ task'[t].job \in Jobs /\ task'[t].sent \in Nat /\ task'[t].sent % 8 = 0
       /\ task'[t].sent <= task'[t].job.bits
  BY <1>3, <1>5, <1>10
<1>13. regs'.msb = task'[t].job.msb /\ task'[t].pc \notin {"started", "waitdone", "done"}
  BY <1>5, <1>6
<1> QED
  BY <1>11, <1>12, <1>13, Zenon DEF Holds

LEMMA HoldsChunk == ASSUME Agreed, BusInv, NEW t \in Tasks, Chunk(t) PROVE Holds(t)'
<1> DEFINE n == ChunkOf(t)
<1>1. /\ task[t].pc = "begun" /\ left[t] = 0
      /\ regs' = [regs EXCEPT !.mosi = n - 1, !.usr = TRUE,
                    !.miso = IF task[t].job.kind = "write" THEN 0 ELSE n - 1]
      /\ buf' = [p \in Positions |-> IF p < n THEN <<"out", task[t].sent + p>>
                                     ELSE IF p < 32 * ((n + 31) \div 32) THEN Old ELSE buf[p]]
      /\ task' = [task EXCEPT ![t].pc = "started", ![t].sent = task[t].sent + n]
      /\ trig' = trig \cup {"update_ev"} /\ left' = [left EXCEPT ![t] = NextApb]
      /\ UNCHANGED <<lock, sig, tr, half, wire>>
  BY DEF Chunk, Notify, Waits
<1>2. /\ lock = t /\ Holds(t)
      /\ task[t].job \in Jobs /\ task[t].sent \in Nat /\ task[t].sent % 8 = 0
      /\ task[t].sent <= task[t].job.bits /\ regs.msb = task[t].job.msb
      /\ regs.msb \in BOOLEAN /\ task[t].job.bits \in Nat /\ task[t].job.bits % 8 = 0
  BY <1>1, HolderFacts DEF Holding
<1>3. BetweenChunks(t)
  BY <1>1, <1>2 DEF Holds
<1>4. trig = {} /\ tr.pc = "idle" /\ task[t].sent < task[t].job.bits
      /\ wire = Sent(regs.msb, task[t].sent) /\ task[t].result = Got(regs.msb, task[t].sent)
  <2>1. ~(left[t] > 0)
    BY <1>1
  <2> QED
    BY <1>1, <1>3, <2>1, Zenon DEF BetweenChunks
<1>5. /\ n \in Nat /\ n > 0 /\ n % 8 = 0 /\ n <= BufBits /\ task[t].sent + n <= task[t].job.bits
      /\ (task[t].sent + n) % 8 = 0
  <2> DEFINE a == task[t].sent  b == task[t].job.bits
  <2>1. a \in Nat /\ b \in Nat /\ a < b /\ a % 8 = 0 /\ b % 8 = 0
    BY <1>2, <1>4
  <2>2. n = IF b - a > BufBits THEN BufBits ELSE b - a
    BY DEF ChunkOf
  <2> HIDE DEF a, b, n
  <2>3. /\ n \in Nat /\ n > 0 /\ n % 8 = 0 /\ n <= BufBits /\ a + n <= b /\ (a + n) % 8 = 0
    BY <2>1, <2>2, BufFacts
  <2> QED
    BY <2>3 DEF a, b
<1> HIDE DEF n
<1>6. DOMAIN task = Tasks /\ DOMAIN task[t] = Fields /\ left \in [Threads -> Nat]
      /\ DOMAIN regs = {"usr", "mosi", "miso", "msb", "clock"}
  BY ShapeParts DEF BusInv
<1>7. /\ task'[t].pc = "started" /\ task'[t].sent = task[t].sent + n
      /\ task'[t].job = task[t].job /\ task'[t].result = task[t].result
  BY <1>1, <1>6 DEF Fields
<1>8. regs'.mosi = n - 1 /\ regs'.miso = n - 1 /\ regs'.msb = regs.msb
  <2>1. task[t].job.kind # "write"
    BY <1>2 DEF Agreed
  <2> QED
    BY <1>1, <1>6, <2>1
<1>9. regs'.usr = TRUE
  BY <1>1, <1>6
<1>10. left'[t] = NextApb /\ NextApb' = NextApb /\ trig' = {"update_ev"} /\ tr' = tr
  BY <1>1, <1>4, <1>6 DEF Threads, NextApb
<1>11. Size' = n /\ Base(t)' = task[t].sent
  <2>1. Size' = n
    BY <1>5, <1>8 DEF Size
  <2> QED
    BY <1>2, <1>5, <1>7, <2>1 DEF Base
<1>12. Fresh(t)'
  <2>1. PICK m \in BOOLEAN, s \in Nat, b \in {buf'} : m = regs.msb /\ s = task[t].sent /\ b = buf'
    BY <1>2
  <2>2. \A p \in 0..(n - 1) : b[p] = <<"out", s + p>>
    <3>1. \A p \in 0..(n - 1) : p \in Positions /\ p < n
      BY <1>5, BufFacts DEF Positions
    <3> QED
      BY <1>1, <2>1, <3>1
  <2>3. Swapped(b, m, s, n, 0)
    BY <1>5, <2>2, SwappedStart
  <2>4. Exchanged(t, 0)'
    BY <1>8, <1>11, <2>1, <2>3, Zenon DEF Exchanged
  <2>5. wire' = Sent(regs'.msb, Base(t)')
    BY <1>1, <1>4, <1>8, <1>11, Zenon
  <2> QED
    BY <2>4, <2>5, Zenon DEF Fresh
<1>13. Started(t)'
  BY <1>4, <1>9, <1>10, <1>12, Zenon DEF Started
<1>14. InChunk(t)'
  <2>1. regs'.mosi \in Positions /\ Size' % 8 = 0 /\ regs'.miso = regs'.mosi
    BY <1>5, <1>8, <1>11, BufFacts DEF Positions
  <2>2. Base(t)' \in Nat /\ Base(t)' % 8 = 0
    BY <1>2, <1>11
  <2>3. task'[t].result = Got(regs'.msb, Base(t)')
    BY <1>4, <1>7, <1>8, <1>11, Zenon
  <2>4. task'[t].pc # "waitdone" /\ task'[t].pc # "done"
    BY <1>7
  <2> QED
    BY <1>13, <2>1, <2>2, <2>3, <2>4, Zenon DEF InChunk
<1>15. /\ task'[t].job \in Jobs /\ task'[t].sent \in Nat /\ task'[t].sent % 8 = 0
       /\ task'[t].sent <= task'[t].job.bits
  BY <1>2, <1>5, <1>7
<1>16. regs'.msb = task'[t].job.msb /\ task'[t].pc \notin {"begun", "end"}
  BY <1>2, <1>7, <1>8
<1> QED
  BY <1>14, <1>15, <1>16, Zenon DEF Holds
LEMMA HoldsWaitDone == ASSUME BusInv, NEW t \in Tasks, WaitDone(t) PROVE Holds(t)'
<1>1. /\ task[t].pc = "started" /\ left[t] = 0 /\ task' = [task EXCEPT ![t].pc = "waitdone"]
      /\ UNCHANGED <<lock, regs, buf, sig, trig, tr, left, half, wire>>
  BY DEF WaitDone
<1>2. Holds(t)
  BY <1>1, HolderFacts DEF Holding
<1>3. InChunk(t)
  BY <1>1, <1>2 DEF Holds
<1>4. DOMAIN task = Tasks /\ DOMAIN task[t] = Fields /\ NextApb \in Nat /\ NextApb > 0
  BY ShapeParts DEF BusInv
<1>5. /\ task'[t].pc = "waitdone" /\ task'[t].sent = task[t].sent
      /\ task'[t].job = task[t].job /\ task'[t].result = task[t].result
  BY <1>1, <1>4 DEF Fields
<1>6. Size' = Size /\ Base(t)' = Base(t) /\ (Fresh(t) => Fresh(t)') /\ (Cycle(t) => Cycle(t)')
  <2>1. regs' = regs /\ buf' = buf /\ wire' = wire /\ tr' = tr
    BY <1>1
  <2> QED
    BY <1>5, <2>1, FrameFacts, CycleFrame, Zenon
<1>7. Waiting(t)'
  <2>1. left[t] # NextApb
    BY <1>1, <1>4
  <2>2. /\ trig = {}
        /\ (tr.pc = "starting" /\ Fresh(t)) \/ (tr.pc = "high" /\ Cycle(t))
    <3>1. Started(t)
      BY <1>1, <1>3, Zenon DEF InChunk
    <3> QED
      BY <2>1, <3>1, Zenon DEF Started
  <2>3. /\ trig' = {}
        /\ (tr'.pc = "starting" /\ Fresh(t)') \/ (tr'.pc = "high" /\ Cycle(t)')
    BY <1>1, <1>6, <2>2, Zenon
  <2> QED
    BY <2>3, Zenon DEF Waiting
<1>8. InChunk(t)'
  <2>1. regs' = regs /\ task'[t].pc # "started" /\ task'[t].pc # "done"
    BY <1>1, <1>5
  <2> QED
    BY <1>3, <1>5, <1>6, <1>7, <2>1, Zenon DEF InChunk
<1>9. regs' = regs /\ task'[t].pc \notin {"begun", "end"}
  BY <1>1, <1>5
<1> QED
  BY <1>2, <1>5, <1>8, <1>9, Zenon DEF Holds

LEMMA HoldsCollect == ASSUME Agreed, BusInv, NEW t \in Tasks, Collect(t) PROVE Holds(t)'
<1> DEFINE c == [k \in 1..(sig.mosi + 1) |-> buf[k - 1]]
           more == task[t].sent < task[t].job.bits
<1>1. task[t].pc = "done" /\ left[t] = 0 /\ UNCHANGED <<lock, regs, buf, sig, trig, tr, left, half, wire>>
  BY DEF Collect
<1>2. /\ lock = t /\ Holds(t)
      /\ task[t].job \in Jobs /\ task[t].sent \in Nat /\ task[t].sent % 8 = 0
      /\ task[t].sent <= task[t].job.bits /\ regs.msb = task[t].job.msb
      /\ regs.msb \in BOOLEAN /\ task[t].job.bits \in Nat /\ task[t].job.bits % 8 = 0
  BY <1>1, HolderFacts DEF Holding
<1>3. InChunk(t)
  BY <1>1, <1>2 DEF Holds
<1>4. Finished(t)
  BY <1>1, <1>3, Zenon DEF InChunk
<1>5. trig = {} /\ regs.usr = FALSE /\ tr.pc = "idle"
      /\ wire = Sent(regs.msb, task[t].sent) /\ Exchanged(t, Size)
  <2>1. ~(left[t] > 0)
    BY <1>1
  <2> QED
    BY <1>4, <2>1, Zenon DEF Finished
<1>6. sig = regs /\ DOMAIN task = Tasks /\ DOMAIN task[t] = Fields
  <2>1. "update_ev" \notin trig
    BY <1>5
  <2> QED
    BY <2>1, ShapeParts DEF BusInv
<1>7. task' = [task EXCEPT ![t].result = task[t].result \o c, ![t].pc = IF more THEN "begun" ELSE "end"]
  <2>1. task[t].job.kind # "write"
    BY <1>2 DEF Agreed
  <2> QED
    BY <2>1 DEF Collect
<1>8. task[t].result \o c = Got(regs.msb, task[t].sent)
  <2>1. PICK m \in BOOLEAN, s \in Nat, b \in {buf} : m = regs.msb /\ s = Base(t) /\ b = buf
    BY <1>2, <1>3 DEF InChunk
  <2>2. PICK n \in Nat : n = Size
    BY <1>3 DEF InChunk, Positions, Size
  <2>3. s % 8 = 0 /\ n % 8 = 0 /\ task[t].result = Got(m, s)
    BY <1>3, <2>1, <2>2 DEF InChunk
  <2>4. Swapped(b, m, s, n, n)
    BY <1>5, <2>1, <2>2 DEF Exchanged
  <2>5. Got(m, s) \o [k \in 1..n |-> b[k - 1]] = Got(m, s + n)
    BY <2>3, <2>4, SwappedEnd
  <2>6. c = [k \in 1..n |-> b[k - 1]]
    BY <1>6, <2>1, <2>2 DEF Size
  <2>7. s + n = task[t].sent
    BY <1>2, <2>1, <2>2 DEF Base
  <2> HIDE DEF c
  <2> QED
    BY <2>1, <2>3, <2>5, <2>6, <2>7
<1> HIDE DEF c
<1>9. /\ task'[t].pc = IF more THEN "begun" ELSE "end"
      /\ task'[t].sent = task[t].sent /\ task'[t].job = task[t].job
      /\ task'[t].result = Got(regs.msb, task[t].sent)
  <2>1. task'[t].result = task[t].result \o c
    BY <1>6, <1>7 DEF Fields
  <2> QED
    BY <1>6, <1>7, <1>8, <2>1 DEF Fields
<1>10. task'[t].pc = "begun" => task'[t].sent < task'[t].job.bits
  BY <1>9
<1>11. task'[t].pc = "end" => task'[t].sent = task'[t].job.bits
  BY <1>2, <1>9
<1>12. BetweenChunks(t)'
  <2>1. tr'.pc = "idle" /\ regs'.usr = FALSE /\ trig' = {} /\ regs' = regs /\ wire' = wire
    BY <1>1, <1>5, Zenon
  <2>2. wire' = Sent(regs'.msb, task'[t].sent) /\ task'[t].result = Got(regs'.msb, task'[t].sent)
    BY <1>5, <1>9, <2>1
  <2>3. trig' \in {{}, {"update_ev"}}
    BY <2>1
  <2> QED
    BY <1>10, <1>11, <2>1, <2>2, <2>3, Zenon DEF BetweenChunks
<1>13. regs' = regs /\ task'[t].pc \notin {"started", "waitdone", "done"}
  BY <1>1, <1>9
<1> QED
  BY <1>2, <1>9, <1>12, <1>13, Zenon DEF Holds

----------------------------------------------------------------------------
(* The steps of the peripheral, and time.                                  *)

LEMMA HoldsUpdate == ASSUME BusInv, NEW t \in Tasks, lock = t, update_th PROVE Holds(t)'
<1> DEFINE lower == "lowerusrbit_ev" \in trig
           update == "update_ev" \in trig
           usr == regs.usr /\ ~lower
<1>1. /\ trig # {} /\ trig' = {} /\ UNCHANGED <<lock, task, buf, half, wire>>
      /\ regs' = [regs EXCEPT !.usr = usr]
  BY DEF update_th
<1>2. task[t].pc \in Holding
  BY ShapeParts DEF BusInv
<1>3. Holds(t)
  BY DEF BusInv
<1>4. DOMAIN regs = {"usr", "mosi", "miso", "msb", "clock"} /\ left \in [Threads -> Nat]
      /\ DOMAIN tr = {"pc", "bit", "bitrd", "lastbit", "lastbitrd", "clock"}
  BY ShapeParts DEF BusInv
<1>5. regs'.usr = usr /\ regs'.mosi = regs.mosi /\ regs'.miso = regs.miso /\ regs'.msb = regs.msb
  BY <1>1, <1>4
<1>6. IF update /\ regs'.usr /\ tr.pc = "idle"
        THEN tr' = [tr EXCEPT !.pc = "starting"] /\ left' = [left EXCEPT !["transfer_th"] = NextApb]
        ELSE UNCHANGED <<tr, left>>
  BY DEF update_th, Starts, Waits
<1>7. t # "transfer_th" /\ t \in Threads /\ "transfer_th" \in Threads
  BY TaskAssumption DEF Threads
<1>8. Size' = Size /\ Base(t)' = Base(t) /\ (\A i : Exchanged(t, i) => Exchanged(t, i)')
      /\ (Fresh(t) => Fresh(t)')
  <2>1. task'[t].sent = task[t].sent /\ buf' = buf /\ wire' = wire
    BY <1>1
  <2> QED
    BY <1>5, <2>1, FrameFacts, Zenon
<1>9. task' = task /\ wire' = wire
  BY <1>1
<1>10. CASE task[t].pc \in {"begun", "end"}
  <2>1. BetweenChunks(t)
    BY <1>3, <1>10 DEF Holds
  <2>2. regs.usr = FALSE /\ tr.pc = "idle"
    BY <2>1, Zenon DEF BetweenChunks
  <2>3. regs'.usr = FALSE
    BY <1>5, <2>2, Zenon
  <2>4. tr' = tr /\ left' = left
    BY <1>6, <2>3, Zenon
  <2>5. trig' = {} /\ trig' \in {{}, {"update_ev"}}
    BY <1>1
  <2>6. BetweenChunks(t)'
    BY <1>5, <1>9, <2>1, <2>3, <2>4, <2>5, Zenon DEF BetweenChunks
  <2>7. task'[t].pc \notin {"started", "waitdone", "done"}
    BY <1>9, <1>10
  <2> QED
    BY <1>3, <1>5, <1>9, <2>6, <2>7, Zenon DEF Holds
<1>11. CASE task[t].pc \in {"started", "waitdone", "done"}
  <2>1. InChunk(t)
    BY <1>3, <1>11 DEF Holds
  <2>2. task[t].pc # "waitdone"
    BY <1>1, <2>1, Zenon DEF InChunk, Waiting
  <2>3. CASE task[t].pc = "started"
    <3>1. Started(t)
      BY <2>1, <2>3, Zenon DEF InChunk
    <3>2. trig = {"update_ev"} /\ tr.pc = "idle" /\ regs.usr = TRUE /\ left[t] = NextApb /\ Fresh(t)
      BY <1>1, <3>1, Zenon DEF Started
    <3>3. update /\ ~lower
      BY <3>2
    <3>4. regs'.usr = TRUE
      BY <1>5, <3>2, <3>3, Zenon
    <3>5. tr' = [tr EXCEPT !.pc = "starting"] /\ left' = [left EXCEPT !["transfer_th"] = NextApb]
      BY <1>6, <3>2, <3>3, <3>4, Zenon
    <3>6. tr'.pc = "starting" /\ left'[t] = left'["transfer_th"]
      BY <1>4, <1>7, <3>2, <3>5
    <3>7. Started(t)'
      BY <1>1, <1>8, <3>2, <3>6, Zenon DEF Started
    <3>8. task'[t].pc # "waitdone" /\ task'[t].pc # "done"
      BY <1>9, <2>3
    <3>9. InChunk(t)'
      BY <1>5, <1>8, <1>9, <2>1, <3>7, <3>8, Zenon DEF InChunk
    <3>10. task'[t].pc \notin {"begun", "end"}
      BY <1>9, <2>3
    <3> QED
      BY <1>3, <1>5, <1>9, <3>9, <3>10, Zenon DEF Holds
  <2>4. CASE task[t].pc = "done"
    <3>1. Finished(t)
      BY <2>1, <2>4, Zenon DEF InChunk
    <3>2. trig = {"lowerusrbit_ev"} /\ tr.pc = "idle"
      BY <1>1, <3>1, Zenon DEF Finished
    <3>3. lower /\ ~update
      BY <3>2
    <3>4. regs'.usr = FALSE /\ tr' = tr /\ left' = left
      BY <1>5, <1>6, <3>3, Zenon
    <3>5. trig' = {} /\ trig' \in {{}, {"lowerusrbit_ev"}}
      BY <1>1
    <3>6. Finished(t)'
      BY <1>5, <1>8, <1>9, <3>1, <3>4, <3>5, Zenon DEF Finished
    <3>7. task'[t].pc # "waitdone" /\ task'[t].pc # "started"
      BY <1>9, <2>4
    <3>8. InChunk(t)'
      BY <1>5, <1>8, <1>9, <2>1, <3>6, <3>7, Zenon DEF InChunk
    <3>9. task'[t].pc \notin {"begun", "end"}
      BY <1>9, <2>4
    <3> QED
      BY <1>3, <1>5, <1>9, <3>8, <3>9, Zenon DEF Holds
  <2> QED
    BY <1>11, <2>2, <2>3, <2>4
<1> QED
  BY <1>2, <1>10, <1>11 DEF Holding
\* While transfer_th is at work the task that holds the lock waits for it.
LEMMA BusyFacts ==
  ASSUME BusInv, NEW t \in Tasks, lock = t, tr.pc # "idle"
  PROVE  /\ task[t].pc \in {"started", "waitdone"} /\ Holds(t) /\ InChunk(t) /\ trig = {} /\ sig = regs
         /\ regs.msb \in BOOLEAN /\ Size \in Nat /\ Size > 0 /\ Size <= BufBits /\ Size % 8 = 0
         /\ Base(t) \in Nat /\ Base(t) % 8 = 0 /\ Base(t) + Size = task[t].sent
         /\ regs.miso = regs.mosi /\ regs.mosi = Size - 1
<1>1. task[t].pc \in Holding
  BY ShapeParts DEF BusInv
<1>2. /\ Holds(t) /\ task[t].sent \in Nat /\ regs.msb \in BOOLEAN
  BY <1>1, HolderFacts
<1>3. task[t].pc \notin {"begun", "end"}
  BY <1>2 DEF Holds, BetweenChunks
<1>4. InChunk(t)
  BY <1>1, <1>2, <1>3 DEF Holds, Holding
<1>5. task[t].pc # "done"
  BY <1>4, Zenon DEF InChunk, Finished
<1>6. trig = {}
  <2>1. CASE task[t].pc = "started"
    BY <1>4, <2>1, Zenon DEF InChunk, Started
  <2>2. CASE task[t].pc = "waitdone"
    BY <1>4, <2>2, Zenon DEF InChunk, Waiting
  <2> QED
    BY <1>1, <1>3, <1>5, <2>1, <2>2 DEF Holding
<1>7. sig = regs
  <2>1. "update_ev" \notin trig
    BY <1>6
  <2> QED
    BY <2>1, ShapeParts DEF BusInv
<1>8. regs.mosi \in Positions /\ Size % 8 = 0 /\ regs.miso = regs.mosi /\ Base(t) \in Nat /\ Base(t) % 8 = 0
  BY <1>4, Zenon DEF InChunk
<1>9. Size \in Nat /\ Size > 0 /\ Size <= BufBits /\ regs.mosi = Size - 1
  BY <1>8, BufFacts DEF Size, Positions
<1>10. Base(t) + Size = task[t].sent
  BY <1>2, <1>9 DEF Base
<1> QED
  BY <1>1, <1>2, <1>3, <1>4, <1>5, <1>6, <1>7, <1>8, <1>9, <1>10 DEF Holding

\* What the holder keeps while transfer_th is at work and goes on
LEMMA BusyFrame ==
  ASSUME NEW t \in Tasks, Holds(t), InChunk(t), task' = task, regs' = regs,
         task[t].pc \in {"started", "waitdone"},
         task[t].pc = "started" => Started(t)', task[t].pc = "waitdone" => Waiting(t)'
  PROVE  Holds(t)'
<1>1. Size' = Size /\ Base(t)' = Base(t)
  BY DEF Size, Base
<1>2. task'[t].pc # "done" /\ task'[t].pc \notin {"begun", "end"}
  OBVIOUS
<1>3. InChunk(t)'
  BY <1>1, <1>2, Zenon DEF InChunk
<1> QED
  BY <1>2, <1>3, Zenon DEF Holds

LEMMA HoldsSetup == ASSUME BusInv, NEW t \in Tasks, lock = t, setupmaster PROVE Holds(t)'
<1> DEFINE first == converttoendian(sig.msb, 0)
<1>1. /\ tr.pc = "starting" /\ left["transfer_th"] = 0 /\ UNCHANGED <<lock, task, regs, buf, sig, trig, half>>
      /\ tr' = [pc |-> "high", bit |-> first, bitrd |-> first,
                lastbit |-> converttoendian(sig.msb, sig.mosi), lastbitrd |-> converttoendian(sig.msb, sig.miso),
                clock |-> sig.clock]
      /\ wire' = Append(wire, IF first = -1 THEN <<"zero", 0>>
                              ELSE IF first \in Positions THEN buf[first] ELSE <<"unknown", 0>>)
      /\ left' = [left EXCEPT !["transfer_th"] = sig.clock.high]
  BY DEF setupmaster, Drive, Waits
<1>2. /\ task[t].pc \in {"started", "waitdone"} /\ Holds(t) /\ InChunk(t) /\ trig = {} /\ sig = regs
      /\ regs.msb \in BOOLEAN /\ Size \in Nat /\ Size > 0 /\ Size <= BufBits /\ Size % 8 = 0
      /\ Base(t) \in Nat /\ Base(t) % 8 = 0
      /\ regs.miso = regs.mosi /\ regs.mosi = Size - 1
  BY <1>1, BusyFacts
<1>3. Fresh(t) /\ (task[t].pc = "started" => left[t] = 0)
  <2>1. CASE task[t].pc = "started"
    <3>1. Started(t)
      BY <1>2, <2>1, Zenon DEF InChunk
    <3>2. tr.pc # "idle" /\ tr.pc # "high"
      BY <1>1
    <3> QED
      BY <1>1, <3>1, <3>2, Zenon DEF Started
  <2>2. CASE task[t].pc = "waitdone"
    <3>1. Waiting(t)
      BY <1>2, <2>2, Zenon DEF InChunk
    <3>2. tr.pc \notin {"high", "low"} /\ task[t].pc # "started"
      BY <1>1, <2>2
    <3> QED
      BY <3>1, <3>2, Zenon DEF Waiting
  <2> QED
    BY <1>2, <2>1, <2>2
<1>4. PICK m \in BOOLEAN, s \in Nat, n \in Nat, b \in {buf} : m = regs.msb /\ s = Base(t) /\ n = Size /\ b = buf
  BY <1>2
<1>5. s % 8 = 0 /\ n % 8 = 0 /\ 0 \in 0..(n - 1) /\ n <= BufBits /\ 0 >= 0 /\ 0 \in Nat
  BY <1>2, <1>4
<1>6. Swapped(b, m, s, n, 0) /\ wire = Sent(m, s)
  BY <1>3, <1>4, Zenon DEF Fresh, Exchanged
<1>7. first = converttoendian(m, 0) /\ first \in 0..(n - 1)
  BY <1>2, <1>4, <1>5, PlaceInChunk
<1>8. buf[first] = <<"out", OnWire(m, s)>>
  <2>1. b[converttoendian(m, 0)] = <<"out", OnWire(m, s + 0)>>
    <3> DEFINE z == 0
    <3>1. z \in Nat /\ z \in 0..(n - 1) /\ z >= z
      BY <1>5
    <3>2. Swapped(b, m, s, n, z)
      BY <1>6
    <3> HIDE DEF z
    <3>3. b[converttoendian(m, z)] = <<"out", OnWire(m, s + z)>>
      BY <1>5, <3>1, <3>2, SwappedOut
    <3> QED
      BY <3>3 DEF z
  <2>2. s + 0 = s
    OBVIOUS
  <2> HIDE DEF first
  <2> QED
    BY <1>4, <1>7, <2>1, <2>2
<1> HIDE DEF first
<1>9. wire' = Sent(m, s + 1)
  <2>1. first # -1 /\ first \in Positions
    BY <1>5, <1>7, BufFacts DEF Positions
  <2>2. wire' = Append(Sent(m, s), <<"out", OnWire(m, s)>>)
    BY <1>1, <1>6, <1>8, <2>1
  <2> QED
    BY <2>2, SentFacts
<1>10. Size' = Size /\ Base(t)' = Base(t) /\ Exchanged(t, 0)'
  <2>1. regs' = regs /\ task' = task /\ buf' = buf
    BY <1>1
  <2>2. Size' = Size /\ Base(t)' = Base(t)
    BY <2>1 DEF Size, Base
  <2>3. Exchanged(t, 0)
    BY <1>3, Zenon DEF Fresh
  <2> QED
    BY <2>1, <2>2, <2>3, Zenon DEF Exchanged
<1>11. Cycle(t)'
  <2>1. wire' = Sent(regs'.msb, Base(t)' + 0 + 1)
    <3>1. Base(t)' + 0 + 1 = s + 1 /\ regs'.msb = m
      BY <1>1, <1>4, <1>10
    <3> QED
      BY <1>9, <3>1
  <2>2. tr'.bit = converttoendian(regs'.msb, 0) /\ tr'.bitrd = converttoendian(regs'.msb, 0)
    BY <1>1, <1>4, <1>7
  <2>3. tr'.lastbit = converttoendian(regs'.msb, Size' - 1) /\ tr'.lastbitrd = converttoendian(regs'.msb, Size' - 1)
    BY <1>1, <1>2, <1>10
  <2>4. 0 \in 0..(Size' - 1)
    BY <1>4, <1>5, <1>10
  <2> QED
    BY <1>10, <2>1, <2>2, <2>3, <2>4, Zenon DEF Cycle
<1>12. tr'.pc = "high" /\ trig' = {} /\ left'["transfer_th"] > 0 /\ left'[t] = left[t]
  <2>1. left \in [Threads -> Nat] /\ sig.clock \in Clocks
    BY ShapeParts DEF BusInv
  <2>2. t # "transfer_th" /\ t \in Threads /\ "transfer_th" \in Threads
    BY TaskAssumption DEF Threads
  <2>3. sig.clock.high > 0
    BY <2>1, ClockFacts
  <2> QED
    BY <1>1, <1>2, <2>1, <2>2, <2>3
<1>13. task[t].pc = "started" => Started(t)'
  BY <1>3, <1>11, <1>12, Zenon DEF Started
<1>14. task[t].pc = "waitdone" => Waiting(t)'
  <2>1. tr'.pc \in {"high", "low"}
    BY <1>12
  <2> QED
    BY <1>11, <1>12, <2>1, Zenon DEF Waiting
<1>15. task' = task /\ regs' = regs
  BY <1>1
<1> QED
  BY <1>2, <1>13, <1>14, <1>15, BusyFrame

LEMMA HoldsClockLow == ASSUME BusInv, NEW t \in Tasks, lock = t, ClockLow PROVE Holds(t)'
<1>1. /\ tr.pc = "high" /\ left["transfer_th"] = 0 /\ tr' = [tr EXCEPT !.pc = "low"]
      /\ UNCHANGED <<lock, task, regs, buf, sig, trig, half, wire>>
  BY DEF ClockLow
<1>2. task[t].pc \in {"started", "waitdone"} /\ Holds(t) /\ InChunk(t)
  BY <1>1, BusyFacts
<1>3. task[t].pc # "started"
  <2>1. ~(left["transfer_th"] > 0) /\ tr.pc # "idle" /\ tr.pc # "starting"
    BY <1>1
  <2> QED
    BY <1>2, <2>1, Zenon DEF InChunk, Started
<1>4. Waiting(t)
  BY <1>2, <1>3 DEF InChunk
<1>5. trig = {} /\ Cycle(t)
  <2>1. tr.pc # "starting"
    BY <1>1
  <2> QED
    BY <1>4, <2>1, Zenon DEF Waiting
<1>6. tr'.pc = "low" /\ tr'.bit = tr.bit /\ tr'.bitrd = tr.bitrd /\ tr'.lastbit = tr.lastbit
      /\ tr'.lastbitrd = tr.lastbitrd
  <2>1. DOMAIN tr = {"pc", "bit", "bitrd", "lastbit", "lastbitrd", "clock"}
    BY ShapeParts DEF BusInv
  <2> QED
    BY <1>1, <2>1
<1>7. task' = task /\ regs' = regs /\ buf' = buf /\ wire' = wire /\ trig' = trig
  BY <1>1
<1>8. Cycle(t)'
  BY <1>5, <1>6, <1>7, CycleFrame
<1>9. Waiting(t)'
  <2>1. tr'.pc \in {"high", "low"}
    BY <1>6
  <2> QED
    BY <1>5, <1>7, <1>8, <2>1, Zenon DEF Waiting
<1> QED
  BY <1>2, <1>3, <1>7, <1>9, BusyFrame
LEMMA HoldsCycleEnd == ASSUME Agreed, BusInv, NEW t \in Tasks, lock = t, CycleEnd PROVE Holds(t)'
<1> DEFINE nb == Following(tr.bit, tr.lastbit)
           nr == Following(tr.bitrd, tr.lastbitrd)
<1>1. /\ tr.pc = "low" /\ left["transfer_th"] = 0 /\ UNCHANGED <<lock, regs, sig, half>>
      /\ Store /\ (NextCycle(nb, nr) \/ TransferEnd(nb, nr))
  BY DEF CycleEnd
<1>2. /\ task[t].pc \in {"started", "waitdone"} /\ Holds(t) /\ InChunk(t) /\ trig = {} /\ sig = regs
      /\ regs.msb \in BOOLEAN /\ Size \in Nat /\ Size > 0 /\ Size <= BufBits /\ Size % 8 = 0
      /\ Base(t) \in Nat /\ Base(t) % 8 = 0 /\ Base(t) + Size = task[t].sent
  BY <1>1, BusyFacts
<1>3. task[t].pc = "waitdone"
  <2>1. tr.pc # "idle" /\ tr.pc # "starting" /\ tr.pc # "high"
    BY <1>1
  <2>2. task[t].pc # "started"
    BY <1>2, <2>1, Zenon DEF InChunk, Started
  <2> QED
    BY <1>2, <2>2
<1>4. Cycle(t)
  <2>1. tr.pc # "starting"
    BY <1>1
  <2>2. Waiting(t)
    BY <1>2, <1>3, Zenon DEF InChunk
  <2> QED
    BY <2>1, <2>2, Zenon DEF Waiting
<1>5. PICK m \in BOOLEAN, s \in Nat, n \in Nat, b \in {buf} : m = regs.msb /\ s = Base(t) /\ n = Size /\ b = buf
  BY <1>2
<1>6. PICK i \in 0..(n - 1) :
        /\ wire = Sent(m, s + i + 1)
        /\ tr.bit = converttoendian(m, i) /\ tr.bitrd = converttoendian(m, i)
        /\ tr.lastbit = converttoendian(m, n - 1) /\ tr.lastbitrd = converttoendian(m, n - 1)
        /\ Swapped(b, m, s, n, i)
  BY <1>4, <1>5, Zenon DEF Cycle, Exchanged
<1>7. s % 8 = 0 /\ n % 8 = 0 /\ n > 0 /\ n <= BufBits /\ i \in Nat /\ n - 1 \in Nat /\ i <= n - 1
  BY <1>2, <1>5
<1>8. nr = nb /\ nb = IF i = n - 1 THEN -1 ELSE calcnextbit(converttoendian(m, i), m)
  <2>1. converttoendian(m, i) = converttoendian(m, n - 1) <=> i = n - 1
    <3> DEFINE last == n - 1
    <3>1. last \in Nat
      BY <1>7
    <3> HIDE DEF last
    <3>2. converttoendian(m, i) = converttoendian(m, last) <=> i = last
      BY <1>7, <3>1, PlaceUnique
    <3> QED
      BY <3>2 DEF last
  <2>2. nb = IF converttoendian(m, i) = converttoendian(m, n - 1) THEN -1 ELSE calcnextbit(converttoendian(m, i), m)
    BY <1>2, <1>5, <1>6, Zenon DEF Following
  <2>3. nr = nb
    BY <1>6, Zenon DEF Following
  <2> QED
    BY <2>1, <2>2, <2>3, Zenon
<1>9. buf' = [b EXCEPT ![converttoendian(m, i)] = <<"in", s + i>>]
  <2>1. converttoendian(m, i) \in Positions
    <3>1. converttoendian(m, i) \in 0..(n - 1)
      BY <1>7, PlaceInChunk
    <3> QED
      BY <1>7, <3>1, BufFacts DEF Positions
  <2>2. Len(wire) - 1 = s + i
    <3> DEFINE k == s + i + 1
    <3>1. k \in Nat /\ k - 1 = s + i
      BY <1>7
    <3>2. wire = Sent(m, k)
      BY <1>6
    <3> HIDE DEF k
    <3>3. Len(wire) = k
      BY <3>1, <3>2, SentFacts
    <3> QED
      BY <3>1, <3>3
  <2> QED
    BY <1>1, <1>5, <1>6, <2>1, <2>2 DEF Store
<1>10. PICK d : d = buf'
  OBVIOUS
<1>11. Swapped(d, m, s, n, i + 1)
  <2>1. 0..(n - 1) \subseteq DOMAIN b
    <3>1. DOMAIN buf = Positions
      BY ShapeParts DEF BusInv
    <3> QED
      BY <1>5, <1>7, <3>1, BufFacts DEF Positions
  <2>2. PICK w : w = s + i
    OBVIOUS
  <2>3. d = [b EXCEPT ![converttoendian(m, i)] = <<"in", w>>]
    BY <1>9, <1>10, <2>2
  <2> QED
    BY <1>6, <1>7, <2>1, <2>2, <2>3, SwappedStep
<1> HIDE DEF nb, nr
<1>12. /\ left \in [Threads -> Nat] /\ DOMAIN task = Tasks /\ DOMAIN task[t] = Fields
       /\ DOMAIN tr = {"pc", "bit", "bitrd", "lastbit", "lastbitrd", "clock"}
       /\ NextApb \in Nat /\ NextApb > 0 /\ t \in Threads
  BY ShapeParts DEF BusInv, Threads
<1>13. CASE i = n - 1
  <2>1. nb = -1 /\ nr = -1
    BY <1>8, <1>13
  <2>2. /\ tr' = [tr EXCEPT !.pc = "idle", !.bit = -1, !.bitrd = -1]
        /\ trig' = trig \cup {"lowerusrbit_ev"}
        /\ task' = [x \in Tasks |-> IF task[x].pc = "waitdone" THEN [task[x] EXCEPT !.pc = "done"] ELSE task[x]]
        /\ left' = [x \in Threads |-> IF x \in Tasks /\ task[x].pc = "waitdone" THEN NextApb ELSE left[x]]
        /\ wire' = wire
    BY <1>1, <2>1 DEF NextCycle, TransferEnd, Notify
  <2>3. /\ task'[t].pc = "done" /\ task'[t].sent = task[t].sent /\ task'[t].job = task[t].job
        /\ task'[t].result = task[t].result
    BY <1>3, <1>12, <2>2 DEF Fields
  <2>4. tr'.pc = "idle" /\ trig' = {"lowerusrbit_ev"} /\ left'[t] > 0
    BY <1>2, <1>3, <1>12, <2>2
  <2>5. regs' = regs
    BY <1>1
  <2>6. Size' = Size /\ Base(t)' = Base(t)
    BY <2>3, <2>5 DEF Size, Base
  <2>7. wire' = Sent(regs'.msb, task'[t].sent)
    <3>1. s + i + 1 = task[t].sent
      <4>1. s + n = task[t].sent
        BY <1>2, <1>5
      <4>2. s + i + 1 = s + n
        BY <1>7, <1>13
      <4> QED
        BY <4>1, <4>2
    <3> QED
      BY <1>5, <1>6, <2>2, <2>3, <2>5, <3>1
  <2>8. Exchanged(t, Size)'
    <3>1. i + 1 = n
      BY <1>7, <1>13
    <3>2. Swapped(d, m, s, n, n)
      BY <1>11, <3>1
    <3> QED
      BY <1>5, <1>10, <2>5, <2>6, <3>2, Zenon DEF Exchanged
  <2>9. Finished(t)'
    <3>1. trig' # {} /\ trig' \in {{}, {"lowerusrbit_ev"}}
      BY <2>4
    <3> QED
      BY <2>4, <2>7, <2>8, <3>1, Zenon DEF Finished
  <2>10. task'[t].pc \notin {"begun", "end"} /\ task'[t].pc # "started" /\ task'[t].pc # "waitdone"
    BY <2>3
  <2>11. InChunk(t)'
    BY <1>2, <2>3, <2>5, <2>6, <2>9, <2>10, Zenon DEF InChunk
  <2> QED
    BY <1>2, <2>3, <2>5, <2>10, <2>11, Zenon DEF Holds
<1>14. CASE i # n - 1
  <2> DEFINE j == i + 1
  <2>1. j \in Nat /\ j \in 0..(n - 1) /\ j >= i /\ s + i + 1 = s + j /\ s + j \in Nat
        /\ s + j + 1 = (s + j) + 1
    BY <1>7, <1>14
  <2>2. m => j < 8
    <3>1. m => n <= 8
      <4>1. /\ task[t].job \in Jobs /\ task[t].sent \in Nat
            /\ task[t].sent <= task[t].job.bits /\ regs.msb = task[t].job.msb
        BY <1>2, Zenon DEF Holds
      <4>2. m = TRUE => task[t].job.bits = 8
        BY <1>5, <4>1, Zenon DEF Agreed
      <4>3. s + n <= task[t].job.bits
        BY <1>2, <1>5, <4>1
      <4>4. task[t].job.bits = 8 => n <= 8
        BY <1>7, <4>3
      <4> QED
        BY <4>2, <4>4, Zenon
    <3> QED
      BY <2>1, <3>1
  <2>3. nb = converttoendian(m, j) /\ nr = nb
    <3>1. calcnextbit(converttoendian(m, i), m) = converttoendian(m, j)
      BY <1>7, <2>2, PlaceNext
    <3> HIDE DEF j
    <3> QED
      BY <1>8, <1>14, <3>1
  <2> HIDE DEF j
  <2>4. nb \in 0..(n - 1) /\ nb # -1 /\ nb \in Positions
    <3>1. nb \in 0..(n - 1)
      BY <1>7, <2>1, <2>3, PlaceInChunk
    <3> QED
      BY <1>7, <3>1, BufFacts DEF Positions
  <2>5. /\ tr' = [tr EXCEPT !.pc = "high", !.bit = nb, !.bitrd = nr]
        /\ wire' = Append(wire, buf[nb]) /\ UNCHANGED <<task, trig>>
    BY <1>1, <2>4 DEF NextCycle, TransferEnd, Drive
  <2>6. buf[nb] = <<"out", OnWire(m, s + j)>>
    <3>1. b[converttoendian(m, j)] = <<"out", OnWire(m, s + j)>>
      BY <1>6, <1>7, <2>1, SwappedOut
    <3> QED
      BY <1>5, <2>3, <3>1
  <2>7. wire' = Sent(m, s + j + 1)
    <3> DEFINE k == s + j
    <3>1. k \in Nat /\ s + j + 1 = k + 1 /\ wire = Sent(m, k) /\ wire' = Append(wire, <<"out", OnWire(m, k)>>)
      BY <1>6, <2>1, <2>5, <2>6
    <3> HIDE DEF k
    <3>2. wire' = Sent(m, k + 1)
      BY <3>1, SentFacts
    <3> QED
      BY <3>1, <3>2
  <2>8. regs' = regs /\ task' = task /\ trig' = {}
    BY <1>1, <1>2, <2>5
  <2>9. Size' = Size /\ Base(t)' = Base(t)
    BY <2>8 DEF Size, Base
  <2>10. Exchanged(t, j)'
    <3>1. Swapped(d, m, s, n, j)
      BY <1>11 DEF j
    <3> QED
      BY <1>5, <1>10, <2>8, <2>9, <3>1, Zenon DEF Exchanged
  <2>11. tr'.pc = "high" /\ tr'.bit = nb /\ tr'.bitrd = nb /\ tr'.lastbit = tr.lastbit /\ tr'.lastbitrd = tr.lastbitrd
    BY <1>12, <2>3, <2>5
  <2>12. Cycle(t)'
    <3>1. wire' = Sent(regs'.msb, Base(t)' + j + 1)
      BY <1>5, <2>7, <2>8, <2>9, Zenon
    <3>2. tr'.bit = converttoendian(regs'.msb, j) /\ tr'.bitrd = converttoendian(regs'.msb, j)
      BY <1>5, <2>3, <2>8, <2>11, Zenon
    <3>3. /\ tr'.lastbit = converttoendian(regs'.msb, Size' - 1)
          /\ tr'.lastbitrd = converttoendian(regs'.msb, Size' - 1)
      BY <1>5, <1>6, <2>8, <2>9, <2>11, Zenon
    <3>4. j \in 0..(Size' - 1)
      BY <1>5, <2>1, <2>9
    <3> QED
      BY <2>10, <3>1, <3>2, <3>3, <3>4, Zenon DEF Cycle
  <2>13. Waiting(t)'
    <3>1. tr'.pc \in {"high", "low"}
      BY <2>11
    <3> QED
      BY <2>8, <2>12, <3>1, Zenon DEF Waiting
  <2>14. task[t].pc # "started"
    BY <1>3
  <2> QED
    BY <1>2, <2>8, <2>13, <2>14, BusyFrame
<1> QED
  BY <1>13, <1>14

LEMMA HoldsTick == ASSUME BusInv, NEW t \in Tasks, lock = t, Tick PROVE Holds(t)'
<1>1. /\ trig = {} /\ (\A x \in Threads : ~Runnable(x))
      /\ left' = [x \in Threads |-> IF left[x] > 0 THEN left[x] - 1 ELSE 0]
      /\ UNCHANGED <<lock, task, regs, buf, sig, trig, tr, wire>>
  BY DEF Tick
<1>2. task[t].pc \in Holding /\ left \in [Threads -> Nat] /\ Holds(t)
  BY ShapeParts DEF BusInv
<1>3. t # "transfer_th" /\ t \in Threads /\ "transfer_th" \in Threads
  BY TaskAssumption DEF Threads
<1>4. /\ task' = task /\ regs' = regs /\ buf' = buf /\ trig' = trig /\ tr' = tr /\ wire' = wire
  BY <1>1
<1>5. Size' = Size /\ Base(t)' = Base(t) /\ (\A i : Exchanged(t, i) => Exchanged(t, i)')
      /\ (Fresh(t) => Fresh(t)')
  BY <1>4, FrameFacts, Zenon
<1>6. Cycle(t) => Cycle(t)'
  BY <1>4, CycleFrame, Zenon
<1>7. task[t].pc = "started" => (Started(t) => Started(t)')
  <2> SUFFICES ASSUME task[t].pc = "started", Started(t) PROVE Started(t)'
    OBVIOUS
  <2>1. left[t] # 0
    BY <1>1, <1>3 DEF Runnable
  <2>2. trig # {"update_ev"}
    BY <1>1
  <2>3. tr.pc = "starting" /\ left[t] = left["transfer_th"] /\ Fresh(t)
    BY <2>1, <2>2, Zenon DEF Started
  <2>4. left'[t] = left'["transfer_th"]
    BY <1>1, <1>3, <2>3
  <2> QED
    BY <1>1, <1>4, <1>5, <2>3, <2>4, Zenon DEF Started
<1>8. Waiting(t) => Waiting(t)'
  BY <1>4, <1>5, <1>6, Zenon DEF Waiting
<1>9. Finished(t) => Finished(t)'
  BY <1>1, <1>4, <1>5, Zenon DEF Finished
<1>10. InChunk(t) => InChunk(t)'
  BY <1>4, <1>5, <1>7, <1>8, <1>9, Zenon DEF InChunk
<1>11. BetweenChunks(t) => BetweenChunks(t)'
  BY <1>1, <1>4, Zenon DEF BetweenChunks
<1> QED
  BY <1>2, <1>4, <1>10, <1>11, Zenon DEF Holds
----------------------------------------------------------------------------
(* The invariant and the theorems.                                         *)

LEMMA BusInvInit == Init => BusInv
<1> SUFFICES ASSUME Init PROVE BusInv
  OBVIOUS
<1>1. PICK c \in Clocks : regs = [usr |-> FALSE, mosi |-> 0, miso |-> 0, msb |-> TRUE, clock |-> c]
  BY DEF Init
<1>2. /\ lock = None /\ task = [t \in Tasks |-> Rest] /\ buf = [p \in Positions |-> Old] /\ sig = regs
      /\ trig = {} /\ left = [x \in Threads |-> 0] /\ half = 0
      /\ tr = [pc |-> "idle", bit |-> -1, bitrd |-> -1, lastbit |-> 0, lastbitrd |-> 0, clock |-> regs.clock]
  BY DEF Init
<1>3. None \notin Tasks
  BY TaskAssumption
<1>4. \A t \in Tasks : task[t] = Rest
  BY <1>2
<1>5. DOMAIN Rest = Fields /\ Rest.pc = "idle"
  BY DEF Rest, Fields
<1>6. \A t \in Tasks : /\ DOMAIN task[t] = Fields /\ task[t].pc \in PCs
                       /\ task[t].pc \in Holding <=> lock = t
                       /\ task[t].pc = "lock" => task[t].job \in Jobs /\ task[t].sent = 0 /\ task[t].result = <<>>
  BY <1>2, <1>3, <1>4, <1>5 DEF PCs, Holding
<1>7. regs.clock = c /\ regs.usr = FALSE /\ DOMAIN regs = {"usr", "mosi", "miso", "msb", "clock"}
  BY <1>1
<1>8. tr.pc = "idle" /\ tr.clock = c /\ DOMAIN tr = {"pc", "bit", "bitrd", "lastbit", "lastbitrd", "clock"}
  BY <1>2, <1>7
<1>9. DOMAIN task = Tasks /\ DOMAIN buf = Positions /\ left \in [Threads -> Nat] /\ half \in {0, 1}
  BY <1>2
<1>10. lock \in Tasks \cup {None} /\ sig.clock \in Clocks /\ sig = regs
  BY <1>2, <1>7
<1>11. Shape
  BY <1>6, <1>7, <1>8, <1>9, <1>10 DEF Shape, Fields, Holding
<1>12. \A t \in Tasks : lock # t
  BY <1>2, <1>3
<1> QED
  BY <1>2, <1>7, <1>8, <1>11, <1>12, Zenon DEF BusInv

\* The bus while nobody has the lock, and when the lock is given back
LEMMA FreeStep ==
  ASSUME BusInv, Next, lock' = None
  PROVE  tr'.pc = "idle" /\ trig' = {} /\ regs'.usr = FALSE
<1>1. ASSUME NEW t \in Tasks, spiEndTransaction(t) PROVE tr'.pc = "idle" /\ trig' = {} /\ regs'.usr = FALSE
  <2>1. task[t].pc = "end" /\ UNCHANGED <<regs, trig, tr>>
    BY <1>1 DEF spiEndTransaction
  <2>2. Holds(t)
    BY <2>1, HolderFacts DEF Holding
  <2>3. BetweenChunks(t)
    BY <2>1, <2>2 DEF Holds
  <2>4. task[t].pc # "begun"
    BY <2>1
  <2> QED
    BY <2>1, <2>3, <2>4, Zenon DEF BetweenChunks
<1>2. ASSUME NEW t \in Tasks, Chunk(t) \/ WaitDone(t) \/ Collect(t) PROVE FALSE
  <2>1. task[t].pc \in Holding /\ lock' = lock
    BY <1>2 DEF Chunk, WaitDone, Collect, Holding
  <2>2. lock = t
    BY <2>1, HolderFacts
  <2> QED
    BY <2>1, <2>2, TaskAssumption
<1>3. ASSUME NEW t \in Tasks, spiTransaction(t) PROVE FALSE
  BY <1>3, TaskAssumption DEF spiTransaction, Lock
<1>4. CASE UNCHANGED <<lock, regs, trig, tr>>
  BY <1>4 DEF BusInv
<1>5. CASE update_th \/ setupmaster \/ ClockLow \/ CycleEnd
  <2>1. lock = None
    BY <1>5 DEF update_th, setupmaster, ClockLow, CycleEnd
  <2>2. tr.pc = "idle" /\ trig = {}
    BY <2>1 DEF BusInv
  <2> QED
    BY <1>5, <2>2 DEF update_th, setupmaster, ClockLow, CycleEnd
<1>6. ASSUME NEW t \in Tasks, NEW j \in Jobs, Call(t, j) PROVE UNCHANGED <<lock, regs, trig, tr>>
  BY <1>6 DEF Call
<1>7. CASE Tick
  BY <1>4, <1>7 DEF Tick
<1> QED
  BY <1>1, <1>2, <1>3, <1>4, <1>5, <1>6, <1>7 DEF Next, TaskStep

LEMMA HeldStep == ASSUME Agreed, BusInv, Next, NEW h \in Tasks, lock' = h PROVE Holds(h)'
<1>1. ASSUME NEW t \in Tasks, Chunk(t) \/ WaitDone(t) \/ Collect(t) PROVE Holds(h)'
  <2>1. task[t].pc \in Holding /\ lock' = lock
    BY <1>1 DEF Chunk, WaitDone, Collect, Holding
  <2>2. lock = t
    BY <2>1, HolderFacts
  <2>3. h = t
    BY <2>1, <2>2
  <2>4. Holds(t)'
    BY <1>1, HoldsChunk, HoldsWaitDone, HoldsCollect
  <2> QED
    BY <2>3, <2>4
<1>2. ASSUME NEW t \in Tasks, spiTransaction(t) PROVE Holds(h)'
  <2>1. h = t
    BY <1>2 DEF spiTransaction, Lock
  <2>2. Holds(t)'
    BY <1>2, HoldsTransaction
  <2> QED
    BY <2>1, <2>2
<1>3. ASSUME NEW t \in Tasks, spiEndTransaction(t) PROVE FALSE
  BY <1>3, TaskAssumption DEF spiEndTransaction
<1>4. ASSUME NEW t \in Tasks, NEW j \in Jobs, Call(t, j) PROVE Holds(h)'
  <2>1. lock = h /\ UNCHANGED <<regs, buf, trig, tr, wire, left, half>> /\ task[t].pc = "idle"
    BY <1>4 DEF Call
  <2>2. h # t
    BY <2>1, ShapeParts DEF BusInv, Holding
  <2>3. task'[h] = task[h]
    <3>1. \E v : task' = [task EXCEPT ![t] = v]
      BY <1>4 DEF Call
    <3>2. DOMAIN task = Tasks
      BY ShapeParts DEF BusInv
    <3> QED
      BY <2>2, <3>1, <3>2
  <2>4. Holds(h)
    BY <2>1 DEF BusInv
  <2> QED
    BY <2>1, <2>3, <2>4, HoldsFrame
<1>5. CASE update_th \/ setupmaster \/ ClockLow \/ CycleEnd \/ Tick
  <2>1. lock = h
    BY <1>5 DEF update_th, setupmaster, ClockLow, CycleEnd, Tick
  <2> QED
    BY <1>5, <2>1, HoldsUpdate, HoldsSetup, HoldsClockLow, HoldsCycleEnd, HoldsTick
<1> QED
  BY <1>1, <1>2, <1>3, <1>4, <1>5 DEF Next, TaskStep

LEMMA BusInvStep == Agreed /\ BusInv /\ [Next]_vars => BusInv'
<1> SUFFICES ASSUME Agreed, BusInv, [Next]_vars PROVE BusInv'
  OBVIOUS
<1>1. CASE Next
  <2>1. Shape
    BY DEF BusInv
  <2>2. Shape'
    BY <1>1, <2>1, ShapeCall, ShapeTransaction, ShapeHolder, ShapeSystem DEF Next, TaskStep
  <2>3. lock' = None => tr'.pc = "idle" /\ trig' = {} /\ regs'.usr = FALSE
    BY <1>1, FreeStep
  <2>4. \A h \in Tasks : lock' = h => Holds(h)'
    BY <1>1, HeldStep
  <2> QED
    BY <2>2, <2>3, <2>4, Zenon DEF BusInv
<1>2. CASE UNCHANGED vars
  <2>1. UNCHANGED <<lock, task, regs, buf, sig, trig, tr, left, half, wire>>
    BY <1>2 DEF vars
  <2>2. Shape'
    BY <2>1 DEF BusInv, Shape
  <2>3. \A h \in Tasks : lock' = h => Holds(h)'
    <3> SUFFICES ASSUME NEW h \in Tasks, lock' = h PROVE Holds(h)'
      OBVIOUS
    <3>1. Holds(h) /\ task'[h] = task[h]
      BY <2>1 DEF BusInv
    <3> QED
      BY <2>1, <3>1, HoldsFrame
  <2>4. lock' = None => tr'.pc = "idle" /\ trig' = {} /\ regs'.usr = FALSE
    BY <2>1 DEF BusInv
  <2> QED
    BY <2>2, <2>3, <2>4, Zenon DEF BusInv
<1> QED
  BY <1>1, <1>2

LEMMA BusInvExact == BusInv => ExactOnWire /\ ReceivedExact
<1> SUFFICES ASSUME BusInv, NEW t \in Tasks, task[t].pc = "end"
             PROVE  /\ wire = [k \in 1..task[t].job.bits |-> <<"out", OnWire(task[t].job.msb, k - 1)>>]
                    /\ task[t].result = [k \in 1..task[t].job.bits |-> <<"in", OnWire(task[t].job.msb, k - 1)>>]
  BY DEF ExactOnWire, ReceivedExact
<1>1. Holds(t) /\ regs.msb = task[t].job.msb
  BY HolderFacts DEF Holding
<1>2. BetweenChunks(t)
  BY <1>1 DEF Holds
<1>3. wire = Sent(regs.msb, task[t].sent) /\ task[t].result = Got(regs.msb, task[t].sent)
      /\ task[t].sent = task[t].job.bits
  BY <1>2, Zenon DEF BetweenChunks
<1> QED
  BY <1>1, <1>3 DEF Sent, Got

LEMMA BusInvariant == Agreed /\ Spec => []BusInv
<1>1. ASSUME Agreed PROVE Spec => []BusInv
  <2>1. BusInv /\ [Next]_vars => BusInv'
    BY <1>1, BusInvStep
  <2> QED
    BY <2>1, BusInvInit, PTL DEF Spec
<1> QED
  BY <1>1

\* For transfers that the layer and the peripheral agree on, when a transaction ends the other side
\* has received the bits of its data, each once and in the chosen order, over all chunks and whatever
\* the other tasks do (spiTransferBytesNL, transfer_th).
THEOREM TransfersAreExact == Agreed /\ Spec => []ExactOnWire
  BY BusInvariant, BusInvExact, PTL

\* For the same transfers, what spiTransferBytesNL returns is what the other side sent, each bit at
\* the place of the bit that went out with it.
THEOREM ResultsAreExact == Agreed /\ Spec => []ReceivedExact
  BY BusInvariant, BusInvExact, PTL
============================================================================
