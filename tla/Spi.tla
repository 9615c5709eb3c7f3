-------------------------------- MODULE Spi --------------------------------
(***************************************************************************)
(* The SPI master: tasks that use the Arduino layer                        *)
(* (src/cores/esp32-hal-spi.cpp) and the model of the peripheral           *)
(* (src/modules/spimod.cpp) with its threads update_th and transfer_th.    *)
(*                                                                         *)
(* A job is a transaction: spiTransaction, spiTransferBytesNL or           *)
(* spiWriteNL, spiEndTransaction.  The lock is a semaphore with one token  *)
(* (module Semaphore).  Time is counted in halves of an APB clock and      *)
(* moves only when no process can run.  Bits are tokens: the k-th bit of a *)
(* job's data is <<"out", k>>, the k-th bit that the other side puts on    *)
(* MISO in a job is <<"in", k>>.  The byte order is little endian, which   *)
(* is all that the layer above sets.                                       *)
(***************************************************************************)
EXTENDS Integers, Sequences, FiniteSets

CONSTANTS
  Tasks,
  Clocks,        \* settings of the clock: hightime and lowtime, in halves of an APB clock
  Jobs,          \* what a task may want to do, and how
  BufBits,       \* bits of data_buf, 512 in the code
  None

ASSUME BufAssumption == BufBits \in Nat /\ BufBits % 32 = 0 /\ BufBits > 0
ASSUME TaskAssumption == None \notin Tasks /\ "transfer_th" \notin Tasks
ASSUME ClocksAssumption ==
  \A c \in Clocks : c \in [high: Nat \ {0}, low: Nat \ {0}]
ASSUME JobsAssumption ==
  \A j \in Jobs :
    /\ j \in [kind: {"transfer", "write"}, msb: BOOLEAN, clock: Clocks, bits: Nat \ {0}]
    /\ j.bits % 8 = 0

VARIABLES
  lock,       \* the task that has the semaphore spi->lock
  task,       \* what each task is doing, its job and how much of it is done
  regs,       \* *spistruct, as far as the jobs use it
  buf,        \* spistruct->data_buf
  sig,        \* the registers as update_th last copied them
  trig,       \* the events that make update_th runnable
  tr,         \* transfer_th
  left,       \* what is left of the timed wait of each thread
  half,       \* 0 at an APB clock edge, 1 between two
  wire        \* history: what the other side received in this job

vars == <<lock, task, regs, buf, sig, trig, tr, left, half, wire>>

Threads == Tasks \cup {"transfer_th"}
Positions == 0..(BufBits - 1)
Old == <<"old", 0>>
Rest == [pc |-> "idle", job |-> None, sent |-> 0, result |-> <<>>]

Init ==
  /\ lock = None
  /\ task = [t \in Tasks |-> Rest]
  /\ \E c \in Clocks : regs = [usr |-> FALSE, mosi |-> 0, miso |-> 0, msb |-> TRUE, clock |-> c]
  /\ buf = [p \in Positions |-> Old]
  /\ sig = regs
  /\ trig = {}
  /\ tr = [pc |-> "idle", bit |-> -1, bitrd |-> -1, lastbit |-> 0, lastbitrd |-> 0,
           clock |-> regs.clock]
  /\ left = [x \in Threads |-> 0]
  /\ half = 0
  /\ wire = <<>>

Waits(x, n) == left' = [left EXCEPT ![x] = n]
NextApb == 2 - half      \* wait_next_apb_clk: always at least until the next edge

(***************************************************************************)
(* The tasks.                                                              *)
(***************************************************************************)
Notify(ev) == trig' = trig \cup {ev}

\* Mutant: the lock is not taken.
Lock_Free(t) ==
  /\ task[t].pc = "lock"
  /\ lock' = t

\* SPI_MUTEX_LOCK
Lock(t) ==
  /\ task[t].pc = "lock"
  /\ lock = None
  /\ lock' = t

Call(t, j) ==
  /\ task[t].pc = "idle"
  /\ task' = [task EXCEPT ![t] = [pc |-> "lock", job |-> j, sent |-> 0, result |-> <<>>]]
  /\ UNCHANGED <<lock, regs, buf, sig, trig, tr, left, half, wire>>

\* spiTransaction: the clock and the bit order are set and update() called.
spiTransaction(t) ==
  /\ Lock(t)
  /\ regs' = [regs EXCEPT !.msb = task[t].job.msb, !.clock = task[t].job.clock]
  /\ Notify("update_ev")
  /\ Waits(t, NextApb)
  /\ task' = [task EXCEPT ![t].pc = "begun"]
  /\ wire' = <<>>
  /\ UNCHANGED <<buf, sig, tr, half>>

\* c_len of the loops, in bits: at most the size of data_buf
ChunkOf(t) ==
  LET rest == task[t].job.bits - task[t].sent IN IF rest > BufBits THEN BufBits ELSE rest

\* One round of spiTransferBytesNL or spiWriteNL up to its wait in update().  The
\* words of the chunk are copied, whole ones.
Chunk(t) ==
  /\ task[t].pc = "begun" /\ left[t] = 0
  /\ LET n == ChunkOf(t)
         words == 32 * ((n + 31) \div 32)
     IN /\ regs' = [regs EXCEPT !.mosi = n - 1, !.usr = TRUE,
                      !.miso = IF task[t].job.kind = "write" THEN 0 ELSE n - 1]
        /\ buf' = [p \in Positions |->
                     IF p < n THEN <<"out", task[t].sent + p>>
                     ELSE IF p < words THEN Old ELSE buf[p]]
        /\ task' = [task EXCEPT ![t].pc = "started", ![t].sent = task[t].sent + n]
  /\ Notify("update_ev")
  /\ Waits(t, NextApb)
  /\ UNCHANGED <<lock, sig, tr, half, wire>>

\* waitdone: the wait for lowerusrbit_ev begins.
WaitDone(t) ==
  /\ task[t].pc = "started" /\ left[t] = 0
  /\ task' = [task EXCEPT ![t].pc = "waitdone"]
  /\ UNCHANGED <<lock, regs, buf, sig, trig, tr, left, half, wire>>

\* The chunk is done: the result is copied, and the next chunk follows or
\* spiEndTransaction gives the lock back.
Collect(t) ==
  /\ task[t].pc = "done" /\ left[t] = 0
  /\ LET n    == sig.mosi + 1
         out  == IF task[t].job.kind = "write" THEN <<>>
                 ELSE task[t].result \o [k \in 1..n |-> buf[k - 1]]
         more == task[t].sent < task[t].job.bits
     IN /\ task' = [task EXCEPT ![t].result = out,
                               ![t].pc = IF more THEN "begun" ELSE "end"]
  /\ UNCHANGED <<lock, regs, buf, sig, trig, tr, left, half, wire>>

spiEndTransaction(t) ==
  /\ task[t].pc = "end"
  /\ lock' = None
  /\ task' = [task EXCEPT ![t] = Rest]
  /\ UNCHANGED <<regs, buf, sig, trig, tr, left, half, wire>>

(***************************************************************************)
(* The peripheral.                                                         *)
(***************************************************************************)
\* Mutant: the test is of the signal, which still has its old value.
Starts_Signal(now) == sig.usr

\* The condition under which update_th notifies start_ev
Starts(now) == now.usr

\* update_th.  A start is heard only by a transfer_th that waits for it.
update_th ==
  /\ trig # {} /\ trig' = {}
  /\ LET lower  == "lowerusrbit_ev" \in trig
         update == "update_ev" \in trig
         now    == [regs EXCEPT !.usr = regs.usr /\ ~lower]
     IN /\ regs' = now
        /\ sig' = IF update THEN now ELSE [sig EXCEPT !.usr = sig.usr /\ ~lower]
        /\ IF update /\ Starts(now) /\ tr.pc = "idle"
             THEN tr' = [tr EXCEPT !.pc = "starting"] /\ Waits("transfer_th", NextApb)
             ELSE UNCHANGED <<tr, left>>
  /\ UNCHANGED <<lock, task, buf, half, wire>>

\* converttoendian, little endian: the place in data_buf of the pos-th bit to go out
converttoendian(msbfirst, pos) ==
  IF msbfirst THEN 8 * (pos \div 8) + (7 - (pos % 8)) ELSE pos

\* calcnextbit, little endian
calcnextbit(bitpos, msbfirst) ==
  IF msbfirst THEN IF bitpos % 8 = 0 THEN bitpos + 8 ELSE bitpos - 1
              ELSE bitpos + 1

\* The first part of a clock cycle: the bit at place bit goes out.  A place outside
\* data_buf is memory that the model does not know.
Drive(bit, high) ==
  /\ wire' = Append(wire, IF bit = -1 THEN <<"zero", 0>>
                          ELSE IF bit \in Positions THEN buf[bit] ELSE <<"unknown", 0>>)
  /\ Waits("transfer_th", high)

\* The start of a transfer: setupmaster, and the first cycle.
setupmaster ==
  /\ tr.pc = "starting" /\ left["transfer_th"] = 0
  /\ LET first == converttoendian(sig.msb, 0)
     IN /\ tr' = [pc |-> "high", bit |-> first, bitrd |-> first,
                  lastbit   |-> converttoendian(sig.msb, sig.mosi),
                  lastbitrd |-> converttoendian(sig.msb, sig.miso),
                  clock |-> sig.clock]
        /\ Drive(first, sig.clock.high)
  /\ UNCHANGED <<lock, task, regs, buf, sig, trig, half>>

ClockLow ==
  /\ tr.pc = "high" /\ left["transfer_th"] = 0
  /\ tr' = [tr EXCEPT !.pc = "low"]
  /\ Waits("transfer_th", tr.clock.low)
  /\ UNCHANGED <<lock, task, regs, buf, sig, trig, half, wire>>

\* The received bit, sampled when the cycle began, goes to its place.
Store == buf' = IF tr.bitrd \in Positions
                  THEN [buf EXCEPT ![tr.bitrd] = <<"in", Len(wire) - 1>>] ELSE buf

\* Mutant: the last bit is not sent.
Following_Short(b, last) ==
  IF calcnextbit(b, sig.msb) = last THEN -1 ELSE calcnextbit(b, sig.msb)

\* What follows the place b in a transfer that ends at last
Following(b, last) == IF b = last THEN -1 ELSE calcnextbit(b, sig.msb)

NextCycle(bit, bitrd) ==
  /\ bit # -1 \/ bitrd # -1
  /\ tr' = [tr EXCEPT !.pc = "high", !.bit = bit, !.bitrd = bitrd]
  /\ Drive(bit, tr.clock.high)
  /\ UNCHANGED <<task, trig>>

\* The transfer is over: lowerusrbit_ev, which also ends waitdone.
TransferEnd(bit, bitrd) ==
  /\ bit = -1 /\ bitrd = -1
  /\ tr' = [tr EXCEPT !.pc = "idle", !.bit = -1, !.bitrd = -1]
  /\ Notify("lowerusrbit_ev")
  /\ task' = [t \in Tasks |-> IF task[t].pc = "waitdone"
                THEN [task[t] EXCEPT !.pc = "done"] ELSE task[t]]
  /\ left' = [x \in Threads |-> IF x \in Tasks /\ task[x].pc = "waitdone"
                THEN NextApb ELSE left[x]]
  /\ UNCHANGED wire

CycleEnd ==
  /\ tr.pc = "low" /\ left["transfer_th"] = 0
  /\ Store
  /\ LET bit   == Following(tr.bit, tr.lastbit)
         bitrd == Following(tr.bitrd, tr.lastbitrd)
     IN NextCycle(bit, bitrd) \/ TransferEnd(bit, bitrd)
  /\ UNCHANGED <<lock, regs, sig, half>>

(***************************************************************************)
(* Time.                                                                   *)
(***************************************************************************)
Runnable(x) ==
  /\ left[x] = 0
  /\ IF x = "transfer_th" THEN tr.pc # "idle"
     ELSE \/ task[x].pc \in {"begun", "started", "done", "end"}
          \/ task[x].pc = "lock" /\ lock = None

Tick ==
  /\ trig = {} /\ \A x \in Threads : ~Runnable(x)
  /\ left' = [x \in Threads |-> IF left[x] > 0 THEN left[x] - 1 ELSE 0]
  /\ half' = 1 - half
  /\ UNCHANGED <<lock, task, regs, buf, sig, trig, tr, wire>>

TaskStep(t) ==
  spiTransaction(t) \/ Chunk(t) \/ WaitDone(t) \/ Collect(t) \/ spiEndTransaction(t)

Next ==
  \/ \E t \in Tasks : TaskStep(t) \/ \E j \in Jobs : Call(t, j)
  \/ update_th \/ setupmaster \/ ClockLow \/ CycleEnd
  \/ Tick

\* The SystemC kernel runs every process that can run, and then moves time.
Fairness ==
  /\ \A t \in Tasks : WF_vars(TaskStep(t))
  /\ WF_vars(update_th) /\ WF_vars(setupmaster \/ ClockLow \/ CycleEnd)
  /\ WF_vars(Tick)

Spec == Init /\ [][Next]_vars /\ Fairness

(***************************************************************************)
(* Properties.                                                             *)
(***************************************************************************)
\* The places of transfer_th are -1 or inside data_buf (transfer_th: "the bit
\* position is inside the valid range").
InBuffer == tr.bit \in Positions \cup {-1} /\ tr.bitrd \in Positions \cup {-1}

Tokens == ({"out", "in"} \X Nat) \cup {Old}

\* Types, and that the chunks and places stay inside data_buf.
TypeOK ==
  /\ lock \in Tasks \cup {None}
  /\ \A t \in Tasks :
       /\ task[t].pc \in {"idle", "lock", "begun", "started", "waitdone", "done", "end"}
       /\ task[t].job \in Jobs \cup {None}
       /\ task[t].result \in Seq(Tokens)
  /\ regs.mosi \in Positions /\ sig.mosi \in Positions
  /\ buf \in [Positions -> Tokens]
  /\ trig \subseteq {"update_ev", "lowerusrbit_ev"}
  /\ tr.pc \in {"idle", "starting", "high", "low"} /\ InBuffer
  /\ left \in [Threads -> Nat] /\ half \in {0, 1}
  /\ wire \in Seq(Tokens)

\* The k-th bit on the wire, from 0, of data sent with the given bit order
OnWire(msb, k) == IF msb THEN k - (k % 8) + (7 - (k % 8)) ELSE k

\* When a transaction ends the other side has received the bits of its data, each
\* once and in the chosen order, over all chunks and whatever the other tasks do.
\* MSB first this is said of jobs of one byte: the code stops a longer one after nine
\* bits (calcnextbit), and no task makes one.
ExactOnWire ==
  \A t \in Tasks : task[t].pc = "end" =>
    wire = [k \in 1..task[t].job.bits |-> <<"out", OnWire(task[t].job.msb, k - 1)>>]

\* What a transfer returns is what the other side sent in the meantime, each bit at
\* the place of the bit that went out with it, MSB first for jobs of one byte.
ReceivedExact ==
  \A t \in Tasks : task[t].pc = "end" /\ task[t].job.kind = "transfer" =>
    task[t].result = [k \in 1..task[t].job.bits |->
                        <<"in", OnWire(task[t].job.msb, k - 1)>>]

\* A transaction ends: the lock that spiTransaction takes comes back.
LockComesBack == \A t \in Tasks : lock = t ~> lock # t
============================================================================
