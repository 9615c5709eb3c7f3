------------------------------- MODULE Pn532 -------------------------------
(***************************************************************************)
(* The PN532 card reader of the test bench: the threads process_th,        *)
(* resp_th and irqmanage_th (src/tbintf/pn532_base.cpp) and the reads of   *)
(* the I2C interface (src/tbintf/pn532.cpp).  The host is external: it     *)
(* sends frames and reads answers.                                         *)
(*                                                                         *)
(* A frame is its bytes up to the command, the command, the payload as one *)
(* item, the checksum and the final zero.  What is in the FIFO `to' are    *)
(* items of an acknowledge or an answer; an answer that is longer than the *)
(* FIFO keeps resp_th inside pushresp.  Delays have no length: ack_ev, when *)
(* it is pending, fires at some time.  The memory of the card is data and  *)
(* left out.                                                               *)
(***************************************************************************)
EXTENDS Integers, Sequences, FiniteSets

CONSTANTS
  Frames,      \* what the host may send: [pre, cmd, payload, retries]
  Retries,     \* the values RFConfiguration may set for the retries
  Endless,     \* 0xff: no end of the retries
  Cap,         \* size of the FIFO, 16 in the code
  Long,        \* items of the answers that do not fit (19 and 28 bytes in the code)
  MaxFrames,   \* bound: frames sent in a run
  LeaveUnread, \* the host may send a frame while an answer that does not fit waits
  SlowFrames,  \* ack_ev may fire while a frame is coming in
  None

ASSUME CapAssumption == Cap \in Nat /\ Cap >= 2 /\ Long \in Nat /\ Long > Cap
ASSUME RetriesAssumption == Retries \subseteq Nat /\ Endless \in Nat

Kinds == {"inlist", "sam", "version", "exchange", "rfconfig", "unknown"}
\* "55" is any byte but the two that the preamble is made of.
PreBytes == {"00", "FF", "55"}

\* The bytes 00 00 FF end at byte i.
UnlockedAt(pre, i) == i >= 3 /\ pre[i - 2] = "00" /\ pre[i - 1] = "00" /\ pre[i] = "FF"

\* The preamble of a frame ends with the first 00 00 FF; what is before is noise.  A
\* short RFConfiguration is left out: the code takes up to three bytes for its item,
\* however long the frame is, and so the checksum and the zero.
ASSUME FramesAssumption ==
  \A f \in Frames : /\ f.cmd \in Kinds /\ f.payload \in {"read", "good", "short", "none"}
                    /\ f.retries \in Retries
                    /\ f.pre \in Seq(PreBytes)
                    /\ \A i \in 1..Len(f.pre) : UnlockedAt(f.pre, i) <=> i = Len(f.pre)
                    /\ f.pre # <<>>
                    /\ f.cmd = "rfconfig" => f.payload # "short"

VARIABLES
  frame,      \* the bytes of the frame that are still to come
  parse,      \* pn532state of process_th
  mif,        \* cmd, cmdbad, whether lastincmd is a read, the retries left and the
              \* number to start with
  predelay,   \* mif.predelay # 0
  tags,       \* a card is present
  opstate,
  pend,       \* ack_ev has a timed notification
  wake,       \* the events resp_th has been woken by
  push,       \* what pushresp has still to write, resp_th blocked
  to,         \* the FIFO to the host
  irq,        \* TRUE: the pin is low, there is something to read
  wasempty,   \* of irqmanage_th
  changed,    \* irqmanage_th is woken: the FIFO was written or read
  reading,    \* the host is inside a read of the I2C interface, or has ended it with a
              \* NACK and the stop bit is to come
  frames,     \* number of frames sent
  asked, acked, said \* history: the last complete command, and whether it was
                     \* acknowledged and what was answered since

vars == <<frame, parse, mif, predelay, tags, opstate, pend, wake, push, to, irq,
          wasempty, changed, reading, frames, asked, acked, said>>
hist == <<asked, acked, said>>

\* cmdbad is not initialised; pn532state is, in effect: the stack of a fresh thread
\* is zero.
Init ==
  /\ frame = <<>> /\ parse = "IDLE"
  /\ \E b \in BOOLEAN : mif = [cmd |-> None, bad |-> b, read |-> FALSE, retries |-> 0,
                                max |-> Endless]
  /\ predelay = FALSE /\ tags = FALSE
  /\ opstate = "OFF"
  /\ pend = FALSE /\ wake = {} /\ push = <<>>
  /\ to = <<>> /\ irq = FALSE /\ wasempty = TRUE /\ changed = FALSE
  /\ reading = "no" /\ frames = 0
  /\ asked = None /\ acked = FALSE /\ said = None

\* No process can run: time passes only then.
Settled == ~changed /\ wake = {} /\ (push # <<>> => Len(to) = Cap)

(***************************************************************************)
(* process_th.  Each byte is handled when it comes.                        *)
(***************************************************************************)
\* A step of the preamble: any number of zeros from two on, and then 0xff.
AfterPreamble(b) ==
  CASE parse = "IDLE"    -> IF b = "00" THEN "UNLOCK1" ELSE "IDLE"
    [] parse = "UNLOCK1" -> IF b = "00" THEN "UNLOCK2" ELSE "IDLE"
    [] parse = "UNLOCK2" -> IF b = "00" THEN "UNLOCK2" ELSE IF b = "FF" THEN "UNLOCK3" ELSE "IDLE"

\* The length, its checksum and the TFI: wrong ones are reported and accepted.
AfterHeader ==
  CASE parse = "UNLOCK3" -> "UNLOCK4" [] parse = "UNLOCK4" -> "UNLOCK5" [] parse = "UNLOCK5" -> "PD0"

Preamble(b) ==
  /\ parse \in {"IDLE", "UNLOCK1", "UNLOCK2"}
  /\ parse' = AfterPreamble(b)
  /\ UNCHANGED <<mif, predelay, wake, to, changed, hist>>

Header(b) ==
  /\ parse \in {"UNLOCK3", "UNLOCK4", "UNLOCK5"}
  /\ parse' = AfterHeader
  /\ UNCHANGED <<mif, predelay, wake, to, changed, hist>>

\* The command; what is in the FIFO is dumped.
PD0(b) ==
  /\ parse = "PD0"
  /\ mif' = [mif EXCEPT !.cmd = b.cmd]
  /\ parse' = IF b.payload = "none" THEN "DCS" ELSE "PDN"
  /\ to' = <<>> /\ changed' = (to # <<>>)
  /\ UNCHANGED <<predelay, wake, hist>>

\* The commands whose payload is checked for what it must hold
Checked == {"inlist", "sam", "exchange"}

\* Mutant: a bad payload is remembered.
IsBad_Sticky(b) ==
  mif.bad \/ mif.cmd = "rfconfig" \/ (b.payload = "short" /\ mif.cmd \in Checked)

\* cmdbad after the payload
IsBad(b) == mif.cmd = "rfconfig" \/ (b.payload = "short" /\ mif.cmd \in Checked)

\* The payload.  A complete RFConfiguration always ends as a bad command, because it
\* is checked like InListPassiveTarget.
PDN(b) ==
  /\ parse = "PDN"
  /\ mif' = [mif EXCEPT !.bad = IsBad(b),
                         !.read = IF mif.cmd = "exchange" /\ ~IsBad(b) THEN b.payload = "read" ELSE mif.read,
                         !.max = IF mif.cmd = "rfconfig" THEN b.retries ELSE mif.max]
  /\ parse' = "DCS"
  /\ UNCHANGED <<predelay, wake, to, changed, hist>>

\* A wrong checksum is only reported.
DCS(b) ==
  /\ parse = "DCS"
  /\ parse' = "LOCK"
  /\ UNCHANGED <<mif, predelay, wake, to, changed, hist>>

\* The last byte: the delays of the command are set and resp_th is told, if it is
\* listening.
LOCK(f) ==
  /\ parse = "LOCK"
  /\ parse' = "IDLE"
  /\ predelay' = (mif.cmd \in {"inlist", "sam", "version"})
  /\ mif' = [mif EXCEPT !.retries = IF mif.cmd = "inlist" THEN mif.max ELSE @]
  /\ wake' = IF push = <<>> THEN wake \cup {"new"} ELSE wake
  /\ asked' = f /\ acked' = FALSE /\ said' = None
  /\ UNCHANGED <<to, changed>>

process_th ==
  /\ frame # <<>> /\ Settled
  /\ LET b == Head(frame)
     IN Preamble(b) \/ Header(b) \/ PD0(b) \/ PDN(b) \/ DCS(b) \/ LOCK(b)
  /\ frame' = Tail(frame)
  /\ UNCHANGED <<tags, opstate, pend, push, irq, wasempty, reading, frames>>

(***************************************************************************)
(* resp_th                                                                 *)
(***************************************************************************)
\* What pushresp writes
Response ==
  IF mif.cmd = "exchange"
    THEN IF mif.bad THEN "failed" ELSE IF mif.read THEN "data" ELSE "done"
    ELSE IF mif.bad \/ mif.cmd \notin {"inlist", "sam", "version"} THEN "syntax"
    ELSE IF mif.cmd = "inlist" THEN (IF tags THEN "tags" ELSE "none")
    ELSE IF mif.cmd = "sam" THEN "sam" ELSE "version"

Items(r) == [i \in 1..(IF r \in {"tags", "data"} THEN Long ELSE 2) |-> r]

\* No card yet, and retries left
TryAgain == mif.cmd = "inlist" /\ ~mif.bad /\ ~tags /\ mif.retries > 0

\* Mutant: a new command goes on where the last one was.
RespNew_Stay ==
  /\ "new" \in wake
  /\ pend' = TRUE /\ opstate' = IF opstate \in {"OFF", "IDLE"} THEN "ACK" ELSE opstate
  /\ UNCHANGED <<mif, push, to, changed, acked, said>>

\* A new command: whatever was going on, the acknowledge comes next.
RespNew ==
  /\ "new" \in wake
  /\ pend' = TRUE /\ opstate' = "ACK"
  /\ UNCHANGED <<mif, push, to, changed, acked, said>>

RespAck ==
  /\ wake = {"ack"}
  /\ \/ /\ opstate = "ACK"
        /\ to' = <<"ack", "ack">> /\ changed' = TRUE
        /\ opstate' = "ACKRDOUT" /\ acked' = TRUE
        /\ UNCHANGED <<mif, pend, push, said>>
     \/ /\ opstate = "ACKRDOUT"
        /\ pend' = TRUE /\ opstate' = IF predelay THEN "PREDELAY" ELSE "BUSY"
        /\ UNCHANGED <<mif, push, to, changed, acked, said>>
     \/ /\ opstate = "PREDELAY"
        /\ pend' = TRUE /\ opstate' = "BUSY"
        /\ UNCHANGED <<mif, push, to, changed, acked, said>>
     \/ /\ opstate = "BUSY" /\ TryAgain
        /\ pend' = TRUE
        /\ mif' = [mif EXCEPT !.retries = IF @ = Endless THEN @ ELSE @ - 1]
        /\ to' = <<>> /\ changed' = (changed \/ to # <<>>)
        /\ UNCHANGED <<opstate, push, acked, said>>
     \/ /\ opstate = "BUSY" /\ ~TryAgain
        /\ to' = <<>> /\ changed' = (changed \/ to # <<>>)
        /\ push' = Items(Response)
        /\ said' = Response
        /\ UNCHANGED <<mif, opstate, pend, acked>>
     \/ /\ opstate = "READOUT"
        /\ opstate' = "IDLE"
        /\ UNCHANGED <<mif, pend, push, to, changed, acked, said>>
     \/ /\ opstate \in {"OFF", "IDLE"}
        /\ UNCHANGED <<mif, opstate, pend, push, to, changed, acked, said>>

\* pushresp writes while the FIFO has room; when all is written the command is cleared.
Push ==
  /\ push # <<>> /\ Len(to) < Cap
  /\ to' = Append(to, Head(push))
  /\ push' = Tail(push)
  /\ changed' = TRUE
  /\ IF Len(push) = 1 THEN mif' = [mif EXCEPT !.cmd = None] /\ opstate' = "READOUT"
                      ELSE UNCHANGED <<mif, opstate>>
  /\ UNCHANGED <<frame, parse, predelay, tags, pend, wake, irq, wasempty, reading, frames, hist>>

resp_th ==
  /\ wake # {}
  /\ RespNew \/ RespAck
  /\ wake' = {}
  /\ UNCHANGED <<frame, parse, predelay, tags, irq, wasempty, reading, frames, asked>>

\* The timed notification of ack_ev comes due.
AckFires ==
  /\ pend /\ Settled
  /\ frame = <<>> \/ SlowFrames
  /\ pend' = FALSE
  /\ wake' = IF push = <<>> THEN wake \cup {"ack"} ELSE wake
  /\ UNCHANGED <<frame, parse, mif, predelay, tags, opstate, push, to, irq, wasempty, changed,
                 reading, frames, hist>>

(***************************************************************************)
(* irqmanage_th                                                            *)
(***************************************************************************)
\* Mutant: only the end of an answer wakes resp_th.
ReadOut_Answer == opstate = "READOUT"

\* resp_th waits for the host to have read everything.
ReadOut == opstate \in {"ACKRDOUT", "READOUT"}

\* Mutant: the pin follows the FIFO as it was.
Low_Stale == ~(to = <<>> /\ wasempty)

\* What the pin is set to
Low == ~(to = <<>> /\ ~wasempty)

\* An immediate notification cancels the timed one.  pushresp writes all that there is
\* room for before this thread runs.
irqmanage_th ==
  /\ changed /\ (push # <<>> => Len(to) = Cap)
  /\ irq' = Low
  /\ IF to = <<>> /\ ~wasempty /\ ReadOut
       THEN wake' = (IF push = <<>> THEN wake \cup {"ack"} ELSE wake) /\ pend' = FALSE
       ELSE UNCHANGED <<wake, pend>>
  /\ wasempty' = (to = <<>>)
  /\ changed' = FALSE
  /\ UNCHANGED <<frame, parse, mif, predelay, tags, opstate, push, to, reading, frames, hist>>

(***************************************************************************)
(* The host and the card                                                   *)
(***************************************************************************)
\* The bytes of a frame
Framed(f) ==
  f.pre \o <<"len", "lcs", "tfi", f>> \o (IF f.payload = "none" THEN <<>> ELSE <<f>>) \o <<"dcs", f>>

\* A frame is begun.
Send(f) ==
  /\ Settled /\ frame = <<>> /\ reading = "no" /\ frames < MaxFrames
  /\ push = <<>> \/ LeaveUnread
  /\ frames' = frames + 1
  /\ frame' = Framed(f)
  /\ UNCHANGED <<parse, mif, predelay, tags, opstate, pend, wake, push, to, irq, wasempty, changed,
                 reading, hist>>

\* i2c_th: the host addresses the reader for a read; the status says that there is
\* something to read.
ReadBegin ==
  /\ Settled /\ frame = <<>> /\ reading = "no" /\ to # <<>>
  /\ reading' = "data"
  /\ UNCHANGED <<frame, parse, mif, predelay, tags, opstate, pend, wake, push, to, irq, wasempty,
                 changed, frames, hist>>

ReadItem ==
  /\ Settled /\ reading = "data" /\ to # <<>>
  /\ to' = Tail(to) /\ changed' = TRUE
  /\ UNCHANGED <<frame, parse, mif, predelay, tags, opstate, pend, wake, push, irq, wasempty,
                 reading, frames, hist>>

\* What is left in the FIFO is dropped at the NACK, and once more at the stop bit.
Drop ==
  /\ Settled
  /\ to' = <<>> /\ changed' = (to # <<>>)
  /\ UNCHANGED <<frame, parse, mif, predelay, tags, opstate, pend, wake, push, irq, wasempty,
                 frames, hist>>

Nack == reading = "data" /\ reading' = "nacked" /\ Drop
Stop == reading # "no" /\ reading' = "no" /\ Drop

\* A card is put on the reader: what the last data exchange was is forgotten.
setcardpresent ==
  /\ tags' = TRUE /\ mif' = [mif EXCEPT !.read = FALSE]
  /\ UNCHANGED <<frame, parse, predelay, opstate, pend, wake, push, to, irq, wasempty, changed,
                 reading, frames, hist>>

setcardnotpresent ==
  /\ tags' = FALSE
  /\ UNCHANGED <<frame, parse, mif, predelay, opstate, pend, wake, push, to, irq, wasempty,
                 changed, reading, frames, hist>>

Next ==
  \/ process_th \/ resp_th \/ Push \/ AckFires \/ irqmanage_th
  \/ (\E f \in Frames : Send(f)) \/ ReadBegin \/ ReadItem \/ Nack \/ Stop
  \/ setcardpresent \/ setcardnotpresent

\* The kernel runs its threads and time passes.  Of the host: a frame that was begun is
\* sent, what the pin announces is read, and a read ends.
Fairness ==
  /\ WF_vars(process_th) /\ WF_vars(resp_th) /\ WF_vars(Push) /\ WF_vars(irqmanage_th)
  /\ WF_vars(AckFires)
  /\ WF_vars(ReadBegin) /\ WF_vars(ReadItem \/ Nack \/ Stop)

Spec == Init /\ [][Next]_vars /\ Fairness

(***************************************************************************)
(* Properties                                                              *)
(***************************************************************************)
\* Types, and the limits of the FIFO and of an answer.
TypeOK ==
  /\ parse \in {"IDLE", "UNLOCK1", "UNLOCK2", "UNLOCK3", "UNLOCK4", "UNLOCK5", "PD0", "PDN",
                "DCS", "LOCK"}
  /\ opstate \in {"OFF", "IDLE", "ACK", "ACKRDOUT", "PREDELAY", "BUSY", "READOUT"}
  /\ mif \in [cmd: Kinds \cup {None}, bad: BOOLEAN, read: BOOLEAN, retries: Nat, max: Nat]
  /\ wake \subseteq {"new", "ack"} /\ Len(to) <= Cap /\ Len(push) <= Long

\* The answers that a command can have.  A payload that should be there and is not, or
\* is too short, is an error.  A card that is put on makes a read a plain command.
Answers(f) ==
  LET lacking == f.payload \in {"short", "none"}
  IN CASE f.cmd = "inlist"   -> IF lacking THEN {"syntax"} ELSE {"tags", "none"}
       [] f.cmd = "sam"      -> IF lacking THEN {"syntax"} ELSE {"sam"}
       [] f.cmd = "version"  -> {"version"}
       [] f.cmd = "exchange" -> IF lacking THEN {"failed"}
                                ELSE IF f.payload = "read" THEN {"data", "done"} ELSE {"done"}
       [] OTHER              -> {"syntax"}

\* No frame comes without a payload to a command that looks at cmdbad: only the bytes
\* of a payload set cmdbad, so that these frames are answered by what an earlier one
\* has left there, or by what was in the memory.
PayloadsGiven == \A f \in Frames : f.payload = "none" => f.cmd \in {"rfconfig", "unknown"}

\* What is answered after a command is an answer to that command, also when it came
\* while an earlier one was being worked on (resp_th: "Anytime we get a new command,
\* we need to dump what we were doing before and start it").
RightAnswer == said # None => said \in Answers(asked)

\* A command is acknowledged before it is answered, also when the acknowledge of an
\* earlier one was never read.
AckFirst == said # None => acked

\* The pin tells the host the truth: it is low exactly when there is something to read,
\* once no thread of the reader can run.
IrqTells == Settled => (irq <=> to # <<>>)

\* The search for a card that has no end
Searching == mif.cmd = "inlist" /\ mif.max = Endless /\ ~tags

\* With a limited number of retries a command is answered, whether the host reads the
\* acknowledge or sends the next frame instead; with endless retries it is unless the
\* card is missing.
Answered == (asked # None /\ said = None) ~> (said # None \/ frame # <<>> \/ Searching)
============================================================================
