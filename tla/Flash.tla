------------------------------- MODULE Flash -------------------------------
(***************************************************************************)
(* The SPI flash of the board model, end to end:                           *)
(*                                                                         *)
(*   - the driver (src/esp32sdk/spi_flash/esp_spi_flash.cpp): the tasks    *)
(*     that call spi_flash_erase_range, _write and _read, serialised by    *)
(*     flashmutex;                                                         *)
(*   - the two byte channels between the board and the flash (cchan, and   *)
(*     the TestSerial object Flashport that reads and writes them);        *)
(*   - the device (src/modules/cchanflash.cpp): the thread flash() and     *)
(*     its sectors and pages.                                              *)
(*                                                                         *)
(* A command line ("w:addr size\r\n") is one item of the channel, the "d:" *)
(* that opens a data message another; data bytes, '\r' and '\n' are one    *)
(* item each, and the device answers with single bytes.                    *)
(*                                                                         *)
(* SystemC advances time only when no process can run.  The device reads   *)
(* its FIFO in zero time, so an item can arrive (which takes time, 50 ns a *)
(* byte) only while the device is blocked on an empty FIFO or in a timed   *)
(* wait: this is the guard of Send.                                        *)
(*                                                                         *)
(* SC_REPORT_ERROR stops the simulation (doitesp32devkitv1.cpp,            *)
(* start_of_simulation): `stopped', after which nothing happens.           *)
(***************************************************************************)
EXTENDS FlashGeom

CONSTANTS
  Tasks,          \* the tasks that use the flash
  Requests,       \* the calls they may make
  Habits,         \* the kinds of calls they do make, see Permitted
  WordBytes,      \* bytes in a word, 4 in the code
  TxCap,          \* the board's receive FIFO, 1024 in the code
  MaxBacklog,     \* bound: no call is made with more unread items than this
  rangestart, rangeend,   \* the ranges that addrange has set up
  Junk,           \* the words that reading an unknown sector may produce
  NoTask          \* flashmutex is free

\* The device's receive FIFO, declared as 256+4 bytes in cchanflash.h.
PageBytes == PageWords * WordBytes
RxCap == PageBytes + 4

secstart == SecStart(rangestart, rangeend)
NSecs    == secstart[Len(rangestart) + 1]
Sectors  == 0..(NSecs - 1)
Pages    == 0..(NSecs * SecPages - 1)

CR == 13
LF == 10
FF == 255
Fill(b, n) == [i \in 1..n |-> b]
BlankWord  == Fill(FF, WordBytes)
ZeroWord   == Fill(0, WordBytes)

ASSUME WordAssumption == WordBytes \in Nat /\ WordBytes > 1
ASSUME CapAssumption == TxCap \in Nat /\ MaxBacklog \in Nat
ASSUME TaskAssumption == NoTask \notin Tasks
ASSUME LayoutAssumption == LayoutOK(rangestart, rangeend)
ASSUME JunkAssumption == Junk \subseteq [1..WordBytes -> 0..255] /\ Junk # {}
ASSUME RequestAssumption ==
  \A r \in Requests :
    /\ r \in [op: {"e", "w", "r"}, addr: Nat, size: Nat \ {0}, data: Seq([1..WordBytes -> 0..255])]
    /\ r.op = "w" => Len(r.data) = r.size \div WordBytes

VARIABLES
  owner,    \* who holds flashmutex
  pc,       \* where each task is in the driver
  req,      \* what is left of each task's call
  out,      \* what the task has still to send of its current message
  need,     \* words the holder of the mutex has still to read
  got,      \* the words read so far (the caller's buffer)
  err,      \* accumerr of spi_flash_erase_range
  rx,       \* board to device: the device's receive FIFO
  tx,       \* device to board: the board's receive FIFO
  dpc,      \* where the device's thread is
  cmd,      \* its locals addr and size
  pos,      \* words of the current data message stored so far
  acc,      \* bytes of the word that is being received
  reply,    \* bytes of a read that are still to be sent
  secs,     \* the state of each sector
  pgm,      \* the stored words of each page
  stopped   \* sc_stop() was called

drv  == <<owner, pc, req, out, need, got, err>>
dev  == <<dpc, cmd, pos, acc, reply, secs, pgm>>
vars == <<drv, rx, tx, dev, stopped>>

NoReq == [op |-> "none", addr |-> 0, size |-> 0, data |-> <<>>]
NoCmd == [addr |-> 0, size |-> 0]

----------------------------------------------------------------------------
(* What the device thinks of an address.                                   *)

rangeof(addr)  == getrange(rangestart, rangeend, addr)
sectorof(addr) == SECADDR(rangestart, secstart, rangeof(addr), addr)
pageof(addr)   == PAGEADDR(rangestart, secstart, rangeof(addr), addr)
inpage(addr)   == ADDRINPAGE(rangestart, rangeof(addr), addr)

\* The write from addr of n words leaves its page.
Crosses(addr, n) == (addr + n - 1) \div PageWords # addr \div PageWords

\* Mutant: a write to a sector in an unknown state is let through.
WriteLegal_Unknown(addr, n) ==
  /\ rangeof(addr) # 0 /\ n \in 1..PageWords /\ ~Crosses(addr, n)

\* The chain of tests of the program command.
WriteLegal(addr, n) ==
  /\ rangeof(addr) # 0
  /\ secs[sectorof(addr)] # "UNK"
  /\ n \in 1..PageWords
  /\ ~Crosses(addr, n)

----------------------------------------------------------------------------
(* What the driver makes of a call.                                        *)

sizew(size) == size \div WordBytes
\* spi_flash_read works in chunks of a page; the others send what they have.
Chunk(r)    == IF r.op = "r" /\ r.size > PageBytes THEN PageBytes ELSE r.size

\* The bytes of a sequence of words
Bytes(words) ==
  [i \in 1..(Len(words) * WordBytes) |->
     words[((i - 1) \div WordBytes) + 1][((i - 1) % WordBytes) + 1]]
AsItems(b)   == [i \in DOMAIN b |-> <<"byte", b[i]>>]

Message(r) ==
  CASE r.op = "e" -> << <<"cmd", "e", r.addr \div SecWords, 0>> >>
    [] r.op = "w" -> << <<"cmd", "w", r.addr, sizew(r.size)>>, <<"d:">> >>
                       \o AsItems(Bytes(r.data))
                       \o << <<"byte", CR>>, <<"byte", LF>> >>
    [] OTHER      -> << <<"cmd", "r", r.addr, sizew(Chunk(r))>> >>

\* The driver's own SC_REPORT_ERROR checks.
Reported(r) ==
  \/ r.op = "e" /\ (r.addr % SecWords # 0 \/ r.size % (SecWords * WordBytes) # 0)
  \/ r.op = "w" /\ r.size > PageBytes

\* A call outside the limits of the model: it stops the simulation.
Illegal(r) ==
  \/ Reported(r)
  \/ r.op = "e" /\ \E i \in 0..(r.size \div (SecWords * WordBytes) - 1) :
                      rangeof(r.addr + i * SecWords) = 0
  \/ r.op = "w" /\ ~WriteLegal(r.addr, sizew(r.size))
  \/ r.op = "r" /\ \E i \in 0..((r.size - 1) \div PageBytes) :
                      rangeof(r.addr + i * PageWords) = 0

\* Habits selects the calls the tasks make: always the legal ones of whole
\* words whose reads stay in a page; with "illegal", "cross", "small" the
\* others too.
Permitted(r) ==
  /\ Illegal(r) => "illegal" \in Habits
  /\ r.op = "r" /\ sizew(Chunk(r)) > 0 /\ Crosses(r.addr, sizew(Chunk(r)))
       => "cross" \in Habits
  /\ r.size % WordBytes # 0 => "small" \in Habits

Init ==
  /\ owner = NoTask
  /\ pc = [t \in Tasks |-> "idle"]
  /\ req = [t \in Tasks |-> NoReq]
  /\ out = [t \in Tasks |-> <<>>]
  /\ need = 0
  /\ got = [t \in Tasks |-> <<>>]
  /\ err = [t \in Tasks |-> "OK"]
  /\ rx = <<>> /\ tx = <<>>
  /\ dpc = "line" /\ cmd = NoCmd /\ pos = 0 /\ acc = <<>> /\ reply = <<>>
  /\ secs = [s \in Sectors |-> "UNK"]
  /\ pgm = [p \in Pages |-> <<>>]
  /\ stopped = FALSE

----------------------------------------------------------------------------
(* The driver.                                                             *)

\* A task calls spi_flash_erase_range, spi_flash_write or spi_flash_read.
Call(t) ==
  /\ pc[t] = "idle"
  /\ Len(rx) <= MaxBacklog
  /\ \E r \in Requests :
       /\ Permitted(r)
       /\ \/ Reported(r) /\ stopped' = TRUE /\ UNCHANGED <<pc, req, got, err>>
          \/ /\ ~Reported(r)
             /\ pc' = [pc EXCEPT ![t] = "lock"]
             /\ req' = [req EXCEPT ![t] = r]
             /\ UNCHANGED <<got, err, stopped>>
  /\ UNCHANGED <<owner, out, need, rx, tx, dev>>

\* Mutant: flashmutex is not taken.
Lock_NoMutex(t) ==
  /\ pc[t] = "lock"
  /\ owner' = t
  /\ pc' = [pc EXCEPT ![t] = "send"]
  /\ out' = [out EXCEPT ![t] = Message(req[t])]
  /\ need' = IF req[t].op = "r" THEN sizew(Chunk(req[t])) ELSE 0
  /\ UNCHANGED <<req, got, err, rx, tx, dev, stopped>>

\* flashmutex.lock() succeeds and the message is made up.
Lock(t) ==
  /\ pc[t] = "lock"
  /\ owner = NoTask
  /\ owner' = t
  /\ pc' = [pc EXCEPT ![t] = "send"]
  /\ out' = [out EXCEPT ![t] = Message(req[t])]
  /\ need' = IF req[t].op = "r" THEN sizew(Chunk(req[t])) ELSE 0
  /\ UNCHANGED <<req, got, err, rx, tx, dev, stopped>>

\* The device's thread has something to read and is not in a timed wait.
DeviceRuns == rx # <<>> /\ dpc \in {"line", "d", "store", "eol"}

\* One item reaches the device; cchan::intake drops it if the FIFO is full.
Send(t) ==
  /\ pc[t] = "send"
  /\ ~DeviceRuns
  /\ rx' = IF Len(rx) < RxCap THEN Append(rx, Head(out[t])) ELSE rx
  /\ out' = [out EXCEPT ![t] = Tail(out[t])]
  /\ pc' = [pc EXCEPT ![t] = IF Len(out[t]) > 1 THEN "send"
                             ELSE IF need > 0 THEN "words" ELSE "status"]
  /\ UNCHANGED <<owner, req, need, got, err, tx, dev, stopped>>

\* spi_flash_read finds a word's worth of bytes and reads it.
TakeWord(t) ==
  /\ pc[t] = "words"
  /\ Len(tx) >= WordBytes
  /\ got' = [got EXCEPT ![t] = Append(got[t], SubSeq(tx, 1, WordBytes))]
  /\ tx' = SubSeq(tx, WordBytes + 1, Len(tx))
  /\ need' = need - 1
  /\ pc' = [pc EXCEPT ![t] = IF need = 1 THEN "status" ELSE "words"]
  /\ UNCHANGED <<owner, req, out, err, rx, dev, stopped>>

retflerr(code) == IF code = 0 THEN "OK" ELSE "FAIL"

\* Mutant: one sector more than asked for is erased.
Rest_OneMore(r, resp) ==
  CASE r.op = "e" /\ r.size >= SecWords * WordBytes ->
         [r EXCEPT !.addr = r.addr + SecWords, !.size = r.size - SecWords * WordBytes]
    [] r.op = "r" /\ r.size > Chunk(r) /\ resp = "OK" ->
         [r EXCEPT !.addr = r.addr + PageWords, !.size = r.size - Chunk(r)]
    [] OTHER -> NoReq

\* What is left of the call after this message: the next sector of an erase,
\* the next page of a read that succeeded, or nothing.
Rest(r, resp) ==
  CASE r.op = "e" /\ r.size > SecWords * WordBytes ->
         [r EXCEPT !.addr = r.addr + SecWords, !.size = r.size - SecWords * WordBytes]
    [] r.op = "r" /\ r.size > Chunk(r) /\ resp = "OK" ->
         [r EXCEPT !.addr = r.addr + PageWords, !.size = r.size - Chunk(r)]
    [] OTHER -> NoReq

\* The status byte arrives; the mutex is released, and the call goes on with
\* its next message or returns.
TakeStatus(t) ==
  /\ pc[t] = "status"
  /\ tx # <<>>
  /\ tx' = Tail(tx)
  /\ owner' = NoTask
  /\ LET resp == retflerr(Head(tx))
         rest == Rest(req[t], resp)
     IN  /\ req' = [req EXCEPT ![t] = rest]
         /\ IF rest = NoReq
            THEN /\ pc' = [pc EXCEPT ![t] = "idle"]
                 /\ got' = [got EXCEPT ![t] = <<>>]
                 /\ err' = [err EXCEPT ![t] = "OK"]
            ELSE /\ pc' = [pc EXCEPT ![t] = "lock"]
                 /\ err' = [err EXCEPT ![t] = IF @ = "OK" THEN resp ELSE @]
                 /\ UNCHANGED got
  /\ UNCHANGED <<out, need, rx, dev, stopped>>

----------------------------------------------------------------------------
(* The device.                                                             *)

\* sc_fifo to the board, and cchan::intake there: a full FIFO drops the byte.
Answer(b) == tx' = IF Len(tx) < TxCap THEN Append(tx, b) ELSE tx

\* PRINTF_ERROR and i_uflash.to.write('\1'): the simulation is over.
DeviceError == stopped' = TRUE /\ Answer(1) /\ UNCHANGED <<dpc, cmd>>

\* The device reads a command line and decides what to do.
DevCommand ==
  /\ dpc = "line"
  /\ rx # <<>>
  /\ rx' = Tail(rx)
  /\ LET op   == Head(rx)[2]
         addr == IF op = "e" THEN Head(rx)[3] * SecWords ELSE Head(rx)[3]
         n    == Head(rx)[4]
         Go(next) == /\ dpc' = next
                     /\ cmd' = [addr |-> addr, size |-> n]
                     /\ UNCHANGED <<tx, stopped>>
     IN  \/ op = "e" /\ rangeof(addr) = 0 /\ DeviceError
         \/ op = "e" /\ rangeof(addr) # 0 /\ Go("erase")
         \/ op = "w" /\ ~WriteLegal(addr, n) /\ DeviceError
         \/ op = "w" /\ WriteLegal(addr, n) /\ Go("d")
         \/ op = "r" /\ rangeof(addr) = 0 /\ DeviceError
         \/ op = "r" /\ rangeof(addr) # 0 /\ Go("read")
  /\ UNCHANGED <<drv, pos, acc, reply, secs, pgm>>

\* Mutant: the pages keep their words.
DevErase_KeepPages ==
  /\ dpc = "erase"
  /\ secs' = [secs EXCEPT ![sectorof(cmd.addr)] = "ERS"]
  /\ dpc' = "line"
  /\ Answer(0)
  /\ UNCHANGED <<drv, rx, cmd, pos, acc, reply, pgm, stopped>>

\* After the 20 ms of an erasure.
DevErase ==
  /\ dpc = "erase"
  /\ secs' = [secs EXCEPT ![sectorof(cmd.addr)] = "ERS"]
  /\ pgm' = [p \in Pages |->
               IF p \in pageof(cmd.addr)..(pageof(cmd.addr) + SecPages - 1)
               THEN <<>> ELSE pgm[p]]
  /\ dpc' = "line"
  /\ Answer(0)
  /\ UNCHANGED <<drv, rx, cmd, pos, acc, reply, stopped>>

\* The device reads the "d:" of the data message.
DevData ==
  /\ dpc = "d"
  /\ rx # <<>> /\ Head(rx) = <<"d:">>
  /\ rx' = Tail(rx)
  /\ dpc' = "prog"
  /\ UNCHANGED <<drv, tx, cmd, pos, acc, reply, secs, pgm, stopped>>

\* vector::resize: the new elements are zero.
Resized(s, n) == IF n > Len(s) THEN s \o Fill(ZeroWord, n - Len(s)) ELSE s

\* After the 20 us of a program operation: the page is made long enough.
DevProgram ==
  /\ dpc = "prog"
  /\ secs' = [secs EXCEPT ![sectorof(cmd.addr)] = "PROG"]
  /\ pgm' = [pgm EXCEPT ![pageof(cmd.addr)] =
                          Resized(@, inpage(cmd.addr) + cmd.size)]
  /\ pos' = 0 /\ acc' = <<>>
  /\ dpc' = "store"
  /\ UNCHANGED <<drv, rx, tx, cmd, reply, stopped>>

\* Mutant: the data is stored from the start of the page.
DevStore_PageStart ==
  /\ dpc = "store"
  /\ rx # <<>> /\ Head(rx)[1] = "byte"
  /\ rx' = Tail(rx)
  /\ LET word == Append(acc, Head(rx)[2])
     IN  IF Len(word) < WordBytes
         THEN acc' = word /\ UNCHANGED <<pos, pgm, dpc>>
         ELSE /\ acc' = <<>>
              /\ pgm' = [pgm EXCEPT ![pageof(cmd.addr)][pos + 1] = word]
              /\ pos' = pos + 1
              /\ dpc' = IF pos + 1 = cmd.size THEN "eol" ELSE "store"
  /\ UNCHANGED <<drv, tx, cmd, reply, secs, stopped>>

\* One byte of data; the last byte of a word stores it.
DevStore ==
  /\ dpc = "store"
  /\ rx # <<>> /\ Head(rx)[1] = "byte"
  /\ rx' = Tail(rx)
  /\ LET word == Append(acc, Head(rx)[2])
     IN  IF Len(word) < WordBytes
         THEN acc' = word /\ UNCHANGED <<pos, pgm, dpc>>
         ELSE /\ acc' = <<>>
              /\ pgm' = [pgm EXCEPT ![pageof(cmd.addr)]
                                     [inpage(cmd.addr) + pos + 1] = word]
              /\ pos' = pos + 1
              /\ dpc' = IF pos + 1 = cmd.size THEN "eol" ELSE "store"
  /\ UNCHANGED <<drv, tx, cmd, reply, secs, stopped>>

\* Mutant: success is reported before the end of the line is read.
DevEol_Early ==
  /\ dpc = "eol"
  /\ rx # <<>>
  /\ rx' = Tail(rx)
  /\ dpc' = "line"
  /\ Answer(0)
  /\ UNCHANGED <<drv, cmd, pos, acc, reply, secs, pgm, stopped>>

\* The rest of the data message is skipped up to '\n', then success.
DevEol ==
  /\ dpc = "eol"
  /\ rx # <<>>
  /\ rx' = Tail(rx)
  /\ IF Head(rx) = <<"byte", LF>>
     THEN dpc' = "line" /\ Answer(0)
     ELSE UNCHANGED <<dpc, tx>>
  /\ UNCHANGED <<drv, cmd, pos, acc, reply, secs, pgm, stopped>>

\* Mutant: the offset in the page is forgotten.
Stored_NoOffset(addr, n) ==
  LET page == pgm[pageof(addr)]
  IN  [i \in 1..n |-> IF i <= Len(page) THEN page[i] ELSE BlankWord]

\* The words of a read: stored ones, then blanks.  `pos' of the code is the
\* offset of the absolute address in its page.
Stored(addr, n) ==
  LET page  == pgm[pageof(addr)]
      first == addr % PageWords
  IN  [i \in 1..n |-> IF first + i <= Len(page) THEN page[first + i]
                      ELSE BlankWord]

\* size + pos - 1 is unsigned: with size and pos zero it is the largest
\* integer, and the device sends the page and then blanks without end.
Endless == secs[sectorof(cmd.addr)] = "PROG" /\ pgm[pageof(cmd.addr)] # <<>>
           /\ cmd.size = 0 /\ cmd.addr % PageWords = 0

\* After the 200 ns of a read: what the sector's state makes of it.
DevRead ==
  /\ dpc = "read"
  /\ \/ /\ secs[sectorof(cmd.addr)] = "UNK"
        /\ \E w \in [1..cmd.size -> Junk] : reply' = Bytes(w)
     \/ /\ secs[sectorof(cmd.addr)] = "ERS"
        /\ reply' = Bytes(Fill(BlankWord, cmd.size))
     \/ /\ secs[sectorof(cmd.addr)] = "PROG"
        /\ reply' = Bytes(IF Endless THEN pgm[pageof(cmd.addr)]
                          ELSE Stored(cmd.addr, cmd.size))
  /\ dpc' = IF Endless THEN "flood" ELSE "reply"
  /\ UNCHANGED <<drv, rx, tx, cmd, pos, acc, secs, pgm, stopped>>

\* Mutant: the status is left out.
DevReply_NoStatus ==
  /\ dpc = "reply"
  /\ IF reply # <<>>
     THEN Answer(Head(reply)) /\ reply' = Tail(reply) /\ UNCHANGED dpc
     ELSE dpc' = "line" /\ UNCHANGED <<reply, tx>>
  /\ UNCHANGED <<drv, rx, cmd, pos, acc, secs, pgm, stopped>>

\* One byte of the answer, and at its end the status.
DevReply ==
  /\ dpc = "reply"
  /\ IF reply # <<>>
     THEN Answer(Head(reply)) /\ reply' = Tail(reply) /\ UNCHANGED dpc
     ELSE Answer(0) /\ dpc' = "line" /\ UNCHANGED reply
  /\ UNCHANGED <<drv, rx, cmd, pos, acc, secs, pgm, stopped>>

\* The endless answer.
DevFlood ==
  /\ dpc = "flood"
  /\ IF reply # <<>> THEN Answer(Head(reply)) /\ reply' = Tail(reply)
     ELSE Answer(FF) /\ UNCHANGED reply
  /\ UNCHANGED <<drv, rx, dpc, cmd, pos, acc, secs, pgm, stopped>>

DeviceStep ==
  DevCommand \/ DevErase \/ DevData \/ DevProgram \/ DevStore \/ DevEol
  \/ DevRead \/ DevReply \/ DevFlood

DriverStep(t) == Lock(t) \/ Send(t) \/ TakeWord(t) \/ TakeStatus(t)

Next ==
  /\ ~stopped
  /\ \/ DeviceStep
     \/ \E t \in Tasks : Call(t) \/ DriverStep(t)

\* Every process that can run does, and timed waits end.  A task that has the
\* mutex polls until its answer is there.  Nothing is assumed of who gets the
\* mutex: sc_mutex has no queue.
Fairness ==
  /\ WF_vars(~stopped /\ DeviceStep)
  /\ \A t \in Tasks :
       WF_vars(~stopped /\ (Send(t) \/ TakeWord(t) \/ TakeStatus(t)))

Spec == Init /\ [][Next]_vars /\ Fairness

----------------------------------------------------------------------------
(* Properties.                                                             *)

Words == [1..WordBytes -> 0..255]

\* Every variable has its type.  In particular no page grows past its size: the
\* tests of the program command keep a write within one page.
TypeOK ==
  /\ owner \in Tasks \union {NoTask}
  /\ pc \in [Tasks -> {"idle", "lock", "send", "words", "status"}]
  /\ need \in Nat
  /\ err \in [Tasks -> {"OK", "FAIL"}]
  /\ tx \in Seq(0..255)
  /\ dpc \in {"line", "d", "prog", "store", "eol", "erase", "read", "reply", "flood"}
  /\ secs \in [Sectors -> {"UNK", "ERS", "PROG"}]
  /\ \A p \in Pages : pgm[p] \in Seq(Words) /\ Len(pgm[p]) <= PageWords
  /\ stopped \in BOOLEAN

\* Only the task that has flashmutex sends to the port or reads from it.
PortExclusive ==
  \A t \in Tasks : pc[t] \in {"send", "words", "status"} <=> owner = t

\* Whenever the mutex is free the port is clean: no byte of an earlier call is
\* left in either direction and the device waits for a command.  Every answer
\* therefore goes to the call it belongs to.
InSync == owner = NoTask /\ ~stopped => rx = <<>> /\ tx = <<>> /\ dpc = "line"

\* The device finds a command where it looks for one, "d:" after a write
\* command and data bytes after that: the branches of flash() that take a data
\* line for a read, or report "Data message expected!", are never taken.
Aligned ==
  rx # <<>> => /\ dpc = "line"  => Head(rx)[1] = "cmd"
               /\ dpc = "d"     => Head(rx)[1] = "d:"
               /\ dpc = "store" => Head(rx)[1] = "byte"

\* cchan::intake never has to drop a byte: 256+4 bytes are enough for the data
\* and the end of line that arrive during the 20 us of a program operation.
RoomToSend == \A t \in Tasks : pc[t] = "send" /\ ~DeviceRuns => Len(rx) < RxCap

\* Driver and device stay in step, byte by byte: nothing of a call is left for the
\* next, the device finds what it looks for, and no byte is dropped.
InStep == InSync /\ Aligned /\ RoomToSend

\* Only programmed sectors have stored words, so what was erased reads blank
\* and does not come back when the sector is next programmed.
ErasedIsEmpty ==
  \A a \in 0..rangeend[Len(rangeend)] :
    rangeof(a) # 0 /\ secs[sectorof(a)] # "PROG" => pgm[pageof(a)] = <<>>

\* Calls that respect the flash's limits when they are made never stop the
\* simulation, whatever other tasks do before the device gets to them.
LegalNeverStops == "illegal" \notin Habits => ~stopped

\* While the device serves a command no sector goes from unknown to programmed: the
\* device stops the simulation on the first write that neither an erase nor the test
\* bench has prepared.
EraseBeforeWrite ==
  [][dpc # "line" => \A s \in Sectors : secs[s] = "UNK" => secs'[s] # "PROG"]_vars

\* A task that has the mutex gives it back: its answer comes in full.
Served == \A t \in Tasks : (owner = t) ~> (owner # t \/ stopped)
============================================================================
