# espmod in TLA+

espmod is a SystemC model of ESP32 boards: an Arduino sketch, or a program
written against the ESP-IDF, is compiled for the host and linked with models of
the chip's peripherals, with SDK drivers adapted to those models and with
test-bench parts. This directory specifies the parts of it whose correctness
depends on the order in which things happen, checks them with TLC on small
instances, and proves most of the safety properties with TLAPS for instances of
any size.

Paths below are relative to the repository; its own code is in `src/`
(`src/modules`, `src/intf`, `src/tbintf`, `src/esp32sdk`, `src/cores`,
`src/libraries`). `PROJECT.json` lists the components, the runs, the source
lines behind every definition, the hazards and the theorems.

## How the program executes

All concurrency is SystemC's, and all modules rest on the same reading of it.

* Processes are co-operative. One runs at a time and gives up control only in
  `wait`, so *the code between two waits is one action*.
* An evaluation phase runs every runnable process, in any order. `notify()`
  without a time makes waiting processes runnable in the same phase, and
  `triggered()` stays true until that phase ends.
* A value written to a signal is seen from the next phase on. The models have a
  pair of variables (`cnt`, `cnt_n`) and an action `EndDelta` that copies the
  one to the other and wakes what is sensitive to the change.
* Time moves only when nobody can run. `Quiet` names such a state, and most
  properties about what an observer sees are stated for quiet states.
* `portENTER_CRITICAL(mux)` is `(mux)->trywait()` with the result ignored
  (`freertos/portmacro.h:59`), so a critical section excludes nobody.
* `SC_REPORT_ERROR` throws until the simulation starts. Afterwards it stops the
  simulation (`doitesp32devkitv1.cpp:77-88`).

## Inventory

| Component | State | Operations | What is hard | What makes it correct |
|---|---|---|---|---|
| FreeRTOS semaphores (`gn_semaphore.h`, `semphr.cpp`) | value, sleepers, `m_free` | take, timed take, give | one `post` wakes all; wake-ups; timeouts | tokens conserved, no wake-up lost, free tokens get used |
| SPI flash driver (`esp_spi_flash.cpp`) | `flashmutex`, the call in progress | erase, write, read | tasks share one unframed byte channel; long calls are split; polling without limit | answers go to the call they belong to; reads are exact; calls end |
| SPI flash device (`cchanflash.cpp`) | sector states, page vectors, parser position | thread `flash`; `addrange`, `rangeinit`, `preerase`, `preload` | framing, FIFO limit, page and range boundaries | an atomic flash; erase before write; layout arithmetic |
| Byte channel and port (`cchan.cpp`, `TestSerial.cpp`) | two FIFOs | intake, outtake, print, read | full FIFO drops bytes | never full in use |
| Pulse counter hardware (`pcntmod.cpp`) | shadow registers, counters, filters | `updateth`, `returnth`, `capture`, `count` | events of several threads in one phase | no edge or reset lost, limits, registers show counters |
| Pulse counter driver (`driver/pcnt.cpp`) | register structure, spinlock, handler table | configuration, pause, resume, clear, interrupt service | waits inside "critical" sections | hardware follows the registers, clears clear |
| Interrupt allocator (`esp32/intr_alloc.cpp`) | vector descriptors, handles, `non_iram_int_mask` | alloc, free, enable, disable | long sequences of legal calls, sharing, stale descriptors | tables agree with the handles in use |
| Interrupt matrix (`espintr.cpp`) | routing table, handlers, masks, pending set | `maskupdate`, `catcher`, `driver_app` | one slot for mask changes, signal latency | nothing masked stays pending |
| I2C (`Wire.cpp`, `i2c.cpp`) | two FIFOs of characters, state and waveform of the engine, peeked byte | requestFrom, beginTransmission, write, read, peek, flush; thread `transfer_th` | sketch, engine and device count bits for themselves; answers come half a clock early | bytes and acknowledges arrive unchanged, calls return |
| Port expander (`pcf8574.cpp`) | bit counter, address and data registers, outputs, interrupt line | `i2c_th`, `intr_th` | reacts to its own changes of SDA; inputs change during a read | answers its address only, frees the bus, no change goes unnoticed |
| SPI master (`esp32-hal-spi.cpp`, `spimod.cpp`) | lock, registers and their copies, `data_buf`, positions of `transfer_th` | transaction, transfer, write; `update_th`, `transfer_th` | events without memory, chunks, one buffer for both directions | each bit once, in place; the lock comes back |
| UART and its port (`uart.cpp`, `TestSerial.cpp`) | two FIFOs, line, peeked byte | write, read, peek, flush, blocking variants; `intake`, `outtake` | two clocks, timeouts, full FIFO | framing, each accepted byte once and in order, nobody waits for ever |
| Card reader (`pn532_base.cpp`, `pn532.cpp`) | parser, command, answer FIFO, operation state, pin | `process_th`, `resp_th`, `irqmanage_th`, reads over I2C | a new command in any state, pending timer, FIFO smaller than an answer | acknowledge first, then the right answer; the pin tells the truth |
| LED controller (`ledcmod.cpp`, `driver/ledc.cpp`) | timers, channels, fades | configure, fade, interrupt service | threads per timer and channel | not modelled, see below |
| GPIO, IO mux, GPIO matrix (`gpio_*.cpp`, `io_mux.cpp`, `gpio_matrix.cpp`, `mux_*.cpp`) | pin drive, function select | configure, drive | changes seen through several threads | not modelled yet |
| Flash partitions (`esp_partition.cpp`) | partition table | find, read, write, erase | bounds | not modelled yet |
| WiFi, event loop, sockets (`esp_wifi.cpp`, `tcpip_adapter.cpp`, `lwip/sockets.cpp`) | connection state, sockets | start, connect, send | events and calls interleave | not modelled yet |
| ADC, board wiring, other test-bench parts, Bluetooth, Arduino core | small or none | – | – | left out, reasons in `PROJECT.json` |

Interactions: a sketch's tasks call drivers. Drivers write register structures
and call `update()` of a hardware model, or talk to a device over a byte
channel. Hardware threads react to events and signals, and interrupt lines go
through the interrupt matrix back to a handler. Locks are `gn_semaphore`,
`sc_semaphore` or `sc_mutex` objects.

`nvs_flash`, `esp-mqtt`, `mbedtls`, `tcp_transport`, `http_parser` and the SDK
headers are third-party code carried unchanged and are not modelled.

## Modules

| Module | Contents |
|---|---|
| `Semaphore` | counting semaphore with blocking and timed take |
| `SemaphoreProofs` | its theorems |
| `FlashGeom` | address arithmetic of the flash (`getrange`, `SECADDR`, `PAGEADDR`, `ADDRINPAGE`, sector starts) |
| `Flash` | driver, byte channels and device together |
| `FlashSpec` | what a flash promises: a function from words to contents and atomic calls |
| `FlashRefine` | the mapping from `Flash` to `FlashSpec`, and properties stated on the mapped memory |
| `FlashProofs` | theorems about `Flash`: its port, its contents, what its reads return, the geometry of the flash, and that it implements `FlashSpec`; in its last part theorems about `FlashSetup` |
| `FlashSetup` | `addrange`, `rangeinit`, `preerase`, `preload`, before the simulation starts |
| `FlashBoot` | `FlashSetup` and `Flash` together: the device serves what the set-up has left |
| `PcntDriver` | the driver's functions as sequences of edits, split where they wait |
| `Pcnt` | tasks running those, and the threads of the hardware model |
| `PcntProofs` | theorems about what driver and hardware tell each other, and about clears, resets and edges |
| `Intr` | interrupt allocator and interrupt matrix |
| `IntrProofs` | theorems about the tables of the allocator, its search, the masks and the routing |
| `I2c` | `TwoWire`, bit engine, bus and port expander together |
| `I2cProofs` | theorems about the transfer between `TwoWire` and the port expander, and about its interrupt line |
| `Spi` | tasks, Arduino layer and peripheral of the SPI master |
| `SpiProofs` | theorems about both directions of a transfer |
| `Uart` | a serial line between two UARTs with the tasks at its ends |
| `UartProofs` | theorems about what reads return and what the receiver assembles |
| `Pn532` | the card reader with an arbitrary host |
| `Pn532Proofs` | theorems about the pin, the acknowledge and the answer |
| `MCFlash`, `MCFlashBoot`, `MCPcnt`, `MCIntr`, `MCI2c`, `MCSpi`, `MCUart`, `MCPn532` | instances for TLC |

Operators whose name ends in `_Something` and whose comment starts with
"Mutant" are deliberately wrong versions of the definition that follows. No
specification uses them; each shows that a property notices the error.

Every module defines `TypeOK`. It documents the values of the variables and was
checked with each instance; the runs leave it out, because a property about
behaviour fails first. The one of `Semaphore` is proved. (The one of `Flash` is
about a flash that starts empty: after a `preload` a page can have more
elements than words, see below.)

### Semaphore

`value` is `m_value`, and `st`, `runnable` say which tasks sleep and which were
woken. `WaitLoop` and `TimedLoop` are one turn of the loops in
`gn_semaphore::wait`. A task runs a turn when it calls (`Take`, `TakeTimed`),
when it was notified (`Resume`) and when its time is over (`Timeout`, which
returns to the loop because the loop tests only `in_use()`). `trig` is
`m_free.triggered()`, which the timed wait tests *instead of* the token.
`expired` and `ret` record what the task saw.

### Flash

The command lines, the opening `d:` of a data message and each data byte, `\r`
and `\n` are items of `rx`; answer bytes are items of `tx`. The tasks' actions
are `Call` (argument checks), `Lock`, `Send`, `TakeWord` and `TakeStatus`. The
thread `flash()` is cut at its waits into `DevCommand`, `DevErase`, `DevData`,
`DevProgram`, `DevStore`, `DevEol`, `DevRead`, `DevReply` and `DevFlood` (the
loop that does not end). An item can arrive only while the device waits,
because it reads its FIFO in zero time. `Habits` says which kinds of calls
tasks make: none (legal calls only), `illegal`, `cross` (reads over the end of
a page) and `small` (sizes below a word). A call is judged legal when it is
made; whether it still is when the device gets to it is what
`LegalNeverStops` checks.

`FlashSpec` has `Begin`, one of `Erase`/`Program`/`Read` at one instant, and
`End` for every sector or page of a call. It allows programming to zero blank
words before the programmed ones, as the code does; otherwise no call changes
another's words.

### FlashSetup

Actions are the four public functions with their error exits. Addresses are
bytes here, as in the code, and words in `Flash`; both use `FlashGeom`.
`preerase` and `preload` are called when the ranges are whole sectors and start
with a page (`WholeSectors`, `PageAligned`), and `preerase` with an end address
that is not below the start of the range. Without that the code indexes past
its arrays; see below.

### FlashBoot

`Prepare` is a call of the test bench, `Start` the start of the simulation and
`Running` a step of `Flash`. At the start the device takes over the sectors and
pages as they are. `Flash` has the ranges as constants, so that only set-ups
that end with those are started; the others are checked up to their end. A
set-up that preerases what it has loaded is not started (`NothingHidden`).

### Pulse counter

A driver call is a sequence of segments: the edits made without a wait, with
`update_pcnt()` (notify `update_ev`, wait for the next APB clock) between them.
`RunSegment` executes one. The hardware model's threads are the actions
`updateth`, `capture(u)`, `count(u)` and `returnth`; `Tick` is the next APB
clock and `Input` a change on the bus that `mux_pcnt` drives. `due` is a history
variable: the count that the sampled levels call for. `pcnt_isr_register` has
its `esp_intr_alloc` commented out, so handlers are stored and never called.

### Interrupts

`vd` holds the vector descriptors, `handle` the handles callers hold (with the
`disabled` bit of their shared descriptor), `table`, `handler`, `mask`, `intr`
the tables and signals of the application CPU, the only one used
(`xPortGetCoreID()` is always 1). The calls are one action each, since they
contain no wait. `get_available_int` is the search of the allocator with the
real table `int_desc`. `maskupdate`, `catcher` and `driver_app` are the
processes of the matrix, and `Signal` the LED controller's line. The first
mask is any set, because `maskupdate` also runs at time zero and then reads
members that were never initialized. Callers do not ask for an unshared
interrupt of a source in use (`Asked`).

### I2C

A call of `TwoWire` runs until it waits for a character in `from`; `task` says
where it is. `AddressAnswered`, `BitAnswered` and `WriteAnswered` are the code
after such a wait. `transfer_th` handles one character at a time. Its writes to
the two enables are the waveform of the character (`Wave`): `Fetch` makes the
first, and every `Clock`, the end of one wait, the next. `bus` is what the
device last saw, and `Resolved` what the open-drain lines are; the device runs
(`i2c_th`) when they differ, and what it drives makes them differ again. `Pin`
is a change of the port from outside, with `intr_th`. `samples`, `popped`,
`acked`, `addressed` and `told` are history.

The sketch either sends a stop or lets the engine finish before it addresses a
device again (`Paced`), unless `Hasty` is set.

### SPI

A job is `spiTransaction`, `spiTransferBytesNL` or `spiWriteNL`, and
`spiEndTransaction`. A task's steps are cut at the waits of `update()` and
`waitdone()`. `update_th` copies the registers and starts `transfer_th` if that
waits for `start_ev`; otherwise the start is lost. `transfer_th` is
`setupmaster`, `ClockLow` and `CycleEnd`, one bit per round. `left` holds the
rest of every timed wait in halves of an APB clock, and `Tick` passes time when
nobody can run. Bits are numbered tokens, so a bit that is lost, doubled or
misplaced shows.

### UART

`OutBegin` to `OutNext` are the thread `outtake`, `InRise` to `InByte` the
thread `intake`. The tasks call `TestSerial`: `write` and `WriteDone`,
`Immediate` (a read or peek that finds something), `Blocks`, `Woken`, `Recheck`
(one that waits), `flush`. Time goes from one end of a timed wait to the next.
`heard` is what `intake` assembled, `kept` what found room in the FIFO and was
not flushed, `given` what reads returned.

### Card reader

`process_th` takes one byte of a frame in every step; its disjuncts are the
states of the parser. `resp_th` is `RespNew` (a new command) or `RespAck` (the
timer, or the host has read everything) by operation state. An answer longer
than the FIFO keeps it inside `pushresp` (`push`), where it hears no event.
`irqmanage_th` sets the pin. The host sends frames, reads, and ends a read with
a NACK and a stop, which both drop the rest of the answer; cards come and go.
A frame begins with any bytes up to and including the first `00 00 FF`
(`FramesAssumption`); a host that sends no such bytes is not heard.
`LeaveUnread` and `SlowFrames` add two kinds of hosts (see below).

## Runs

| Run | What it checks and shows |
|---|---|
| `semaphore` | three tasks, one token: `Conservation`, `NoLostWakeup`, and `FreeTokenIsUsed` under fairness |
| `flash` | two tasks, legal calls: mutual exclusion, driver and device in step with room in the FIFO (`InStep`), exact reads, refinement of `FlashSpec`, and `Served` |
| `flash_boot` | a test bench sets up ranges and contents in any order, and one task then makes legal calls and fails every test of driver and device: `RangesRight`, `PagesDistinct`, `PreloadExact`, erased pages are empty (`ErasedIsEmpty`), and the simulation stops before a sector is programmed that nobody erased (`EraseBeforeWrite`) |
| `pcnt` | two tasks pause, resume and clear the same unit, and one of them enables the filter and changes the mode: hardware follows the registers (`Fresh`), registers show counters (`CountVisible`), no lost reset or edge and limits (`ResetHolds`, `CountRight`), clears clear unless the other task has taken the reset bit back (`ClearClears`) |
| `intr` | allocation, enabling, disabling and freeing in every order with the line changing: descriptors and handlers (`OwnersKnown`), routing (`Routed`), masks (`MasksAgree`), and that a free interrupt is found unless a stale descriptor of the source stands in the way (`FoundUnlessStale`) |
| `i2c` | any sequence of calls to a present and an absent device while inputs change: `ReadIsSample`, `WriteReaches`, `AnswerRight`, `BusReleased`, `IntrTellsChange`, and that calls return |
| `spi` | two tasks, jobs of one and two chunks, both bit orders, two rates: both directions exact, the lock comes back |
| `uart` | a writer and a reader over FIFOs of one byte, one and one and a half stop bits: framing, each accepted byte once, nobody stuck |
| `pn532` | up to three frames of ten kinds at any time: `RightAnswer`, `AckFirst`, `IrqTells`, and that commands are answered |
| `spi_write` | *violated*: `InBuffer`. `spiWriteNL` sets a read length of one bit; after it, the read position counts on from -1 and leaves `data_buf` |
| `intr_stale` | *violated*: `FoundIfFree`. A source is allocated without a level, freed and asked for with level 2; the freed descriptor of level 1 still has the source and is the only candidate |
| `pn532_stale` | *violated*: `RightAnswer`. After a frame with a bad payload, GetFirmwareVersion, which has no payload, is answered with a syntax error |

The runs marked *violated* state what comments of the code say and show a
behaviour that differs. The quotations are in `PROJECT.json` under `findings`.

### Bounds

* **semaphore**: three tasks. One gives while two sleep in different loops, which
  is the smallest situation in which one wake-up too many matters.
* **flash**: pages of two words of two bytes (a word can be half received, a
  page half written), three one-page sectors in two ranges with a hole. Two
  tasks are enough for any interference through the port, because a third
  could only wait for the mutex. `TxCap` holds any answer of a legal call.
  `MaxBacklog` restricts nothing here.
* **flash_boot**: 16 byte addresses, pages of four bytes, sectors of two pages,
  up to two ranges and two calls of `preerase` and `preload`: a load that ends
  inside a page, spans pages or ends a range. The set-ups that are started have
  one range of two sectors, the smallest in which `preerase` erases anything.
  One task, because here the answers to its calls matter and not their
  interleaving. `MaxBacklog` is 0: no call is made while an answer byte is
  unread, since in this run the device can send without end.
* **pcnt**: one unit, because units only share the copying of the registers.
  Two tasks, both with every call that uses the reset bit. Counters are modulo
  8, with limits ±2, so the limit is reached and wrapping would show. `MaxLock`
  bounds the spinlock's value, which nested sections raise without limit: no
  call starts once it is above 2. One channel is connected. The unit is set up
  for filtering, so that the filter that a task enables works; `CountRight`
  speaks of units while their filter has not been used.
* **intr**: interrupts 2 (level 1), 19 (level 2) and 7 (bound to a source in the
  CPU), two handles: an unshared source with and without a level, a shared one
  in IRAM, refusal when nothing is free and re-use after a free. Handles are
  symmetric. A source is either always shared or never and is not source 0 (see
  below for what happens otherwise). **intr_stale** has interrupts 2 and 19 and
  the unshared source only.
* **i2c**: bytes of three bits and addresses of two (every bit counter starts,
  counts and ends), FIFOs of eight items, requests of two bytes and of three,
  which do not fit; a device that is there and one that is not. Of the three
  values that are written, two are acknowledged, and the third has its top bit
  set and never is (see below).
* **spi**: a `data_buf` of one word, so that 40 bits are two chunks, the second
  shorter. Clock low as long as high, and twice as long.
* **uart**: three bits, FIFOs of one byte so that they are often full, three
  bytes (`MaxSent`), a rate of a third of the fastest. The timeout is longer
  than a bit and shorter than a byte, so that it ends before, with and after an
  arrival.
* **pn532**: a FIFO of two items against answers of two and of three, three
  frames (`MaxFrames`): the third finds what the first two have left. Every
  frame whose answer depends on `cmdbad` has a payload; **pn532_stale** adds the
  command without one.

### Fairness

* `Semaphore`: a woken task runs and the delta cycle ends; SystemC does not
  advance otherwise. Nothing says that a holder gives the token back.
* `Flash`: weak fairness of the device's steps and of the send and take steps of
  the task that holds the mutex; both are runnable processes or timed waits.
  None for acquiring the mutex: `sc_mutex` keeps no queue, so `Served` starts
  when a task has it.
* `I2c`: the engine, the device and the woken call run, and time passes, as long
  as no error has stopped the simulation. Nothing about the sketch.
* `Spi`, `Uart`: runnable processes run, and time passes when nobody can run.
  Nothing says that a task gets the lock: waiting tasks are all woken, and one
  may lose every time. `LockComesBack` therefore starts when a task has it.
* `Pn532`: the threads run and the timer fires. Of the host: a frame that was
  begun is sent, what the pin announces is read, and a read ends. Hosts that
  send a new frame instead of reading are included.
* `Intr`, `Pcnt`, `FlashSetup` and `FlashBoot` have safety properties only.

Deadlock is checked except where the system really stops: `flash_boot` and
`i2c` (an error was reported), `intr` (the program has called a null pointer),
`uart` and `pn532` (the last byte or frame was sent and nobody waits).

## Proofs

All from the modules' `ASSUME`s, which TLC also evaluates. Those about the
constants of `FlashSetup` are hypotheses of its theorems and assumed, and so
evaluated, in `FlashBoot`.

* `SemaphoreProofs`, for any finite set of tasks and any initial count: with
  `IInv == TypeOK /\ Conservation /\ NoLostWakeup`, which is inductive as a
  whole. Conservation needs the type (a step makes exactly one task a holder,
  and cardinalities of finite sets then change by one) and `NoLostWakeup` uses
  that a loop sleeps again only with value 0. `Conservation` says both that
  tokens and holders add up and that the value is never negative, and so that
  there are never more holders than tokens. The theorems are `TypeCorrect`,
  `TokensConserved`, `WakeupsNotLost`. Both loops share the lemma `LoopTurn`.
* `FlashProofs`, for any geometry, layout of ranges, tasks and requests.
  - `PortIsExclusive` from `PortInv` (the mutex and program counters), and
    `ErasedBeforeWritten`. A write is checked when its command is read and the
    sector is marked a data message and a timed wait later; `ChosenKnown`
    carries the fact across: while the device is between the two, the chosen
    sector is in a known state. It is inductive because no other step of the
    single device thread touches the sectors. `EraseBeforeWrite` speaks of the
    time in which the device serves a command, so that the start of a flash with
    preloaded sectors (`FlashBoot`) is no exception to it. Both hold for misuse
    too.
  - `AlwaysInStep`, for calls of whole words (`"small" \notin Habits`),
    illegal ones included. `StepInv` counts the items of the holder's message
    that the device has read (`Used`). What is in the FIFO and what is still to
    be sent are the rest of the message (`Stream`), and the position of the
    device is a function of `Used` (`EraseStage`, `WriteStage`, `ReadStage`).
    The FIFO never fills because the only part of a message that can pile up,
    during the program operation, is a page and four items.
  - `ErasedStaysEmpty`, from `EmptyInv`: the device works on a legal address,
    the start of a sector if it erases, and a page holds words only if its
    sector is programmed. The proof is arithmetic: `RangeFacts` says what
    `getrange` finds, `SecStartFacts` that the sums of `rangeinit` satisfy their
    recursive equation, `PlaceFacts` and `PageInSector` that `PAGEADDR` is a page
    of the sector that `SECADDR` gives and that the `SecPages` pages from the
    one at the start of a sector are the pages of that sector. The recursion is
    over the ranges and is settled with a least counterexample (`LeastNat`, from
    the library's `WFMin`).
  - `LegalCallsNeverStop`, from `LegalInv`: what is left of a legal call is
    legal (`RestLegal`), and stays so since no sector becomes unknown again.
  - `ReadsAreExact`, for calls of whole words whose reads stay in a page and a
    board FIFO that holds more than a page (1024 against 256 in the code). Both
    conditions are needed: a read over the end of a page is wrong (see below),
    and a FIFO that fills drops bytes of the answer. `ReadInv` says of an answer
    under way that the words already taken, the bytes in the FIFO and those the
    device has still to send are together the words that the flash holds
    (`Arriving`). It holds when the answer is made because the words of a chunk
    are in one page of one sector (`ReadPlace`, from `OnePage`) and an erased
    sector has no stored words (`EmptyInv`). Until the status is read the
    contents stay, because only the holder of the mutex is served. A long read
    goes on at the start of the next page (`NextPage`).
  - `FlashImplementsSpec`: driver, channels and device refine `FlashSpec`, for
    legal calls of whole words whose reads stay in a page and a board FIFO that
    holds more than a page (`Proper`; the run `flash` meets it). The one fact
    about the specification's own constants is that `Unknown` is no word
    (`UnknownAssumption`). `FlashInv` collects the invariants above and adds
    `MapInv`: what is left of a call is one of its parts (`Origin`), the device
    works on what the holder of the mutex asked for and the bytes of the word it
    is assembling are those of the caller (`Serving`), and pages hold bytes
    (`StoresBytes`). Then one lemma per action says what the action is for
    `FlashSpec`: `CallMap` a `Begin`, `EraseMap` an `Erase`, `ProgramMap` a
    `Program`, `ReadMap` a `Read`, `StatusMap` an `End`; for the others
    (`LockMap`, `SendMap`, `CommandMap`, `DataMap`, `StoreMap`, `EolMap`,
    `ReplyMap`, `WordMap`) nothing changes. Two of these carry the argument. A
    `Program` is complete when the device starts to store: a word in flight is
    the caller's, and `StoreMap` shows that storing it puts that very word at
    that address and touches no other, which rests on the address arithmetic
    (`SamePage`, `SamePlace`: two addresses with the same page and place are
    equal). And a `Read` is complete when the answer is made: moving its bytes
    through the FIFO into the buffer changes none of its words (`WordMoves`,
    `WordsOfBytes`). The endless answer of a read of no words does not occur
    (`NoFlood`).
  - For `FlashSetup` (an instance with variables of its own, `Setup`), any
    geometry and any number of ranges and loads, and every address up to
    `MaxAddr`. `RangesStayRight` and `PagesStayDistinct` follow from `SetupInv`:
    the ranges are `Ordered` and the arrays are as long as the layout needs.
    `InsertOrdered` is the argument behind the test in `addrange`: a range that
    overlaps none, put before the first that starts later, leaves the others in
    order, from which `RangeFound` concludes that the search of `getrange` may
    stop where it does. `InRange` and `PageApart` are the arithmetic of sectors
    and pages in a layout of whole sectors that need not be aligned.
    `PreloadIsExact` is about one call: the k-th word of a load is in the turn
    and at the place where the device looks for it (`LoadWord`), and the turn
    goes on far enough to copy it (`LoadLast`). It is for loads that start with
    a page and do not end in the first byte of a word (`LoadsFit`); both are
    needed (see below).
* `UartProofs`, for bytes of any length, FIFOs of any size, any timeouts, rates
  and number of bytes. `ReadOnceInOrder` from `ReadInv`, which is `NothingLost`
  with the types of FIFO, peeked byte and histories. `NothingLost` is inductive
  once those are known: each step moves one byte over one of the two borders in
  `given \o peeked \o from`, and the lemmas `PutBehind`, `SetApart` and
  `GiveAway` are those three moves. `EveryByteFramed` from `FrameInv`: while a
  byte is on the line the timed waits of both threads differ by half a bit, with
  one bit more or less counted (`Apart`), intake is done half a bit before the
  stop bit can end (`Closing`), and no byte is in two places (`Places`).
* `Pn532Proofs`, for any frames and any size of the FIFO. `PinTellsTheTruth`
  from `IrqInv`. The pin is set from `wasempty`, so the invariant says that
  `wasempty` is true of the FIFO whenever the thread is not woken, and that
  a thread woken with an empty FIFO remembers a full one; without the second
  half a write and a read in one event would leave the pin low.
  `AcknowledgedFirst` and `AnswersTheLastCommand` hold without `LeaveUnread` and
  `SlowFrames`, which are hypotheses of the theorems (see below for what happens
  with them). The second also needs that every command whose
  answer depends on `cmdbad` comes with a payload (`PayloadsGiven`). `AckInv` follows the operation state: from `ACKRDOUT` on the
  command was acknowledged, and while a new command is pending nothing has been
  said about it. `AnswerInv` adds that the parser is where the frame is
  (`Coming`), so that the registers are loaded from one frame, and that they
  hold the command last completed while `resp_th` works on it.
* `PcntProofs`, for any units, tasks, calls and inputs, and counters of any
  width. `RegistersShowCounters`: what `returnth` copied last is right unless it
  is woken. `ResetAlwaysHolds`: a unit that is about to be in reset has a zero
  counter or `count` is to run with its reset event. `EveryEdgeCounts` is about
  behaviours in which nobody changes limits or filter (`[]Steady`), with the
  filter off, enabled limits around zero and no signal on channel 1
  (`SteadySetup`); each of these is needed (see below). The run is wider: there
  a task does enable the filter, and `CountRight` follows the unit up to then. `CountInv`: when `count` is not to run the counter is the one
  called for, and when it is, running it will make it so (`Coming`); it needs
  that an edge never meets a counter with a change still in its signal.
  The other theorems are about the driver, for any number of tasks that call
  any of its functions with any arguments in any order (`DriverCalls`), the waits
  inside a call included.
  - `HardwareIsFresh` from `FreshInv`: `updateth` is woken or its signals are
    what the registers say, and what a task has still to do is `Closed`, which
    means that its last segment writes nothing but the enable of the filter.
    Every earlier segment ends in `update_pcnt()`, so that whatever a task has
    written is on its way (`Segment`). `CallsAreClosed` goes through the
    functions of the driver one by one.
  - `ClearsDoClear` from `FreshInv`, `ResetInv` and `ClearInv`: in a unit that a
    task is clearing the reset bit is set, or another task has taken it back in
    its own clear in this very clock (`TakenBack`). Whatever else is called
    meanwhile leaves the bit alone, which is most of the proof.
    `SoleClearsDoClear` concludes
    that the exception needs two tasks that clear the same unit (`OneClears`).
* `IntrProofs`, for any interrupts, sources, requests and number of handles. All
  theorems but `AlwaysRouted` and `FreeAreFound` include the requests that break
  `Routed` and `FoundIfFree`. `OwnersAreKnown` from `TablesInv`: the list of a
  descriptor holds the handles of its interrupt, each once. `MasksAlwaysAgree` from the same, with `IramFlag` (the handles of an
  interrupt agree on IRAM), and from `CatchInv` (the pending set is right unless
  `catcher` is woken). `AlwaysRouted` from `RouteInv`, for requests that ask for
  a source always or never shared and never share source 0 (`OneWay`): all
  handles of a source have one interrupt (`OneInt`), and the source that a
  descriptor keeps is 0 or that of an unshared request, so that a freed one is
  never taken for a shared source. Both conditions are needed (see below).
  `FreeAreFoundUnlessStale`, for all requests: a source without an interrupt gets
  one that suits and is free, unless a descriptor that has kept this source does
  not suit. Such a descriptor is the only thing that can mislead the search, for
  the vector of an unshared handle has that handle's source (`VectorSource`). If no
  descriptor matches, the search takes the best of what is usable, and
  `LoopTurns` and `BestIn` show that the loop over the 32 interrupts ends with
  one if there is any. It is a recursive function, settled with a least
  counterexample as the sums of `rangeinit` are. `FreeAreFound` adds conditions
  under which no descriptor misleads, from `RouteInv` and `KeptFits`: the source
  that a descriptor keeps is that of a request which its interrupt fits, so that
  the descriptor that `find_desc_for_source` stops at can be used if it is free
  (`MatchIsFree`). The hypotheses are `OneWay` and `OneKind`: a source
  that is not shared is asked for with the same levels and the same kind of
  interrupt every time, and source 0 never. Without the second the search fails
  although there is a free interrupt (see below). `NoneAssumption` says that
  `None`, the -1 of the code, is no interrupt.
* `I2cProofs`, for bytes of any length and whatever the sketch sends:
  `ChangesAreTold` from `IntrInv`, by which the master has been told nothing
  that is out of date while data is being written. The other four theorems are
  also for FIFOs of any size and any device (`NoneAssumption` only keeps `None`
  apart from the rest), and for a sketch that is not hasty (`~Hasty`: before it
  addresses a device again it sends a stop, or the engine rests). A hasty one
  loses a start in the code itself (see below).
  - All four rest on `WireInv`, which holds at every half clock of a transfer.
    Its parts are: what is left of an item's waveform determines the enables
    (`EngInv`); what the device pulls SDA to (`PortInv`); what is still queued
    for the engine is the end of the call under way, after stops of earlier
    ones (`ToInv`); what lies in the other FIFO belongs to this call
    (`FromInv`); and `PhaseInv`. The last is the reason for the others: engine
    and device count bits separately, one by the items that are left, the other
    by the rises of SCL it has seen, and `PhaseInv` says that they are at the
    same bit of the same byte. It has one case for each phase: nothing of this
    call has been sent (`Calm`), the address (`Addressing`), a byte written
    (`Sending`), an answer (`Collecting`). Two cases are there because the code
    allows them: a byte to which nobody listens (`Deaf`), and the lost one whose
    top bit is 1 (`Lost`).
  - `BusIsReleased` needs nothing else: `Calm` says where the device is when
    the engine rests.
  - `AnswerIsRight`, with `AnswerInv`: the character that a call takes from the
    FIFO is the answer to its own address (`FromInv`), and the device has
    compared every bit of that (`AfterRises`).
  - `WriteHasReached`, with `ByteInv`: a byte is on the port before the sketch
    knows (`Arrived`), or the device still waits for the clock of its
    acknowledge (`Pending`). It also follows the device through a write that
    comes after a read without a stop, in which it must not take the byte
    (`DeafDev`).
  - `ReadsTheSamples`, with `SampleInv`: the number of bits in the FIFO and the
    device's place in its byte say together how many bits of which sample have
    come in (`Filling`). The device takes the first sample at the clock after
    the address, while the call is still waiting for the answer to that
    (`Loaded`), and each further one at the clock of an acknowledge, which the
    engine sends only if another byte is wanted.
* `SpiProofs`, for any tasks, clocks and size of `data_buf`: `TransfersAreExact`
  and `ResultsAreExact`, for transfers on which layer and peripheral agree
  (`Agreed`: no writes, and one byte if the most significant bit goes first; see
  below for the others). `BusInv` follows the task that has the lock. Between
  chunks the peripheral rests. In a chunk, with `transfer_th` at bit `i`, the
  places of the first `i` bits hold what came in and the others what is to go
  out (`Swapped`). The transfer cannot end before `waitdone` listens, because
  task and `transfer_th` wait for the same edge (`Started`).

Only model-checked:

* the liveness properties (`FreeTokenIsUsed`, `Served`, `CallsReturn` of the I2C
  calls, `LockComesBack`, `NobodyStuck`, `Answered`): liveness under fairness is
  outside the prover.
* `FlashBoot`, the composition: its parts are proved, each from its own initial
  states.

What a recursive definition computes for every input is in general out of reach,
because the library's induction theorems take an operator as a parameter; the
sums of `rangeinit` and the loop of `get_available_int` are the exceptions
described above.

## Behaviours the models keep

These are in the code and therefore in the models; they limit where the
properties above may be relied on. The first group contradicts a comment or a
property. Each can be seen by changing a configuration as described.

* A timed take of a free semaphore fails at once unless it was posted in the
  same delta cycle (`gn_semaphore.h:14`), although `semphr.cpp:114` says the
  result tells "if it timedout or not". In `Semaphore.cfg`, check
  `FalseMeansTimeout`.
* A read that starts inside a page and ends in the next returns 0xff for the
  part in the next page (`cchanflash.cpp:408`). In `Flash.cfg`:
  `Habits = {"cross"}`, and `Read(1, 4)` added to `LegalRequests`;
  `ImplementsFlash` fails, and `ReadIsExact` if it is checked alone.
* Programming the end of a blank page turns the words before it from blank to
  zero (`cchanflash.cpp:345`), against "Erased: return FFFF." (line 390). In
  `Flash.cfg`, check `WriteTouchesOnlyItsWords`.
* Two tasks clear the same counter: one takes the reset bit back before the
  hardware has seen the other's, and that clear does nothing
  (`driver/pcnt.cpp:190`), against "Clear and reset PCNT counter value to zero"
  (`driver/pcnt.h`). The run `pcnt` includes this; `ClearClears` names it as its
  one exception (`TakenBack`) and fails without that disjunct.
* `esp_intr_free` leaves the source in the freed descriptor
  (`intr_alloc.cpp:707`), and a new descriptor has source 0. A source that was
  allocated at level 1 and freed cannot be allocated at level 2 although an
  interrupt of that level is free: run `intr_stale`. The run `intr` includes
  these requests, and `FoundUnlessStale` says that nothing else keeps a free
  interrupt from being found. A stale descriptor can also hide that a source is
  in use; the source is then allocated on two interrupts and `Routed` fails. It
  takes a source that is asked for both shared and unshared, or source 0 shared.
* PN532: `cmdbad` is set only when a payload is checked. A command without one
  is judged by what an earlier frame left there (or the memory the reader was
  built in) and may be turned down although "Check if an unknown command came
  in. This will trigger a syntax error." (`pn532_base.cpp:235`): run
  `pn532_stale`.
* I2C: an answer reaches the sketch half a clock before SCL drops. A start that
  is queued at once, without a stop, begins by releasing SDA and SCL together
  (`i2c.cpp:40`); the device sees a clock or a stop where a start is meant,
  although line 36 expects a start bit "in the middle of a command". In `I2c.cfg`: `Hasty = TRUE`; `WriteReaches` fails.
* PN532: a frame that arrives while an answer waits for room in the FIFO is not
  heard, because `resp_th` is inside `pushresp` (`pn532_base.cpp:539`); the
  answer that goes out afterwards belongs to the old command. In `Pn532.cfg`:
  `LeaveUnread = TRUE`. With `SlowFrames = TRUE` a timer
  of the old command fires between two bytes of the new frame and answers from
  a half-changed `mif`. `RightAnswer` fails in both.

The second group contradicts nothing that is stated.

* `gn_semaphore`: a timeout that expires while the semaphore is taken starts
  another full wait (`gn_semaphore.h:11`).
* `spi_flash_read`/`_write`: `ceil(size/4)` divides integers, so one to three
  trailing bytes are not transferred. A read of fewer than four bytes from a
  programmed page sets off an answer without end (`cchanflash.cpp:402`).
* `preerase` leaves out the sector of its end address and does not empty pages.
  What an earlier `preload` has put there is hidden until the first write to the
  sector brings it back (`cchanflash.cpp:75`); without `NothingHidden` in
  `FlashBoot`, `ErasedIsEmpty` fails. An end address below the start of the range
  is not noticed: `SECADDR` wraps around as an unsigned number and the loop
  writes far behind the array. `FlashSetup` has no such call.
* A range that is not a whole number of sectors has addresses whose index is one
  of the next range or outside the arrays (`cchanflash.cpp:220`). Without its
  condition `WholeSectors`, `PagesDistinct` fails in `flash_boot`.
* `preload` copies a word only if it starts before the last byte of the load
  (`cchanflash.cpp:145`), so a last word of one byte is left out. The page it
  makes has as many elements as there are bytes, not words. A load that
  does not start with a page is put at the same offset in each of its pages.
* `pcnt_filter_enable`/`_disable` do not call `update_pcnt()`; `Fresh` leaves
  their field out. A pending filtered edge is not cancelled when the input goes
  back; the control filter of channel 1 uses channel 0's variable; `int_st` is
  computed when a counter changes only; the lower-limit status compares
  unsigned values; `int_clr` is not looked at.
* `count` handles one channel per wake-up: edges of both channels sampled at
  the same clock lose the one of channel 1. `CountRight` is therefore checked
  with one channel connected.
* `espintr`: two mask changes in one evaluation phase leave only the last.
  Re-routing a source does not start `catcher`, so an interrupt that is already
  raised waits for the next change of its line or of the mask. `driver_app`
  looks for a handler in `handler_app` but calls `handler_pro`'s, a null
  pointer: the first delivered interrupt ends the program (`dead`). Freeing an
  interrupt does not mask it.
* I2C: `write()` of a byte that is not acknowledged never returns
  (`Wire.cpp:252`), because the engine has gone idle and drops the bits of the
  next round. This includes every byte whose top bit is 1: the device still
  holds SDA when the first data clock rises, releases it with the clock high
  (`pcf8574.cpp:182`) and takes the rise for a stop. `CallsReturn` is therefore
  about the other calls, and no run writes such a byte successfully.
* SPI: MSB-first jobs of more than 8 bits visit the wrong places (`calcnextbit`
  adds 8 at the end of a byte where 15 are needed), so such jobs are not among
  `MCTransfers`; an LSB-first write sends its data twice, since the read
  position has to come round; results are copied in whole words; the chip
  select is not released between jobs; the lock can pass a waiting task by.
* UART: a full FIFO at the receiver drops the byte (`uart.cpp:104`). `set_baud`
  above 115200 makes the period 0 (integer division), hence
  `RatesAssumption`. The detection of the rate measures `start - now`, which
  wraps, so it always finds 300 baud; it is left out. `bl_peek` marks a byte as
  taken before it has one; with one reading task this cannot be seen.
* PN532: `RFConfiguration` is checked as if it were `InListPassiveTarget` and always
  answered with an error; a wrong length, TFI or checksum is reported and
  accepted.

## What is left out

* Data that no property tells apart: formatting, logging, traces, baud rates and
  the 50 ns of a byte, register bit positions.
* `spi_flash_mmap` and the encrypted variants: not implemented, or the same code.
* `pcnt_set_pin` and the GPIO matrix behind it; `pcnt_intr_service`, which
  nothing calls.
* `esp_intr_mark_shared`, `esp_intr_reserve`, `esp_intr_noniram_disable` and
  `_enable`, which have no caller in the repository; `shared_intr_isr`, which
  cannot be reached; the other CPU's tables, which stay empty.
* I2C: `write(buffer, size)`, which queues bits and returns, `requestFrom` with
  size 0, and two tasks that share `Wire`, which has no lock.
* SPI: slave mode and reset, which nothing sets; delays of the data against the
  clock; chip selects; the calls for single words.
* UART: detection of the rate; `HardwareSerial`, which passes calls on (its
  `flush` does nothing).
* PN532: the memory of the card and its authentication, the bit level of its I2C
  interface (the same code as in `pcf8574.cpp`), the serial variant.
* The LED controller. The source is unfinished: the limit of a timer is never
  set, interrupt bits are read at the wrong places, and the fade semaphore
  starts with two tokens. There is no intended behaviour to check yet.
* ADC conversions (arithmetic on real numbers), the other test-bench parts,
  Bluetooth and the Arduino core (wrappers without state of their own).
* Most of the repository's 111 000 lines are register headers, SDK headers and
  third-party libraries without logic of espmod's own, so the modelled share of
  all lines stays small whatever is added. Of the peripherals with threads of
  their own, LED controller, GPIO and ADC are the ones without a module.

## Plan

What would add most next:

1. `Gpio`: the hand-over of a pin between drivers through `io_mux` and the
   matrix, from a register write to the pin, and pin interrupts.
2. `Partition` over `FlashSpec`: bounds checks keep every access inside its
   partition.
3. `Net`: connection states and the event task.
4. `Ledc`, when its source is complete.
