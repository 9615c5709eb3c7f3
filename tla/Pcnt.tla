------------------------------- MODULE Pcnt --------------------------------
(***************************************************************************)
(* The pulse counter: tasks that call the driver (PcntDriver), and the     *)
(* hardware model src/modules/pcntmod.cpp with its threads updateth,       *)
(* returnth and, for each unit, capture and count.                         *)
(*                                                                         *)
(* SystemC runs in evaluation phases.  The processes that can run in a     *)
(* phase run one after the other in any order; what they write to a signal *)
(* is seen from the next phase on (EndDelta), and time moves (Tick, to the *)
(* next APB clock) only when nobody can run.  notify() makes the process   *)
(* that waits for the event runnable in the same phase, and triggered()    *)
(* holds until that phase ends.                                            *)
(***************************************************************************)
EXTENDS PcntDriver

CONSTANTS
  Tasks, Units,
  Setup,        \* the registers of each unit at the start
  Ops,          \* the calls that each task makes
  BusLevels,    \* the levels the inputs of a unit may have
  CntMod,       \* counters are modulo CntMod, 2^16 in the code
  MaxLock       \* bound: no call starts with pcnt_spinlock above it

VARIABLES
  regs,       \* PCNT, as far as the driver writes it
  spinlock,   \* pcnt_spinlock's value
  isr,        \* pcnt_isr_func
  prog,       \* what each task has still to do of its call
  waiting,    \* the tasks that wait for the APB clock
  upd,        \* updateth can run
  shadow, shadow_n,   \* the signals conf0..2, ctrl, int_ena; `_n': next value
  bus,        \* pcntbus_i
  last,       \* lastlvl of capture
  cap,        \* where capture is
  fctrl,      \* fctrl0/1: ticks until then, 0 for now and -1 for the past
  timed,      \* ticks until filtered_sig0/1 is notified, 0 if it will not be
  trig,       \* the events of each unit that are triggered()
  run,        \* the units whose thread count can run
  cnt, cnt_n, raw, raw_n,   \* the signals cnt_unit and int_raw
  ret,        \* returnth can run
  seen,       \* PCNT, as far as returnth writes it
  due         \* history: what the counters should be if no edge is lost, of the
              \* units whose filter has not been used

sw   == <<regs, spinlock, isr, prog, waiting>>
sigs == <<shadow, shadow_n, cnt, cnt_n, raw, raw_n>>
capt == <<last, cap, fctrl, timed>>
vars == <<sw, upd, sigs, bus, capt, trig, run, ret, seen, due>>

Channels == {0, 1}
Low == [sig |-> [c \in Channels |-> 0], ctrl |-> [c \in Channels |-> 0]]

ASSUME CntAssumption == CntMod \in Nat /\ CntMod > 3 /\ CntMod % 2 = 0
ASSUME SetupAssumption == Setup \in [Units -> [Fields -> Int]]
ASSUME BoundAssumption == MaxLock \in Nat 

\* (int16_t) and (uint16_t)
Signed(n)   == LET m == n % CntMod IN IF m >= CntMod \div 2 THEN m - CntMod ELSE m
Unsigned(n) == n % CntMod

Status0 == [thres0 |-> FALSE, thres1 |-> FALSE, l_lim |-> FALSE, h_lim |-> FALSE,
            zero |-> FALSE]

Init ==
  /\ regs = Setup
  /\ spinlock = 1
  /\ isr = [on |-> FALSE, fn |-> {}]
  /\ prog = [t \in Tasks |-> <<>>]
  /\ waiting = {}
  /\ upd = FALSE
  /\ shadow = Setup /\ shadow_n = Setup
  /\ bus = [u \in Units |-> Low]
  /\ last = [u \in Units |-> Low]
  /\ cap = [u \in Units |-> "idle"]
  /\ fctrl = [u \in Units |-> [c \in Channels |-> -1]]
  /\ timed = [u \in Units |-> [c \in Channels |-> 0]]
  /\ trig = [u \in Units |-> {}]
  /\ run = {}
  /\ cnt = [u \in Units |-> 0] /\ cnt_n = cnt
  /\ raw = [u \in Units |-> FALSE] /\ raw_n = raw
  /\ ret = FALSE
  /\ seen = [u \in Units |-> [cnt |-> 0, raw |-> FALSE, st |-> FALSE, lat |-> Status0]]
  /\ due = cnt

----------------------------------------------------------------------------
(* The tasks.                                                              *)

\* Mutant: update() does not notify the hardware.
RunSegment_NoNotify(t, p) ==
  LET z == FoldLeft(Edit, [spinlock |-> spinlock, isr |-> isr], Head(p))
  IN  /\ regs' = Written(regs, Head(p)) /\ spinlock' = z.spinlock /\ isr' = z.isr
      /\ prog' = [prog EXCEPT ![t] = Tail(p)]
      /\ waiting' = IF Len(p) > 1 THEN waiting \union {t} ELSE waiting
      /\ UNCHANGED <<upd, sigs, bus, capt, trig, run, ret, seen, due>>

\* A task does its next segment and, if another follows, calls update_pcnt():
\* update_ev is notified and the task waits.
RunSegment(t, p) ==
  LET z == FoldLeft(Edit, [spinlock |-> spinlock, isr |-> isr], Head(p))
  IN  /\ regs' = Written(regs, Head(p)) /\ spinlock' = z.spinlock /\ isr' = z.isr
      /\ prog' = [prog EXCEPT ![t] = Tail(p)]
      /\ waiting' = IF Len(p) > 1 THEN waiting \union {t} ELSE waiting
      /\ upd' = (upd \/ Len(p) > 1)
      /\ UNCHANGED <<sigs, bus, capt, trig, run, ret, seen, due>>

Call(t) ==
  /\ prog[t] = <<>>
  /\ spinlock <= MaxLock
  /\ \E p \in Ops[t] : Accepted(p, isr) /\ RunSegment(t, p)

Continue(t) ==
  /\ prog[t] # <<>> /\ t \notin waiting
  /\ RunSegment(t, prog[t])

----------------------------------------------------------------------------
(* The threads of the hardware model.                                      *)

\* updateth copies the registers to the signals and notifies the resets.
updateth ==
  /\ upd
  /\ upd' = FALSE
  /\ shadow_n' = regs
  /\ LET reset == {u \in Units : regs[u].cnt_rst > 0}
     IN  /\ trig' = [u \in Units |-> IF u \in reset THEN trig[u] \union {"rst"}
                                     ELSE trig[u]]
         /\ run' = run \union reset
         /\ due' = [u \in DOMAIN due |-> IF u \in reset THEN 0 ELSE due[u]]
  /\ UNCHANGED <<sw, shadow, cnt, cnt_n, raw, raw_n, bus, capt, ret, seen>>

Event(c) == IF c = 0 THEN "f0" ELSE "f1"

\* What one edge on a channel does to a count: docnt after its first test.
Mode(r, c, sig) ==
  IF c = 0 THEN IF sig = 1 THEN r.ch0_pos_mode ELSE r.ch0_neg_mode
  ELSE IF sig = 1 THEN r.ch1_pos_mode ELSE r.ch1_neg_mode
CtrlMode(r, c, ctrl) ==
  IF c = 0 THEN IF ctrl = 1 THEN r.ch0_hctrl_mode ELSE r.ch0_lctrl_mode
  ELSE IF ctrl = 1 THEN r.ch1_hctrl_mode ELSE r.ch1_lctrl_mode

\* Mode 1 counts up and 2 down; control mode 0 keeps and 1 reverses that.
Stepped(r, n, c, sig, ctrl) ==
  LET m == Mode(r, c, sig)
      k == CtrlMode(r, c, ctrl)
  IN  Signed(n + IF <<k, m>> \in {<<0, 1>>, <<1, 2>>} THEN 1
                 ELSE IF <<k, m>> \in {<<0, 2>>, <<1, 1>>} THEN -1 ELSE 0)

AtLimit(r, n) ==
  \/ r.thr_l_lim_en > 0 /\ n <= Signed(r.cnt_l_lim)
  \/ r.thr_h_lim_en > 0 /\ n >= Signed(r.cnt_h_lim)

NewCount(r, n, c, sig, ctrl) ==
  LET nc == Stepped(r, n, c, sig, ctrl) IN IF AtLimit(r, nc) THEN 0 ELSE nc

\* An event is raised: a limit, a threshold or zero.
Raises(r, n, c, sig, ctrl) ==
  LET nc == NewCount(r, n, c, sig, ctrl)
  IN  \/ AtLimit(r, Stepped(r, n, c, sig, ctrl))
      \/ r.thr_thres0_en > 0 /\ nc = Signed(r.cnt_thres0)
      \/ r.thr_thres1_en > 0 /\ nc = Signed(r.cnt_thres1)
      \/ r.thr_zero_en > 0 /\ nc = 0

\* docnt does nothing for a unit that is paused or in reset.
Counting(r) == r.cnt_pause = 0 /\ r.cnt_rst = 0

docnt(u, c, sig, ctrl) ==
  IF ~Counting(shadow[u]) THEN UNCHANGED <<cnt_n, raw_n>>
  ELSE /\ cnt_n' = [cnt_n EXCEPT ![u] = NewCount(shadow[u], cnt[u], c, sig, ctrl)]
       /\ raw_n' = [raw_n EXCEPT ![u] = @ \/ Raises(shadow[u], cnt[u], c, sig, ctrl)]

\* capture, once the clock has come: sample, filter the control inputs, notify.
capture(u) ==
  LET r   == shadow[u]
      lvl == bus[u]
      old == last[u]
      filter_thres == IF r.filter_en > 0 THEN r.filter_thres ELSE 0
      f0 == IF lvl.ctrl[0] = old.ctrl[0] THEN fctrl[u][0]
            ELSE IF fctrl[u][0] >= 0 THEN -1 ELSE filter_thres
      cancel1 == lvl.ctrl[1] # old.ctrl[1] /\ f0 >= 0    \* tests and clears fctrl0
      f1 == IF lvl.ctrl[1] # old.ctrl[1] /\ ~cancel1 THEN filter_thres ELSE fctrl[u][1]
      edges == IF r.cnt_rst > 0 THEN {} ELSE {c \in Channels : lvl.sig[c] # old.sig[c]}
      Both(n) == LET a == IF 0 \in edges THEN NewCount(r, n, 0, lvl.sig[0], lvl.ctrl[0]) ELSE n
                 IN  IF 1 \in edges THEN NewCount(r, a, 1, lvl.sig[1], lvl.ctrl[1]) ELSE a
  IN  /\ cap[u] = "run"
      /\ cap' = [cap EXCEPT ![u] = "idle"]
      /\ last' = [last EXCEPT ![u] = lvl]
      /\ fctrl' = [fctrl EXCEPT ![u][0] = IF cancel1 THEN -1 ELSE f0, ![u][1] = f1]
      /\ IF filter_thres > 0
         THEN \* an earlier notification stays, a later one is dropped
              /\ timed' = [timed EXCEPT ![u] = [c \in Channels |->
                     IF c \in edges /\ (@[c] = 0 \/ @[c] > filter_thres)
                     THEN filter_thres ELSE @[c]]]
              /\ due' = [v \in DOMAIN due \ {u} |-> due[v]]
              /\ UNCHANGED <<trig, run>>
         ELSE /\ timed' = [timed EXCEPT ![u] =
                             [c \in Channels |-> IF c \in edges THEN 0 ELSE @[c]]]
              /\ trig' = [trig EXCEPT ![u] = @ \union {Event(c) : c \in edges}]
              /\ run' = IF edges # {} THEN run \union {u} ELSE run
              /\ due' = [v \in DOMAIN due |->
                           IF v # u \/ "rst" \in trig[u] \/ ~Counting(r) THEN due[v]
                           ELSE Both(due[v])]
      /\ UNCHANGED <<sw, upd, sigs, bus, ret, seen>>

\* Mutant: the counter is not cleared.
count_NoReset(u) ==
  /\ u \in run
  /\ run' = run \ {u}
  /\ LET c   == IF "f0" \in trig[u] THEN 0 ELSE 1
         p   == bus[u]
         lvl == IF fctrl[u][c] > 0 THEN 1 - p.ctrl[c] ELSE p.ctrl[c]
     IN  docnt(u, c, p.sig[c], lvl)
  /\ UNCHANGED <<sw, upd, shadow, shadow_n, cnt, raw, bus, capt, trig, ret, seen, due>>

\* Mutant: the two channels are mixed up.
count_WrongChannel(u) ==
  /\ u \in run
  /\ run' = run \ {u}
  /\ IF "rst" \in trig[u]
     THEN cnt_n' = [cnt_n EXCEPT ![u] = 0] /\ UNCHANGED raw_n
     ELSE LET c   == IF "f1" \in trig[u] THEN 0 ELSE 1
              p   == bus[u]
              lvl == IF fctrl[u][c] > 0 THEN 1 - p.ctrl[c] ELSE p.ctrl[c]
          IN  docnt(u, c, p.sig[c], lvl)
  /\ UNCHANGED <<sw, upd, shadow, shadow_n, cnt, raw, bus, capt, trig, ret, seen, due>>

\* count: a reset beats everything and channel 0 beats channel 1.
count(u) ==
  /\ u \in run
  /\ run' = run \ {u}
  /\ IF "rst" \in trig[u]
     THEN cnt_n' = [cnt_n EXCEPT ![u] = 0] /\ UNCHANGED raw_n
     ELSE LET c   == IF "f0" \in trig[u] THEN 0 ELSE 1
              p   == bus[u]
              lvl == IF fctrl[u][c] > 0 THEN 1 - p.ctrl[c] ELSE p.ctrl[c]
          IN  docnt(u, c, p.sig[c], lvl)
  /\ UNCHANGED <<sw, upd, shadow, shadow_n, cnt, raw, bus, capt, trig, ret, seen, due>>

\* The status bits are compared as unsigned numbers.
Latches(r, n) ==
  [thres0 |-> Unsigned(n) = Unsigned(r.cnt_thres0),
   thres1 |-> Unsigned(n) = Unsigned(r.cnt_thres1),
   l_lim  |-> Unsigned(n) <= Unsigned(r.cnt_l_lim),
   h_lim  |-> Unsigned(n) >= Unsigned(r.cnt_h_lim),
   zero   |-> n = 0]

\* Mutant: only the interrupt bits are copied.
returnth_NoCount ==
  /\ ret
  /\ ret' = FALSE
  /\ seen' = [u \in Units |->
       [seen[u] EXCEPT !.raw = raw[u], !.st = (raw[u] /\ shadow[u].int_ena > 0)]]
  /\ UNCHANGED <<sw, upd, sigs, bus, capt, trig, run, due>>

\* returnth copies the counters and the interrupt bits back to the registers.
returnth ==
  /\ ret
  /\ ret' = FALSE
  /\ seen' = [u \in Units |->
       [cnt |-> cnt[u], raw |-> raw[u], st |-> raw[u] /\ shadow[u].int_ena > 0,
        lat |-> Latches(shadow[u], cnt[u])]]
  /\ UNCHANGED <<sw, upd, sigs, bus, capt, trig, run, due>>

----------------------------------------------------------------------------
(* The SystemC scheduler and the inputs.                                   *)

Runnable ==
  \/ upd \/ ret \/ run # {}
  \/ \E u \in Units : cap[u] = "run"
  \/ \E t \in Tasks : prog[t] # <<>> /\ t \notin waiting
Pending ==
  \/ shadow # shadow_n \/ cnt # cnt_n \/ raw # raw_n
  \/ \E u \in Units : trig[u] # {}
Quiet == ~Runnable /\ ~Pending

\* The signals take their new values.
EndDelta ==
  /\ ~Runnable /\ Pending
  /\ shadow' = shadow_n /\ cnt' = cnt_n /\ raw' = raw_n
  /\ trig' = [u \in Units |-> {}]
  /\ ret' = (cnt # cnt_n \/ raw # raw_n)
  /\ UNCHANGED <<sw, upd, shadow_n, cnt_n, raw_n, bus, capt, run, seen, due>>

\* The next APB clock: tasks and captures wake up, filtered edges are notified.
Tick ==
  LET fires(u) == {c \in Channels : timed[u][c] = 1}
      Less(n, floor) == IF n > floor THEN n - 1 ELSE n
  IN  /\ Quiet
      /\ waiting' = {}
      /\ cap' = [u \in Units |-> IF cap[u] = "clk" THEN "run" ELSE cap[u]]
      /\ fctrl' = [u \in Units |-> [c \in Channels |-> Less(fctrl[u][c], -1)]]
      /\ timed' = [u \in Units |-> [c \in Channels |-> Less(timed[u][c], 0)]]
      /\ trig' = [u \in Units |-> {Event(c) : c \in fires(u)}]
      /\ run' = {u \in Units : fires(u) # {}}
      /\ UNCHANGED <<regs, spinlock, isr, prog, upd, sigs, bus, last, ret, seen, due>>

\* An input changes (mux_pcnt drives pcntbus); capture notices if it waits.
Input(u) ==
  /\ Quiet
  /\ \E lvl \in BusLevels \ {bus[u]} : bus' = [bus EXCEPT ![u] = lvl]
  /\ cap' = [cap EXCEPT ![u] = IF @ = "idle" THEN "clk" ELSE @]
  /\ UNCHANGED <<sw, upd, sigs, last, fctrl, timed, trig, run, ret, seen, due>>

Threads == updateth \/ returnth \/ \E u \in Units : capture(u) \/ count(u)

Next ==
  \/ \E t \in Tasks : Call(t) \/ Continue(t)
  \/ Threads
  \/ EndDelta \/ Tick
  \/ \E u \in Units : Input(u)

Spec == Init /\ [][Next]_vars

----------------------------------------------------------------------------
(* Properties.                                                             *)

\* Every variable that has one has its type; counters stay in their width.
TypeOK ==
  /\ regs \in [Units -> [Fields -> Int]] /\ shadow \in [Units -> [Fields -> Int]]
  /\ spinlock \in Nat
  /\ waiting \subseteq Tasks
  /\ cap \in [Units -> {"idle", "clk", "run"}]
  /\ cnt \in [Units -> (-(CntMod \div 2))..(CntMod \div 2 - 1)]
  /\ raw \in [Units -> BOOLEAN]
  /\ run \subseteq Units
  /\ \A u \in Units : trig[u] \subseteq {"rst", "f0", "f1"}

\* Whenever time can move, the hardware works with what the driver last wrote,
\* whichever tasks wrote it and in whatever order updateth ran between them.
\* (The two filter functions do not update: their field is left out.)
Fresh ==
  Quiet => \A u \in Units, f \in Fields \ {"filter_en"} : shadow[u][f] = regs[u][f]

\* Whenever time can move, the registers show the counters and raw interrupts.
CountVisible == Quiet => \A u \in Units : seen[u].cnt = cnt[u] /\ seen[u].raw = raw[u]

\* While a unit is held in reset its counter is zero, even if an edge was
\* captured in the very phase in which the reset arrived.
ResetHolds == Quiet => \A u \in Units : shadow[u].cnt_rst > 0 => cnt[u] = 0

\* Task t is in the first wait of a clear of u, but the reset bit is back at zero
\* already: another task did the second step of its own clear in the same clock.
TakenBack(t, u) ==
  /\ regs[u].cnt_rst = 0
  /\ \E k \in Tasks \ {t} : prog[k] = Tail(Tail(pcnt_counter_clear(u)))

\* At the clock that ends the first update of pcnt_counter_clear the counter is
\* zero, whatever other tasks pause, resume and clear meanwhile and in whatever
\* order the threads of the hardware ran, with one exception.  Two tasks that clear
\* the same unit one clock apart can lose the later clear: the first takes the bit
\* back after the second has set it and before updateth looks, because
\* portENTER_CRITICAL keeps nobody out.  The "Clear and reset PCNT counter value
\* to zero" of driver/pcnt.h holds in all other cases.
ClearClears ==
  [][\A t \in Tasks, u \in Units :
       Tick /\ prog[t] = Tail(pcnt_counter_clear(u))
         => cnt[u] = 0 \/ TakenBack(t, u)]_vars

\* No edge that capture has sampled is lost and none is counted twice: the counter is
\* what the sampled levels make it, in units whose filter has not been used.
EdgesCounted == Quiet => \A u \in DOMAIN due : cnt[u] = due[u]

\* With both limits enabled around zero the counter stays strictly between them.
WithinLimits ==
  \A u \in Units :
    LET r == shadow[u]
    IN  r.thr_l_lim_en > 0 /\ r.thr_h_lim_en > 0
          => cnt[u] > r.cnt_l_lim /\ cnt[u] < r.cnt_h_lim

\* Every edge counts once, up to the limits and not beyond them.
CountRight == EdgesCounted /\ WithinLimits

============================================================================
