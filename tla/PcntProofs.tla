----------------------------- MODULE PcntProofs ----------------------------
(***************************************************************************)
(* Proofs about the pulse counter and its driver, for any number of        *)
(* tasks and units, any calls, any inputs and counters of any width.       *)
(***************************************************************************)
EXTENDS Pcnt, TLAPS

(***************************************************************************)
(* What the registers show                                                 *)
(***************************************************************************)
\* Inductive invariant: what returnth copied last is right unless it is woken.
SeenInv == ~ret => \A u \in Units : seen[u].cnt = cnt[u] /\ seen[u].raw = raw[u]

LEMMA SeenStep == SeenInv /\ [Next]_vars => SeenInv'
<1> SUFFICES ASSUME SeenInv, [Next]_vars PROVE SeenInv'
  OBVIOUS
<1>1. CASE returnth
  BY <1>1 DEF SeenInv, returnth, sigs
<1>2. CASE EndDelta
  <2>1. ~ret /\ cnt' = cnt_n /\ raw' = raw_n /\ seen' = seen
    BY <1>2 DEF EndDelta, Runnable
  <2>2. CASE cnt = cnt_n /\ raw = raw_n
    BY <2>1, <2>2 DEF SeenInv
  <2>3. CASE ~(cnt = cnt_n /\ raw = raw_n)
    BY <1>2, <2>3, Zenon DEF SeenInv, EndDelta
  <2> QED
    BY <2>2, <2>3
<1>3. CASE UNCHANGED <<ret, seen, cnt, raw>>
  BY <1>3 DEF SeenInv
<1> QED
  BY <1>1, <1>2, <1>3
    DEF Next, Threads, vars, sigs, Call, Continue, RunSegment, updateth, capture, count, Tick, Input

\* When time can move, the registers show the counters and the raw interrupts: returnth
\* is woken by every change of them (pcntmod.cpp).
THEOREM RegistersShowCounters == Spec => []CountVisible
<1>1. Init => SeenInv
  <2> SUFFICES ASSUME Init, NEW u \in Units PROVE seen[u].cnt = cnt[u] /\ seen[u].raw = raw[u]
    BY DEF SeenInv
  <2>1. cnt[u] = 0 /\ raw[u] = FALSE /\ seen[u] = [cnt |-> 0, raw |-> FALSE, st |-> FALSE, lat |-> Status0]
    BY Zenon DEF Init
  <2>2. \A r : r = [cnt |-> 0, raw |-> FALSE, st |-> FALSE, lat |-> Status0] => r.cnt = 0 /\ r.raw = FALSE
    OBVIOUS
  <2> QED
    BY <2>1, <2>2, Zenon
<1>2. SeenInv => CountVisible
  BY DEF SeenInv, CountVisible, Quiet, Runnable
<1> QED
  BY <1>1, <1>2, SeenStep, PTL DEF Spec

(***************************************************************************)
(* Units in reset                                                          *)
(***************************************************************************)
\* Inductive invariant: a unit that is about to be in reset has a zero counter or will
\* have when its thread count runs; if the reset event has passed, the unit sees the
\* reset already and counts no edge.
ResetInv ==
  /\ DOMAIN cnt_n = Units /\ DOMAIN trig = Units
  /\ \A u \in Units : shadow_n[u].cnt_rst > 0 =>
       /\ cnt_n[u] = 0 \/ (u \in run /\ "rst" \in trig[u])
       /\ "rst" \in trig[u] \/ shadow[u].cnt_rst > 0

LEMMA ResetInit == Init => ResetInv
  BY DEF Init, ResetInv

LEMMA ResetCount == ASSUME ResetInv, NEW u \in Units, count(u) PROVE ResetInv'
<1>1. UNCHANGED <<shadow, shadow_n, trig>> /\ run' = run \ {u}
  BY DEF count
<1>2. CASE "rst" \in trig[u]
  <2>1. cnt_n' = [cnt_n EXCEPT ![u] = 0]
    BY <1>2 DEF count
  <2> QED
    BY <1>1, <2>1 DEF ResetInv
<1>3. CASE "rst" \notin trig[u] /\ shadow[u].cnt_rst = 0
  <2>1. DOMAIN cnt_n' = Units /\ \A v \in Units \ {u} : cnt_n'[v] = cnt_n[v]
    BY <1>3 DEF count, docnt, ResetInv
  <2>2. ~(shadow_n[u].cnt_rst > 0)
    BY <1>3 DEF ResetInv
  <2> QED
    BY <1>1, <2>1, <2>2 DEF ResetInv
<1>4. CASE "rst" \notin trig[u] /\ shadow[u].cnt_rst # 0
  <2>1. UNCHANGED cnt_n
    BY <1>4 DEF count, docnt, Counting
  <2> QED
    BY <1>1, <1>4, <2>1 DEF ResetInv
<1> QED
  BY <1>2, <1>3, <1>4

LEMMA ResetStep == ResetInv /\ [Next]_vars => ResetInv'
<1> SUFFICES ASSUME ResetInv, [Next]_vars PROVE ResetInv'
  OBVIOUS
<1>1. CASE updateth
  BY <1>1 DEF ResetInv, updateth
<1>2. ASSUME NEW u \in Units, capture(u) PROVE ResetInv'
  <2>1. /\ UNCHANGED <<shadow, shadow_n, cnt_n>> /\ run \subseteq run'
        /\ DOMAIN trig' = DOMAIN trig /\ \A v \in Units : trig[v] \subseteq trig'[v]
    BY <1>2 DEF capture, sigs, ResetInv
  <2> QED
    BY <2>1 DEF ResetInv
<1>3. ASSUME NEW u \in Units, count(u) PROVE ResetInv'
  BY <1>3, ResetCount
<1>4. CASE EndDelta
  BY <1>4 DEF ResetInv, EndDelta, Runnable
<1>5. CASE Tick
  <2>1. shadow = shadow_n /\ run = {} /\ UNCHANGED <<shadow, shadow_n, cnt_n>> /\ DOMAIN trig' = Units
    BY <1>5 DEF Tick, Quiet, Runnable, Pending, sigs
  <2> QED
    BY <2>1 DEF ResetInv
<1>6. CASE UNCHANGED <<cnt_n, trig, run, shadow, shadow_n>>
  BY <1>6 DEF ResetInv
<1> QED
  BY <1>1, <1>2, <1>3, <1>4, <1>5, <1>6
    DEF Next, Threads, vars, sigs, Call, Continue, RunSegment, returnth, Input

\* A unit in reset has a zero counter whenever time can move, whatever the tasks do and
\* in whatever order updateth, capture and count ran in the phase of the reset.
THEOREM ResetAlwaysHolds == Spec => []ResetHolds
<1>1. ResetInv => ResetHolds
  BY DEF ResetInv, ResetHolds, Quiet, Runnable, Pending
<1> QED
  BY <1>1, ResetInit, ResetStep, PTL DEF Spec

(***************************************************************************)
(* Edges                                                                   *)
(***************************************************************************)
LimitFields == {"thr_l_lim_en", "thr_h_lim_en", "cnt_l_lim", "cnt_h_lim"}

\* Nobody configures the filter or the limits anew.
Steady == \A u \in Units, f \in LimitFields \cup {"filter_en"} : regs[u][f] = Setup[u][f]

\* The filter is off, enabled limits are int16_t values around zero, and channel 1 has
\* no signal.
SteadySetup ==
  /\ \A u \in Units :
       /\ Setup[u].filter_en = 0
       /\ Setup[u].thr_l_lim_en > 0 /\ Setup[u].thr_h_lim_en > 0 =>
            /\ Setup[u].cnt_l_lim < 0 /\ Signed(Setup[u].cnt_l_lim) = Setup[u].cnt_l_lim
            /\ Setup[u].cnt_h_lim > 0 /\ Signed(Setup[u].cnt_h_lim) = Setup[u].cnt_h_lim
  /\ \A lvl \in BusLevels : lvl.sig[1] = 0

\* The signals have the limits and the filter of the setup, the filter does nothing,
\* and channel 1 sees no edge.
SteadyInv ==
  /\ \A u \in Units, f \in LimitFields \cup {"filter_en"} :
       shadow[u][f] = Setup[u][f] /\ shadow_n[u][f] = Setup[u][f]
  /\ fctrl \in [Units -> [Channels -> {-1, 0}]]
  /\ timed = [u \in Units |-> [c \in Channels |-> 0]]
  /\ DOMAIN bus = Units /\ DOMAIN last = Units
  /\ \A u \in Units : bus[u].sig[1] = 0 /\ last[u].sig[1] = 0

\* What the counter of a unit will be when count has run
Coming(u) ==
  IF Counting(shadow[u]) THEN NewCount(shadow[u], cnt[u], 0, bus[u].sig[0], bus[u].ctrl[0])
  ELSE cnt_n[u]

\* The inductive invariant of EdgesCounted, for one unit: a reset beats an edge; when
\* count is not to run the counter is right, and when it is, it will make it right; an
\* edge meets a counter that has no other change in this phase.
EdgeInv(u) ==
  /\ "rst" \in trig[u] => due[u] = 0
  /\ u \notin run => cnt_n[u] = due[u]
  /\ u \in run /\ "rst" \notin trig[u] => "f0" \in trig[u] /\ due[u] = Coming(u)
  /\ cap[u] = "run" /\ "rst" \notin trig[u] => u \notin run /\ cnt_n[u] = cnt[u]

\* The counter is between the limits that are enabled, and so is the next one.
LimitInv(u) ==
  Setup[u].thr_l_lim_en > 0 /\ Setup[u].thr_h_lim_en > 0 =>
    \A n \in {cnt[u], cnt_n[u]} : Setup[u].cnt_l_lim < n /\ n < Setup[u].cnt_h_lim

CountInv ==
  /\ cnt \in [Units -> Int] /\ cnt_n \in [Units -> Int] /\ due \in [Units -> Int]
  /\ DOMAIN trig = Units /\ DOMAIN cap = Units
  /\ SteadyInv
  /\ \A u \in Units : EdgeInv(u) /\ LimitInv(u)
LEMMA SignedType == ASSUME NEW n \in Int PROVE Signed(n) \in Int
<1>1. n % CntMod \in Int
  BY CntAssumption
<1> QED
  BY <1>1, CntAssumption DEF Signed

LEMMA SteppedType ==
  ASSUME NEW r, NEW n \in Int, NEW c, NEW sig, NEW ctrl PROVE Stepped(r, n, c, sig, ctrl) \in Int
  BY SignedType DEF Stepped

\* A count is a number, and between the limits that are enabled.
LEMMA NewCountInLimits ==
  ASSUME SteadySetup, SteadyInv, NEW u \in Units, NEW n \in Int, NEW c, NEW sig, NEW ctrl
  PROVE  LET nc == NewCount(shadow[u], n, c, sig, ctrl)
         IN  /\ nc \in Int
             /\ Setup[u].thr_l_lim_en > 0 /\ Setup[u].thr_h_lim_en > 0 =>
                  Setup[u].cnt_l_lim < nc /\ nc < Setup[u].cnt_h_lim
<1> DEFINE st == Stepped(shadow[u], n, c, sig, ctrl)
<1>1. st \in Int
  BY SteppedType
<1>2. \A f \in LimitFields : shadow[u][f] = Setup[u][f] /\ Setup[u][f] \in Int
  BY SetupAssumption DEF SteadyInv, LimitFields, Fields
<1>3. /\ shadow[u].thr_l_lim_en = Setup[u].thr_l_lim_en /\ shadow[u].thr_h_lim_en = Setup[u].thr_h_lim_en
      /\ shadow[u].cnt_l_lim = Setup[u].cnt_l_lim /\ shadow[u].cnt_h_lim = Setup[u].cnt_h_lim
      /\ Setup[u].cnt_l_lim \in Int /\ Setup[u].cnt_h_lim \in Int
  BY <1>2 DEF LimitFields
<1> HIDE DEF st
<1>4. CASE AtLimit(shadow[u], st)
  BY <1>3, <1>4 DEF NewCount, SteadySetup, st
<1>5. CASE ~AtLimit(shadow[u], st)
  <2>1. NewCount(shadow[u], n, c, sig, ctrl) = st
    BY <1>5 DEF NewCount, st
  <2>2. ASSUME Setup[u].thr_l_lim_en > 0, Setup[u].thr_h_lim_en > 0
        PROVE  Setup[u].cnt_l_lim < st /\ st < Setup[u].cnt_h_lim
    BY <1>1, <1>3, <1>5, <2>2 DEF AtLimit, SteadySetup
  <2> QED
    BY <1>1, <2>1, <2>2
<1> QED
  BY <1>4, <1>5

LEMMA CountInit == ASSUME SteadySetup PROVE Init => CountInv
<1> SUFFICES ASSUME Init PROVE CountInv
  OBVIOUS
<1>1. SteadyInv
  BY DEF Init, SteadyInv, Low, Channels
<1>2. ASSUME NEW u \in Units PROVE EdgeInv(u)
  BY DEF Init, EdgeInv
<1>3. ASSUME NEW u \in Units PROVE LimitInv(u)
  BY SetupAssumption DEF Init, LimitInv, SteadySetup
<1> QED
  BY <1>1, <1>2, <1>3 DEF Init, CountInv

\* updateth: a reset sets what is due to zero and wakes count.
LEMMA CountUpdate == ASSUME SteadySetup, Steady, CountInv, updateth PROVE CountInv'
<1>1. /\ shadow_n' = regs /\ UNCHANGED <<shadow, cnt, cnt_n, bus, last, cap, fctrl, timed>>
      /\ DOMAIN trig' = Units /\ DOMAIN due = Units /\ DOMAIN due' = Units
  BY DEF updateth, capt, CountInv
<1>2. ASSUME NEW u \in Units
      PROVE  \/ regs[u].cnt_rst > 0 /\ trig'[u] = trig[u] \cup {"rst"} /\ u \in run' /\ due'[u] = 0
             \/ trig'[u] = trig[u] /\ due'[u] = due[u] /\ (u \in run' <=> u \in run)
  BY <1>1 DEF updateth
<1>3. SteadyInv'
  BY <1>1 DEF CountInv, SteadyInv, Steady
<1>4. ASSUME NEW u \in Units PROVE EdgeInv(u)'
  <2>1. Coming(u)' = Coming(u)
    BY <1>1 DEF Coming
  <2> QED
    BY <1>1, <1>2, <2>1 DEF CountInv, EdgeInv
<1>5. ASSUME NEW u \in Units PROVE LimitInv(u)'
  BY <1>1 DEF CountInv, LimitInv
<1>6. due' \in [Units -> Int]
  BY DEF CountInv, updateth
<1> QED
  BY <1>1, <1>3, <1>4, <1>5, <1>6 DEF CountInv

\* count: what was coming comes.
LEMMA CountCount == ASSUME SteadySetup, CountInv, NEW u \in Units, count(u) PROVE CountInv'
<1>1. /\ UNCHANGED <<shadow, shadow_n, cnt, bus, last, cap, fctrl, timed, trig, due>>
      /\ run' = run \ {u} /\ u \in run
  BY DEF count, capt
<1>2. /\ cnt_n' \in [Units -> Int] /\ \A v \in Units \ {u} : cnt_n'[v] = cnt_n[v]
      /\ cnt_n'[u] = IF "rst" \in trig[u] THEN 0 ELSE Coming(u)
  <2>0. cnt_n \in [Units -> Int] /\ cnt \in [Units -> Int]
    BY DEF CountInv
  <2>1. CASE "rst" \in trig[u]
    BY <2>0, <2>1 DEF count
  <2>2. CASE "rst" \notin trig[u]
    <3>1. "f0" \in trig[u]
      BY <1>1, <2>2 DEF CountInv, EdgeInv
    <3>2. fctrl[u][0] \in {-1, 0}
      BY DEF CountInv, SteadyInv, Channels
    <3>3. docnt(u, 0, bus[u].sig[0], bus[u].ctrl[0])
      BY <2>2, <3>1, <3>2 DEF count
    <3>4. NewCount(shadow[u], cnt[u], 0, bus[u].sig[0], bus[u].ctrl[0]) \in Int
      BY <2>0, NewCountInLimits DEF CountInv
    <3> QED
      BY <2>0, <2>2, <3>3, <3>4 DEF docnt, Coming
  <2> QED
    BY <2>1, <2>2
<1>3. SteadyInv'
  BY <1>1 DEF CountInv, SteadyInv
<1>4. ASSUME NEW v \in Units PROVE EdgeInv(v)'
  <2>1. CASE v # u
    <3>1. Coming(v)' = Coming(v)
      BY <1>1, <1>2, <2>1 DEF Coming
    <3> QED
      BY <1>1, <1>2, <2>1, <3>1 DEF CountInv, EdgeInv
  <2>2. CASE v = u
    BY <1>1, <1>2, <2>2 DEF CountInv, EdgeInv
  <2> QED
    BY <2>1, <2>2
<1>5. ASSUME NEW v \in Units PROVE LimitInv(v)'
  <2>1. CASE v # u
    BY <1>1, <1>2, <2>1 DEF CountInv, LimitInv
  <2>2. CASE v = u
    <3>1. cnt[u] \in Int /\ cnt_n[u] \in Int
      BY DEF CountInv
    <3>2. Coming(u) = NewCount(shadow[u], cnt[u], 0, bus[u].sig[0], bus[u].ctrl[0]) \/ Coming(u) = cnt_n[u]
      BY DEF Coming
    <3>3. Setup[u].thr_l_lim_en > 0 /\ Setup[u].thr_h_lim_en > 0 =>
             Setup[u].cnt_l_lim < Coming(u) /\ Coming(u) < Setup[u].cnt_h_lim
      BY <3>1, <3>2, NewCountInLimits DEF CountInv, LimitInv
    <3>4. Setup[u].thr_l_lim_en > 0 /\ Setup[u].thr_h_lim_en > 0 =>
             Setup[u].cnt_l_lim < cnt_n'[u] /\ cnt_n'[u] < Setup[u].cnt_h_lim
      BY <1>2, <3>3, SetupAssumption DEF SteadySetup
    <3> QED
      BY <1>1, <2>2, <3>4 DEF CountInv, LimitInv
  <2> QED
    BY <2>1, <2>2
<1> QED
  BY <1>1, <1>2, <1>3, <1>4, <1>5 DEF CountInv

\* capture: an edge on channel 0 makes a count due and wakes count, which will do it.
LEMMA CountCapture == ASSUME SteadySetup, CountInv, NEW u \in Units, capture(u) PROVE CountInv'
<1> DEFINE r == shadow[u]
           lvl == bus[u]
           old == last[u]
           edges == IF r.cnt_rst > 0 THEN {} ELSE {c \in Channels : lvl.sig[c] # old.sig[c]}
           Both(n) == LET a == IF 0 \in edges THEN NewCount(r, n, 0, lvl.sig[0], lvl.ctrl[0]) ELSE n
                      IN  IF 1 \in edges THEN NewCount(r, a, 1, lvl.sig[1], lvl.ctrl[1]) ELSE a
<1>1. r.filter_en = 0
  BY DEF CountInv, SteadyInv, SteadySetup
<1>2. edges \subseteq {0} /\ (0 \in edges <=> ~(r.cnt_rst > 0) /\ lvl.sig[0] # old.sig[0])
  BY DEF CountInv, SteadyInv, Channels
<1>3. /\ UNCHANGED <<shadow, shadow_n, cnt, cnt_n, bus>> /\ cap[u] = "run"
      /\ cap' = [cap EXCEPT ![u] = "idle"] /\ last' = [last EXCEPT ![u] = lvl]
  BY DEF capture, sigs
<1>4. /\ timed' = [timed EXCEPT ![u] = [c \in Channels |-> IF c \in edges THEN 0 ELSE timed[u][c]]]
      /\ trig' = [trig EXCEPT ![u] = trig[u] \union {Event(c) : c \in edges}]
      /\ run' = IF edges # {} THEN run \union {u} ELSE run
      /\ due' = [due EXCEPT ![u] = IF "rst" \in trig[u] \/ ~Counting(r) THEN due[u] ELSE Both(due[u])]
  BY <1>1 DEF capture
<1>5. fctrl' \in [Units -> [Channels -> {-1, 0}]]
  <2>1. PICK a \in {-1, 0}, b \in {-1, 0} : fctrl' = [fctrl EXCEPT ![u][0] = a, ![u][1] = b]
    BY <1>1 DEF capture, CountInv, SteadyInv, Channels
  <2> QED
    BY <2>1 DEF CountInv, SteadyInv, Channels
<1>6. timed' = timed
  BY <1>4 DEF CountInv, SteadyInv
<1>7. Event(0) = "f0" /\ {Event(c) : c \in edges} = IF 0 \in edges THEN {"f0"} ELSE {}
  BY <1>2 DEF Event
<1>8. Both(due[u]) = IF 0 \in edges THEN NewCount(r, due[u], 0, lvl.sig[0], lvl.ctrl[0]) ELSE due[u]
  BY <1>2
<1>9. due' \in [Units -> Int]
  <2>1. due[u] \in Int /\ due \in [Units -> Int]
    BY DEF CountInv
  <2>2. NewCount(r, due[u], 0, lvl.sig[0], lvl.ctrl[0]) \in Int
    BY <2>1, NewCountInLimits DEF CountInv
  <2> QED
    BY <1>4, <1>8, <2>1, <2>2
<1> HIDE DEF edges, Both
<1>10. SteadyInv'
  BY <1>3, <1>5, <1>6 DEF CountInv, SteadyInv
<1>11. ASSUME NEW v \in Units PROVE LimitInv(v)'
  BY <1>3 DEF CountInv, LimitInv
<1>12. ASSUME NEW v \in Units PROVE EdgeInv(v)'
  <2>0. Coming(v)' = Coming(v)
    BY <1>3 DEF Coming
  <2>1. CASE v # u
    <3>1. trig'[v] = trig[v] /\ due'[v] = due[v] /\ cap'[v] = cap[v] /\ (v \in run' <=> v \in run)
      BY <1>3, <1>4, <2>1 DEF CountInv
    <3> QED
      BY <1>3, <2>0, <3>1 DEF CountInv, EdgeInv
  <2>2. CASE v = u
    <3>1. trig'[u] = trig[u] \cup (IF 0 \in edges THEN {"f0"} ELSE {}) /\ cap'[u] = "idle"
      BY <1>3, <1>4, <1>7 DEF CountInv
    <3>2. due'[u] = IF "rst" \in trig[u] \/ ~Counting(r) THEN due[u] ELSE Both(due[u])
      BY <1>4 DEF CountInv
    <3>3. CASE "rst" \in trig[u]
      <4>1. due'[u] = due[u] /\ due[u] = 0
        BY <3>2, <3>3 DEF CountInv, EdgeInv
      <4>2. u \notin run' => cnt_n[u] = due[u]
        BY <1>4 DEF CountInv, EdgeInv
      <4> QED
        BY <1>3, <2>2, <3>1, <3>3, <4>1, <4>2 DEF EdgeInv
    <3>4. CASE "rst" \notin trig[u] /\ 0 \notin edges
      <4>1. edges = {}
        BY <1>2, <3>4
      <4>2. due'[u] = due[u] /\ run' = run /\ trig'[u] = trig[u]
        BY <1>4, <1>8, <3>1, <3>2, <3>4, <4>1
      <4> QED
        BY <1>3, <2>0, <2>2, <3>1, <4>2 DEF CountInv, EdgeInv
    <3>5. CASE "rst" \notin trig[u] /\ 0 \in edges
      <4>1. u \in run' /\ "rst" \notin trig'[u] /\ "f0" \in trig'[u]
        BY <1>4, <3>1, <3>5
      <4>2. cnt_n[u] = cnt[u] /\ due[u] = cnt[u]
        BY <1>3, <3>5 DEF CountInv, EdgeInv
      <4>3. due'[u] = Coming(u)
        BY <1>8, <3>2, <3>5, <4>2 DEF Coming
      <4> QED
        BY <2>0, <2>2, <3>1, <4>1, <4>3 DEF EdgeInv
    <3> QED
      BY <3>3, <3>4, <3>5
  <2> QED
    BY <2>1, <2>2
<1> QED
  BY <1>3, <1>4, <1>9, <1>10, <1>11, <1>12 DEF CountInv

\* The scheduler and the inputs
LEMMA CountSchedule ==
  ASSUME SteadySetup, CountInv, EndDelta \/ Tick \/ \E u \in Units : Input(u)
  PROVE  CountInv'
<1>1. CASE EndDelta
  <2>1. /\ run = {} /\ \A u \in Units : cap[u] # "run"
        /\ shadow' = shadow_n /\ cnt' = cnt_n /\ trig' = [u \in Units |-> {}]
        /\ UNCHANGED <<shadow_n, cnt_n, bus, last, cap, fctrl, timed, run, due>>
    BY <1>1 DEF EndDelta, Runnable, capt
  <2>2. SteadyInv'
    BY <2>1 DEF CountInv, SteadyInv
  <2>3. ASSUME NEW u \in Units PROVE EdgeInv(u)' /\ LimitInv(u)'
    BY <2>1 DEF CountInv, EdgeInv, LimitInv
  <2> QED
    BY <2>1, <2>2, <2>3 DEF CountInv
<1>2. CASE Tick
  <2>1. /\ run = {} /\ cnt = cnt_n /\ \A u \in Units : trig[u] = {}
        /\ UNCHANGED <<shadow, shadow_n, cnt, cnt_n, bus, last, due>> /\ DOMAIN cap' = Units
    BY <1>2 DEF Tick, Quiet, Runnable, Pending, sigs
  <2>2. \A u \in Units, c \in Channels : timed[u][c] = 0 /\ fctrl[u][c] \in {-1, 0}
    BY DEF CountInv, SteadyInv
  <2>3. run' = {} /\ trig' = [u \in Units |-> {}]
    BY <1>2, <2>2 DEF Tick
  <2>4. fctrl' \in [Units -> [Channels -> {-1, 0}]] /\ timed' = [u \in Units |-> [c \in Channels |-> 0]]
    BY <1>2, <2>2 DEF Tick
  <2>5. SteadyInv'
    BY <2>1, <2>4 DEF CountInv, SteadyInv
  <2>6. ASSUME NEW u \in Units PROVE EdgeInv(u)' /\ LimitInv(u)'
    BY <2>1, <2>3 DEF CountInv, EdgeInv, LimitInv
  <2> QED
    BY <2>1, <2>3, <2>5, <2>6 DEF CountInv
<1>3. ASSUME NEW u \in Units, Input(u) PROVE CountInv'
  <2>1. /\ run = {} /\ \A v \in Units : cap[v] # "run"
        /\ UNCHANGED <<shadow, shadow_n, cnt, cnt_n, last, fctrl, timed, trig, run, due>>
    BY <1>3 DEF Input, Quiet, Runnable, sigs
  <2>2. PICK lvl \in BusLevels : bus' = [bus EXCEPT ![u] = lvl]
    BY <1>3 DEF Input
  <2>3. DOMAIN cap' = Units /\ \A v \in Units : cap'[v] # "run"
    BY <1>3, <2>1 DEF Input, CountInv
  <2>4. SteadyInv'
    BY <2>1, <2>2 DEF CountInv, SteadyInv, SteadySetup
  <2>5. ASSUME NEW v \in Units PROVE EdgeInv(v)' /\ LimitInv(v)'
    BY <2>1, <2>3 DEF CountInv, EdgeInv, LimitInv
  <2> QED
    BY <2>1, <2>3, <2>4, <2>5 DEF CountInv
<1> QED
  BY <1>1, <1>2, <1>3

LEMMA CountStep == ASSUME SteadySetup PROVE Steady /\ CountInv /\ [Next]_vars => CountInv'
<1> SUFFICES ASSUME Steady, CountInv, [Next]_vars PROVE CountInv'
  OBVIOUS
<1>1. CASE UNCHANGED <<shadow, shadow_n, cnt, cnt_n, bus, last, cap, fctrl, timed, trig, run, due>>
  BY <1>1 DEF CountInv, SteadyInv, EdgeInv, LimitInv, Coming
<1>2. ASSUME NEW t \in Tasks, Call(t) \/ Continue(t) PROVE CountInv'
  BY <1>1, <1>2 DEF Call, Continue, RunSegment, sigs, capt
<1>3. CASE Threads
  <2>1. CASE returnth
    BY <1>1, <2>1 DEF returnth, sigs, capt
  <2> QED
    BY <1>3, <2>1, CountUpdate, CountCapture, CountCount DEF Threads
<1> QED
  BY <1>1, <1>2, <1>3, CountSchedule DEF Next, vars, sigs, capt

\* As long as nobody rewrites the limits or the filter, and the filter is off, every edge
\* of channel 0 that capture samples is counted once, unless the unit is paused or reset,
\* and the counter stays between its limits (capture, count, docnt of pcntmod.cpp): for
\* any tasks that pause, resume, clear and change modes meanwhile.
THEOREM EveryEdgeCounts == ASSUME SteadySetup PROVE Spec /\ []Steady => []CountRight
<1>1. CountInv => CountRight
  <2> SUFFICES ASSUME CountInv PROVE CountRight
    OBVIOUS
  <2>1. EdgesCounted
    BY DEF EdgesCounted, CountInv, EdgeInv, Quiet, Runnable, Pending
  <2>2. ASSUME NEW u \in Units, shadow[u].thr_l_lim_en > 0, shadow[u].thr_h_lim_en > 0
        PROVE  cnt[u] > shadow[u].cnt_l_lim /\ cnt[u] < shadow[u].cnt_h_lim
    <3>1. \A f \in LimitFields : shadow[u][f] = Setup[u][f] /\ Setup[u][f] \in Int
      BY SetupAssumption DEF CountInv, SteadyInv, LimitFields, Fields
    <3>2. cnt[u] \in Int
      BY DEF CountInv
    <3> QED
      BY <2>2, <3>1, <3>2 DEF CountInv, LimitInv, LimitFields
  <2> QED
    BY <2>1, <2>2 DEF CountRight, WithinLimits
<1> QED
  BY <1>1, CountInit, CountStep, PTL DEF Spec

(***************************************************************************)
(* What the tasks do to the registers                                      *)
(***************************************************************************)
Events == {"L_LIM", "H_LIM", "THRES_0", "THRES_1", "ZERO"}
ModeArgs == [pos : Int, neg : Int, hctrl : Int, lctrl : Int]

\* A call of a function of the driver.
DriverCall(p) ==
  \/ p \in {pcnt_isr_service_install, pcnt_isr_service_uninstall}
  \/ \E u \in Units :
       \/ p \in {pcnt_counter_pause(u), pcnt_counter_resume(u), pcnt_counter_clear(u),
                 pcnt_intr_enable(u), pcnt_intr_disable(u),
                 pcnt_filter_enable(u), pcnt_filter_disable(u),
                 pcnt_isr_handler_add(u), pcnt_isr_handler_remove(u)}
       \/ \E evt \in Events : \/ p \in {pcnt_event_enable(u, evt), pcnt_event_disable(u, evt)}
                              \/ p = pcnt_get_event_value(u, evt)
                              \/ \E v \in Int : p = pcnt_set_event_value(u, evt, v)
       \/ \E v \in Int : p = pcnt_set_filter_value(u, v)
       \/ \E ch \in Channels, m \in ModeArgs :
            \/ p = pcnt_set_mode(u, ch, m)
            \/ \E h, l \in Int : p = pcnt_unit_config(u, ch, m, h, l)

DriverCalls == \A t \in Tasks : \A p \in Ops[t] : DriverCall(p)

Names == Fields \cup {"enter", "exit", "if_on", "if_off", "install", "uninstall", "fn"}
Edits == [f : Names, u : Units \cup {0}, v : Int]

\* The fields that an update brings to the hardware in every function that writes them.
Updated == Fields \ {"filter_en"}
Plain   == {e \in Edits : e.f \notin Updated}

\* A program of segments with edits in E whose last segment writes no field of Updated.
Closed(E, p) == p \in Seq(Seq(E)) /\ Len(p) > 0 /\ Last(p) \in Seq(E \cap Plain)

LEMMA Concat ==
  ASSUME NEW S, NEW a \in Seq(S), NEW b \in Seq(S)
  PROVE  /\ a \o b \in Seq(S) /\ Len(a \o b) = Len(a) + Len(b)
         /\ \A i \in 1..Len(a \o b) : (a \o b)[i] = IF i <= Len(a) THEN a[i] ELSE b[i - Len(a)]
  OBVIOUS

LEMMA Joins ==
  ASSUME NEW E, NEW p, NEW q, Closed(E, p), Closed(E, q)
  PROVE  Closed(E, p ++ q)
<1> DEFINE f == Front(p)  s == Last(p) \o Head(q)  r == f \o <<s>>
<1>1. f \in Seq(Seq(E)) /\ Last(p) \in Seq(E) /\ Head(q) \in Seq(E) /\ Tail(q) \in Seq(Seq(E))
  BY DEF Closed, Front, Last
<1>2. s \in Seq(E)
  BY <1>1
<1>3. r \in Seq(Seq(E)) /\ Len(r) = Len(f) + 1 /\ r[Len(r)] = s
  <2> HIDE DEF f, s
  <2> QED
    BY <1>1, <1>2
<1> DEFINE t == Tail(q)  z == r \o t
<1>4. p ++ q = z
  BY DEF ++
<1> HIDE DEF r
<1>5. Len(t) = Len(q) - 1 /\ t \in Seq(Seq(E)) /\ Len(q) > 0
  BY DEF Closed
<1>6. Len(q) > 1 => t[Len(t)] \in Seq(E \cap Plain)
  BY DEF Closed, Last
<1>7. Len(q) = 1 => s \in Seq(E \cap Plain)
  <2> SUFFICES ASSUME Len(q) = 1 PROVE s \in Seq(E \cap Plain)
    OBVIOUS
  <2>1. Head(q) \in Seq(E \cap Plain) /\ Last(p) \in Seq(E \cap Plain)
    BY DEF Closed, Last
  <2> QED
    BY <2>1
<1> HIDE DEF t, s
<1>8. z \in Seq(Seq(E)) /\ Len(z) = Len(r) + Len(t) /\ Len(z) > 0
  <2>1. z \in Seq(Seq(E)) /\ Len(z) = Len(r) + Len(t)
    BY <1>3, <1>5, Concat, Zenon
  <2> QED
    BY <1>3, <1>5, <2>1
<1>10. z[Len(z)] = IF Len(t) = 0 THEN r[Len(r)] ELSE t[Len(t)]
  <2>1. \A i \in 1..Len(z) : z[i] = IF i <= Len(r) THEN r[i] ELSE t[i - Len(r)]
    BY <1>3, <1>5, Concat, Zenon
  <2>2. Len(t) \in Nat /\ Len(r) \in Nat
    BY <1>3, <1>5
  <2> HIDE DEF z
  <2> QED
    BY <1>8, <2>1, <2>2
<1>9. z[Len(z)] \in Seq(E \cap Plain)
  BY <1>3, <1>5, <1>6, <1>7, <1>8, <1>10
<1> HIDE DEF z
<1> QED
  BY <1>4, <1>8, <1>9, Zenon DEF Closed, Last

LEMMA Pieces ==
  ASSUME NEW E
  PROVE  /\ \A s \in Seq(E \cap Plain) : Closed(E, <<s>>)
         /\ \A s \in Seq(E), t \in Seq(E \cap Plain) : Closed(E, <<s, t>>)
         /\ \A r, s \in Seq(E), t \in Seq(E \cap Plain) : Closed(E, <<r, s, t>>)
<1>1. \A s \in Seq(E \cap Plain) : s \in Seq(E)
  OBVIOUS
<1>2. ASSUME NEW s \in Seq(E \cap Plain) PROVE Closed(E, <<s>>)
  BY <1>1 DEF Closed, Last
<1>3. ASSUME NEW s \in Seq(E), NEW t \in Seq(E \cap Plain) PROVE Closed(E, <<s, t>>)
  <2>1. t \in Seq(E)
    BY <1>1, <1>3
  <2> QED
    BY <1>3, <2>1 DEF Closed, Last
<1>4. ASSUME NEW r \in Seq(E), NEW s \in Seq(E), NEW t \in Seq(E \cap Plain) PROVE Closed(E, <<r, s, t>>)
  <2>1. t \in Seq(E)
    BY <1>1, <1>4
  <2> QED
    BY <1>4, <2>1 DEF Closed, Last
<1> QED
  BY <1>2, <1>3, <1>4

\* The edits that leave the reset bit of a unit alone.
NoReset(u) == {e \in Edits : e.f = "cnt_rst" => e.u # u}

LEMMA EditsIn ==
  ASSUME NEW w
  PROVE  /\ \A u \in Units, v \in Int, f \in Names :
              Set(u, f, v) \in Edits /\ (f # "cnt_rst" \/ u # w => Set(u, f, v) \in NoReset(w))
         /\ \A f \in {"enter", "exit", "if_on", "if_off", "install", "uninstall"} :
              Other(f) \in NoReset(w) \cap Plain
         /\ \A u \in Units, v \in Int, f \in {"fn", "filter_en"} : Set(u, f, v) \in NoReset(w) \cap Plain
<1>1. ASSUME NEW u \in Units, NEW v \in Int, NEW f \in Names
      PROVE  Set(u, f, v) \in Edits /\ (f # "cnt_rst" \/ u # w => Set(u, f, v) \in NoReset(w))
  BY <1>1 DEF Set, Edits, NoReset
<1>2. ASSUME NEW f \in {"enter", "exit", "if_on", "if_off", "install", "uninstall"}
      PROVE  Other(f) \in NoReset(w) \cap Plain
  <2>1. f \notin Fields /\ f # "cnt_rst" /\ f \in Names
    BY <1>2 DEF Fields, Names
  <2> QED
    BY <2>1 DEF Other, Edits, NoReset, Plain, Updated
<1>3. ASSUME NEW u \in Units, NEW v \in Int, NEW f \in {"fn", "filter_en"} PROVE Set(u, f, v) \in NoReset(w) \cap Plain
  <2>1. f \notin Updated /\ f # "cnt_rst" /\ f \in Names
    BY <1>3 DEF Fields, Updated, Names
  <2> QED
    BY <2>1 DEF Set, Edits, NoReset, Plain
<1> QED
  BY <1>1, <1>2, <1>3

\* A critical section.
LEMMA LockIn ==
  ASSUME NEW w
  PROVE  /\ ENTER \in NoReset(w) \cap Plain /\ EXIT \in NoReset(w) \cap Plain
         /\ NeedsService \in NoReset(w) \cap Plain /\ NoService \in NoReset(w) \cap Plain
         /\ Other("install") \in NoReset(w) \cap Plain /\ Other("uninstall") \in NoReset(w) \cap Plain
  BY EditsIn DEF ENTER, EXIT, NeedsService, NoService

LEMMA ClosedPause ==
  ASSUME NEW w, NEW u \in Units, NEW v \in Int, NEW f \in Names, f # "cnt_rst" \/ u # w
  PROVE  Closed(NoReset(w), <<<<ENTER, Set(u, f, v)>>, <<EXIT>>>>)
<1>1. ENTER \in NoReset(w) /\ EXIT \in NoReset(w) \cap Plain /\ Set(u, f, v) \in NoReset(w)
  BY LockIn, EditsIn
<1>2. <<ENTER, Set(u, f, v)>> \in Seq(NoReset(w)) /\ <<EXIT>> \in Seq(NoReset(w) \cap Plain)
  BY <1>1
<1> QED
  BY <1>2, Pieces, Zenon

LEMMA ClosedUpdate ==
  ASSUME NEW E, NEW s \in Seq(E)
  PROVE  Closed(E, Update(s))
<1>1. <<>> \in Seq(E \cap Plain)
  OBVIOUS
<1> QED
  BY <1>1, Pieces, Zenon DEF Update

\* The calls that change one field and wait for the clock.
LEMMA ClosedSimple ==
  ASSUME NEW w, NEW u \in Units
  PROVE  /\ Closed(NoReset(w), pcnt_counter_pause(u)) /\ Closed(NoReset(w), pcnt_counter_resume(u))
         /\ Closed(NoReset(w), pcnt_intr_enable(u)) /\ Closed(NoReset(w), pcnt_intr_disable(u))
         /\ Closed(NoReset(w), pcnt_filter_enable(u)) /\ Closed(NoReset(w), pcnt_filter_disable(u))
<1>0. "cnt_pause" \in Names /\ "cnt_pause" # "cnt_rst" /\ "int_ena" \in Names /\ "int_ena" # "cnt_rst" /\ 0 \in Int /\ 1 \in Int
  BY DEF Names, Fields
<1>1. Closed(NoReset(w), pcnt_counter_pause(u)) /\ Closed(NoReset(w), pcnt_counter_resume(u))
  BY <1>0, ClosedPause, Zenon DEF pcnt_counter_pause, pcnt_counter_resume
<1>2. Closed(NoReset(w), pcnt_intr_enable(u)) /\ Closed(NoReset(w), pcnt_intr_disable(u))
  BY <1>0, ClosedPause, Zenon DEF pcnt_intr_enable, pcnt_intr_disable
<1>3. Set(u, "filter_en", 1) \in NoReset(w) \cap Plain /\ Set(u, "filter_en", 0) \in NoReset(w) \cap Plain
  <2>1. "filter_en" \in {"fn", "filter_en"}
    OBVIOUS
  <2> QED
    BY <1>0, <2>1, EditsIn, Zenon
<1>4. <<Set(u, "filter_en", 1)>> \in Seq(NoReset(w) \cap Plain) /\ <<Set(u, "filter_en", 0)>> \in Seq(NoReset(w) \cap Plain)
  BY <1>3
<1>5. Closed(NoReset(w), pcnt_filter_enable(u)) /\ Closed(NoReset(w), pcnt_filter_disable(u))
  BY <1>4, Pieces, Zenon DEF pcnt_filter_enable, pcnt_filter_disable
<1> QED
  BY <1>1, <1>2, <1>5

LEMMA ClosedClear ==
  ASSUME NEW w \in Units, NEW u \in Units
  PROVE  /\ u # w => Closed(NoReset(w), pcnt_counter_clear(u))
         /\ Closed(Edits, pcnt_counter_clear(u))
<1>1. ENTER \in NoReset(w) /\ ENTER \in Edits /\ EXIT \in NoReset(w) \cap Plain /\ EXIT \in Edits \cap Plain
  BY LockIn DEF NoReset
<1>2. \A v \in Int : Set(u, "cnt_rst", v) \in Edits /\ (u # w => Set(u, "cnt_rst", v) \in NoReset(w))
  <2>1. "cnt_rst" \in Names
    BY DEF Names, Fields
  <2> QED
    BY <2>1, EditsIn, Zenon
<1>3. ASSUME NEW E, ENTER \in E, EXIT \in E \cap Plain, \A v \in Int : Set(u, "cnt_rst", v) \in E
      PROVE  Closed(E, pcnt_counter_clear(u))
  <2>1. /\ <<ENTER, Set(u, "cnt_rst", 1)>> \in Seq(E) /\ <<Set(u, "cnt_rst", 0)>> \in Seq(E)
        /\ <<EXIT>> \in Seq(E \cap Plain)
    BY <1>3
  <2> QED
    BY <2>1, Pieces, Zenon DEF pcnt_counter_clear
<1> QED
  BY <1>1, <1>2, <1>3

LEMMA ClosedEvents ==
  ASSUME NEW w, NEW u \in Units, NEW evt \in Events
  PROVE  /\ Closed(NoReset(w), pcnt_event_enable(u, evt)) /\ Closed(NoReset(w), pcnt_event_disable(u, evt))
         /\ Closed(NoReset(w), pcnt_get_event_value(u, evt))
         /\ \A v \in Int : Closed(NoReset(w), pcnt_set_event_value(u, evt, v))
<1>1. EnField(evt) \in Names /\ EnField(evt) # "cnt_rst"
  BY DEF Events, EnField, Names, Fields
<1>2. Set(u, EnField(evt), 1) \in NoReset(w) /\ Set(u, EnField(evt), 0) \in NoReset(w)
  BY <1>1, EditsIn
<1>3. <<Set(u, EnField(evt), 1)>> \in Seq(NoReset(w)) /\ <<Set(u, EnField(evt), 0)>> \in Seq(NoReset(w))
  BY <1>2
<1>4. Closed(NoReset(w), pcnt_event_enable(u, evt)) /\ Closed(NoReset(w), pcnt_event_disable(u, evt))
  BY <1>3, ClosedUpdate, Zenon DEF pcnt_event_enable, pcnt_event_disable
<1>5. <<>> \in Seq(NoReset(w)) /\ <<>> \in Seq(NoReset(w) \cap Plain)
  OBVIOUS
<1>6. Closed(NoReset(w), pcnt_get_event_value(u, evt))
  BY <1>5, ClosedUpdate, Zenon DEF pcnt_get_event_value
<1>7. ASSUME NEW v \in Int PROVE Closed(NoReset(w), pcnt_set_event_value(u, evt, v))
  <2>1. Closed(NoReset(w), Refused)
    BY <1>5, Pieces, Zenon DEF Refused
  <2>2. {"cnt_l_lim", "cnt_h_lim", "cnt_thres0", "cnt_thres1"} \subseteq Names \ {"cnt_rst"}
    BY DEF Names, Fields
  <2>3. \A f \in {"cnt_l_lim", "cnt_h_lim", "cnt_thres0", "cnt_thres1"} : Set(u, f, v) \in NoReset(w)
    BY <1>7, <2>2, EditsIn
  <2>4. \A f \in {"cnt_l_lim", "cnt_h_lim", "cnt_thres0", "cnt_thres1"} : <<Set(u, f, v)>> \in Seq(NoReset(w))
    BY <2>3
  <2> DEFINE s == CASE evt = "L_LIM" -> <<Set(u, "cnt_l_lim", v)>>
                    [] evt = "H_LIM" -> <<Set(u, "cnt_h_lim", v)>>
                    [] evt = "THRES_0" -> <<Set(u, "cnt_thres0", v)>>
                    [] evt = "THRES_1" -> <<Set(u, "cnt_thres1", v)>>
                    [] OTHER -> <<>>
  <2>5. s \in Seq(NoReset(w))
    BY <1>5, <2>4
  <2>6. Closed(NoReset(w), Update(s))
    BY <2>5, ClosedUpdate, Zenon
  <2>7. pcnt_set_event_value(u, evt, v) \in {Refused, Update(s)}
    BY Zenon DEF pcnt_set_event_value
  <2> HIDE DEF s
  <2> QED
    BY <2>1, <2>6, <2>7
<1> QED
  BY <1>4, <1>6, <1>7

LEMMA ClosedFilterValue ==
  ASSUME NEW w, NEW u \in Units, NEW v \in Int
  PROVE  Closed(NoReset(w), pcnt_set_filter_value(u, v))
<1>1. "filter_thres" \in Names /\ "filter_thres" # "cnt_rst"
  BY DEF Names, Fields
<1>2. Set(u, "filter_thres", v) \in NoReset(w)
  BY <1>1, EditsIn, Zenon
<1>3. <<Set(u, "filter_thres", v)>> \in Seq(NoReset(w)) /\ <<>> \in Seq(NoReset(w) \cap Plain)
  BY <1>2
<1>4. Closed(NoReset(w), Refused) /\ Closed(NoReset(w), Update(<<Set(u, "filter_thres", v)>>))
  BY <1>3, ClosedUpdate, Pieces, Zenon DEF Refused
<1> QED
  BY <1>4, Zenon DEF pcnt_set_filter_value

LEMMA ClosedMode ==
  ASSUME NEW w, NEW u \in Units, NEW ch, NEW m \in ModeArgs
  PROVE  Closed(NoReset(w), pcnt_set_mode(u, ch, m))
<1> DEFINE M0 == {"ch0_pos_mode", "ch0_neg_mode", "ch0_hctrl_mode", "ch0_lctrl_mode"}
           M1 == {"ch1_pos_mode", "ch1_neg_mode", "ch1_hctrl_mode", "ch1_lctrl_mode"}
<1>1. M0 \cup M1 \subseteq Names \ {"cnt_rst"}
  BY DEF Names, Fields
<1>2. m.pos \in Int /\ m.neg \in Int /\ m.hctrl \in Int /\ m.lctrl \in Int
  BY DEF ModeArgs
<1>3. \A f \in M0 \cup M1, v \in Int : Set(u, f, v) \in NoReset(w)
  BY <1>1, EditsIn
<1> DEFINE s0 == <<Set(u, "ch0_pos_mode", m.pos), Set(u, "ch0_neg_mode", m.neg),
                   Set(u, "ch0_hctrl_mode", m.hctrl), Set(u, "ch0_lctrl_mode", m.lctrl)>>
           s1 == <<Set(u, "ch1_pos_mode", m.pos), Set(u, "ch1_neg_mode", m.neg),
                   Set(u, "ch1_hctrl_mode", m.hctrl), Set(u, "ch1_lctrl_mode", m.lctrl)>>
<1>4. s0 \in Seq(NoReset(w))
  BY <1>2, <1>3
<1>5. s1 \in Seq(NoReset(w))
  BY <1>2, <1>3
<1> HIDE DEF s0, s1
<1>6. Closed(NoReset(w), Update(s0)) /\ Closed(NoReset(w), Update(s1))
  BY <1>4, <1>5, ClosedUpdate, Zenon
<1>7. pcnt_set_mode(u, ch, m) = Update(IF ch = 0 THEN s0 ELSE s1)
  BY Zenon DEF pcnt_set_mode, s0, s1
<1>8. CASE ch = 0
  BY <1>6, <1>7, <1>8, Zenon
<1>9. CASE ch # 0
  BY <1>6, <1>7, <1>9, Zenon
<1> QED
  BY <1>8, <1>9

LEMMA ClosedConfig ==
  ASSUME NEW w, NEW u \in Units, NEW ch, NEW m \in ModeArgs, NEW h \in Int, NEW l \in Int
  PROVE  Closed(NoReset(w), pcnt_unit_config(u, ch, m, h, l))
<1>1. "H_LIM" \in Events /\ "L_LIM" \in Events /\ "ZERO" \in Events
  BY DEF Events
<1>2. /\ Closed(NoReset(w), pcnt_set_event_value(u, "H_LIM", h)) /\ Closed(NoReset(w), pcnt_set_event_value(u, "L_LIM", l))
      /\ Closed(NoReset(w), pcnt_event_disable(u, "H_LIM")) /\ Closed(NoReset(w), pcnt_event_disable(u, "L_LIM"))
      /\ Closed(NoReset(w), pcnt_event_disable(u, "ZERO"))
  BY <1>1, ClosedEvents, Zenon
<1>3. Closed(NoReset(w), pcnt_filter_disable(u)) /\ Closed(NoReset(w), pcnt_set_mode(u, ch, m))
  BY ClosedSimple, ClosedMode, Zenon
<1> QED
  BY <1>2, <1>3, Joins, Zenon DEF pcnt_unit_config

LEMMA ClosedService ==
  ASSUME NEW w, NEW u \in Units
  PROVE  /\ Closed(NoReset(w), pcnt_isr_service_install) /\ Closed(NoReset(w), pcnt_isr_service_uninstall)
         /\ Closed(NoReset(w), pcnt_isr_handler_add(u)) /\ Closed(NoReset(w), pcnt_isr_handler_remove(u))
<1> DEFINE P == NoReset(w) \cap Plain
<1>1. /\ ENTER \in P /\ EXIT \in P /\ NeedsService \in P /\ NoService \in P
      /\ Other("install") \in P /\ Other("uninstall") \in P
  BY LockIn, Zenon
<1>2. 0 \in Int /\ 1 \in Int /\ "fn" \in {"fn", "filter_en"}
  OBVIOUS
<1>3. Set(u, "fn", 1) \in P /\ Set(u, "fn", 0) \in P
  BY <1>2, EditsIn, Zenon
<1> HIDE DEF P
<1>4. /\ <<NoService, ENTER, Other("install"), EXIT>> \in Seq(P)
      /\ <<NeedsService, ENTER, Other("uninstall"), EXIT>> \in Seq(P)
      /\ <<NeedsService, ENTER>> \in Seq(P) /\ <<EXIT>> \in Seq(P)
      /\ <<Set(u, "fn", 1)>> \in Seq(P) /\ <<Set(u, "fn", 0)>> \in Seq(P)
  BY <1>1, <1>3
<1>5. \A s \in Seq(P) : Closed(NoReset(w), <<s>>)
  BY Pieces, Zenon DEF P
<1>6. Closed(NoReset(w), pcnt_isr_service_install) /\ Closed(NoReset(w), pcnt_isr_service_uninstall)
  BY <1>4, <1>5, Zenon DEF pcnt_isr_service_install, pcnt_isr_service_uninstall
<1>7. /\ Closed(NoReset(w), <<<<NeedsService, ENTER>>>>) /\ Closed(NoReset(w), <<<<EXIT>>>>)
      /\ Closed(NoReset(w), <<<<Set(u, "fn", 1)>>>>) /\ Closed(NoReset(w), <<<<Set(u, "fn", 0)>>>>)
  BY <1>4, <1>5, Zenon
<1>8. Closed(NoReset(w), pcnt_intr_enable(u)) /\ Closed(NoReset(w), pcnt_intr_disable(u))
  BY ClosedSimple, Zenon
<1>9. Closed(NoReset(w), pcnt_isr_handler_add(u)) /\ Closed(NoReset(w), pcnt_isr_handler_remove(u))
  BY <1>7, <1>8, Joins, Zenon DEF pcnt_isr_handler_add, pcnt_isr_handler_remove
<1> QED
  BY <1>6, <1>9

\* A function of the driver that is not the clear of a unit leaves its reset bit alone,
\* and what any of them writes is followed by an update.
LEMMA CallsAreClosed ==
  ASSUME NEW w \in Units, NEW p, DriverCall(p)
  PROVE  p = pcnt_counter_clear(w) \/ Closed(NoReset(w), p)
<1>1. CASE p \in {pcnt_isr_service_install, pcnt_isr_service_uninstall}
  BY <1>1, ClosedService
<1>2. ASSUME NEW u \in Units, p \in {pcnt_counter_pause(u), pcnt_counter_resume(u), pcnt_counter_clear(u),
                 pcnt_intr_enable(u), pcnt_intr_disable(u),
                 pcnt_filter_enable(u), pcnt_filter_disable(u),
                 pcnt_isr_handler_add(u), pcnt_isr_handler_remove(u)}
      PROVE  p = pcnt_counter_clear(w) \/ Closed(NoReset(w), p)
  <2>1. CASE p = pcnt_counter_clear(u)
    BY <2>1, ClosedClear
  <2>2. CASE p \in {pcnt_isr_handler_add(u), pcnt_isr_handler_remove(u)}
    BY <2>2, ClosedService
  <2>3. CASE p \in {pcnt_counter_pause(u), pcnt_counter_resume(u), pcnt_intr_enable(u), pcnt_intr_disable(u),
                    pcnt_filter_enable(u), pcnt_filter_disable(u)}
    BY <2>3, ClosedSimple
  <2> QED
    BY <1>2, <2>1, <2>2, <2>3
<1>3. ASSUME NEW u \in Units, NEW evt \in Events,
             \/ p \in {pcnt_event_enable(u, evt), pcnt_event_disable(u, evt)}
             \/ p = pcnt_get_event_value(u, evt)
             \/ \E v \in Int : p = pcnt_set_event_value(u, evt, v)
      PROVE  Closed(NoReset(w), p)
  BY <1>3, ClosedEvents
<1>4. ASSUME NEW u \in Units, NEW v \in Int, p = pcnt_set_filter_value(u, v) PROVE Closed(NoReset(w), p)
  BY <1>4, ClosedFilterValue
<1>5. ASSUME NEW u \in Units, NEW ch \in Channels, NEW m \in ModeArgs,
             p = pcnt_set_mode(u, ch, m) \/ \E h, l \in Int : p = pcnt_unit_config(u, ch, m, h, l)
      PROVE  Closed(NoReset(w), p)
  BY <1>5, ClosedMode, ClosedConfig
<1> QED
  BY <1>1, <1>2, <1>3, <1>4, <1>5, Zenon DEF DriverCall

\* A field that no edit of a segment writes keeps its value.
LEMMA WrittenKeeps ==
  ASSUME DOMAIN regs = Units, NEW s, NEW v \in Units, NEW f \in Fields,
         \A i \in DOMAIN s : s[i].f = f => s[i].u # v
  PROVE  Written(regs, s)[v][f] = regs[v][f]
<1>1. {i \in DOMAIN s : s[i].f = f /\ s[i].u = v} = {}
  OBVIOUS
<1> QED
  BY <1>1 DEF Written

LEMMA Closing ==
  ASSUME NEW E, NEW p, Closed(E, p)
  PROVE  /\ p # <<>> /\ Head(p) \in Seq(E)
         /\ Len(p) > 1 => Closed(E, Tail(p))
         /\ Len(p) <= 1 => Tail(p) = <<>> /\ Head(p) \in Seq(E \cap Plain)
<1>1. p # <<>> /\ Head(p) \in Seq(E) /\ (Len(p) <= 1 => Tail(p) = <<>> /\ Head(p) = Last(p))
  BY DEF Closed, Last
<1>2. Len(p) > 1 => Tail(p) \in Seq(Seq(E)) /\ Len(Tail(p)) > 0 /\ Last(Tail(p)) = Last(p)
  BY DEF Closed, Last
<1> QED
  BY <1>1, <1>2 DEF Closed

\* What a segment does to registers, programs and updateth.
LEMMA Segment ==
  ASSUME NEW E, NEW t \in Tasks, NEW p, DOMAIN regs = Units, DOMAIN prog = Tasks,
         Closed(E, p), RunSegment(t, p)
  PROVE  /\ DOMAIN regs' = Units /\ DOMAIN prog' = Tasks
         /\ \A k \in Tasks : k # t => prog'[k] = prog[k]
         /\ prog'[t] = Tail(p) /\ (prog'[t] = <<>> \/ Closed(E, prog'[t]))
         /\ shadow_n' = shadow_n /\ (upd => upd')
         /\ ~upd' => \A v \in Units, f \in Updated : regs'[v][f] = regs[v][f]
         /\ \A v \in Units : E = NoReset(v) => regs'[v].cnt_rst = regs[v].cnt_rst
<1>1. /\ regs' = Written(regs, Head(p)) /\ prog' = [prog EXCEPT ![t] = Tail(p)]
      /\ upd' = (upd \/ Len(p) > 1) /\ shadow_n' = shadow_n
  BY DEF RunSegment, sigs
<1>2. DOMAIN regs' = Units
  BY <1>1 DEF Written
<1>3. /\ Head(p) \in Seq(E) /\ (Len(p) > 1 => Closed(E, Tail(p)))
      /\ Len(p) <= 1 => Tail(p) = <<>> /\ Head(p) \in Seq(E \cap Plain)
  BY Closing
<1>4. Len(p) \in Nat
  BY DEF Closed
<1>5. ASSUME ~upd', NEW v \in Units, NEW f \in Updated PROVE regs'[v][f] = regs[v][f]
  <2>1. Head(p) \in Seq(E \cap Plain)
    <3>1. ~(Len(p) > 1)
      BY <1>1, <1>5, Zenon
    <3> QED
      BY <1>3, <1>4, <3>1
  <2>2. \A i \in DOMAIN Head(p) : Head(p)[i] \in Plain
    BY <2>1
  <2>3. \A i \in DOMAIN Head(p) : Head(p)[i].f # f
    BY <1>5, <2>2 DEF Plain
  <2>4. f \in Fields
    BY <1>5 DEF Updated
  <2> QED
    BY <1>1, <2>3, <2>4, WrittenKeeps
<1>6. ASSUME NEW v \in Units, E = NoReset(v) PROVE regs'[v].cnt_rst = regs[v].cnt_rst
  <2>1. \A i \in DOMAIN Head(p) : Head(p)[i] \in NoReset(v)
    BY <1>3, <1>6
  <2>2. \A i \in DOMAIN Head(p) : Head(p)[i].f = "cnt_rst" => Head(p)[i].u # v
    BY <2>1 DEF NoReset
  <2>3. "cnt_rst" \in Fields
    BY DEF Fields
  <2>4. regs'[v]["cnt_rst"] = regs[v]["cnt_rst"]
    BY <1>1, <2>2, <2>3, WrittenKeeps, Zenon
  <2> QED
    BY <2>4
<1>7. /\ \A k \in Tasks : k # t => prog'[k] = prog[k]
      /\ prog'[t] = Tail(p) /\ DOMAIN prog' = Tasks
  BY <1>1
<1>8. Tail(p) = <<>> \/ Closed(E, Tail(p))
  BY <1>3, <1>4
<1>9. shadow_n' = shadow_n /\ (upd => upd')
  BY <1>1, Zenon
<1> QED
  BY <1>2, <1>5, <1>6, <1>7, <1>8, <1>9, Zenon

LEMMA ClosedMore == ASSUME NEW w, NEW p, Closed(NoReset(w), p) PROVE Closed(Edits, p)
<1>1. NoReset(w) \subseteq Edits /\ NoReset(w) \cap Plain \subseteq Edits \cap Plain
  BY DEF NoReset
<1> QED
  BY <1>1 DEF Closed

\* Inductive invariant: updateth is woken or its signals are what the registers are, and
\* what a task has still to do ends in an update for all it will write.
FreshInv ==
  /\ DOMAIN regs = Units /\ DOMAIN prog = Tasks
  /\ \A t \in Tasks : prog[t] = <<>> \/ Closed(Edits, prog[t])
  /\ ~upd => \A u \in Units, f \in Updated : shadow_n[u][f] = regs[u][f]

LEMMA FreshTask ==
  ASSUME DriverCalls, FreshInv, NEW w \in Units, NEW t \in Tasks, Call(t) \/ Continue(t)
  PROVE  FreshInv'
<1>1. PICK p : RunSegment(t, p) /\ Closed(Edits, p)
  <2>1. CASE Call(t)
    <3>1. PICK p \in Ops[t] : RunSegment(t, p)
      BY <2>1 DEF Call
    <3>2. DriverCall(p)
      BY DEF DriverCalls
    <3>3. Closed(Edits, p)
      BY <3>2, CallsAreClosed, ClosedClear, ClosedMore
    <3> QED
      BY <3>1, <3>3
  <2>2. CASE Continue(t)
    BY <2>2 DEF Continue, FreshInv
  <2> QED
    BY <2>1, <2>2
<1>2. DOMAIN regs = Units /\ DOMAIN prog = Tasks
  BY DEF FreshInv
<1>3. /\ DOMAIN regs' = Units /\ DOMAIN prog' = Tasks
      /\ \A k \in Tasks : k # t => prog'[k] = prog[k]
      /\ prog'[t] = <<>> \/ Closed(Edits, prog'[t])
      /\ shadow_n' = shadow_n /\ (upd => upd')
      /\ ~upd' => \A v \in Units, f \in Updated : regs'[v][f] = regs[v][f]
  BY <1>1, <1>2, Segment
<1>4. \A k \in Tasks : prog'[k] = <<>> \/ Closed(Edits, prog'[k])
  <2> SUFFICES ASSUME NEW k \in Tasks PROVE prog'[k] = <<>> \/ Closed(Edits, prog'[k])
    OBVIOUS
  <2>1. CASE k = t
    BY <1>3, <2>1
  <2>2. CASE k # t
    <3>1. prog'[k] = prog[k] /\ (prog[k] = <<>> \/ Closed(Edits, prog[k]))
      BY <1>3, <2>2 DEF FreshInv
    <3> QED
      BY <3>1
  <2> QED
    BY <2>1, <2>2
<1>5. ~upd' => \A u \in Units, f \in Updated : shadow_n'[u][f] = regs'[u][f]
  BY <1>3 DEF FreshInv
<1> QED
  BY <1>3, <1>4, <1>5 DEF FreshInv

LEMMA FreshRest ==
  ASSUME FreshInv, [Next]_vars, \A t \in Tasks : ~(Call(t) \/ Continue(t))
  PROVE  FreshInv' /\ UNCHANGED <<regs, prog>>
<1>1. CASE updateth
  BY <1>1 DEF updateth, FreshInv, sw
<1>2. CASE UNCHANGED <<regs, prog, upd, shadow_n>>
  BY <1>2 DEF FreshInv
<1> QED
  BY <1>1, <1>2 DEF Next, Threads, vars, sw, sigs, returnth, capture, count, EndDelta, Tick, Input

LEMMA FreshInit == ASSUME Init PROVE FreshInv
  BY SetupAssumption DEF Init, FreshInv

\* Whenever time can move, the hardware works with what the driver last wrote, for any
\* tasks and calls of any functions of the driver: each of them calls update_pcnt() after
\* the last of its writes, but for the two of the filter, and updateth copies everything.
THEOREM HardwareIsFresh == ASSUME DriverCalls PROVE Spec => []Fresh
<1>1. CASE Units = {}
  <2>1. Fresh
    BY <1>1 DEF Fresh
  <2> QED
    BY <2>1, PTL
<1>2. CASE Units # {}
  <2>1. FreshInv /\ [Next]_vars => FreshInv'
    BY <1>2, FreshTask, FreshRest
  <2>2. FreshInv => Fresh
    BY DEF FreshInv, Fresh, Quiet, Runnable, Pending, Updated
  <2> QED
    BY <2>1, <2>2, FreshInit, PTL DEF Spec
<1> QED
  BY <1>1, <1>2

\* Task k waits after the second step of a clear of u, which took the reset bit back.
TakesBack(k, u) ==
  k \in waiting /\ prog[k] = <<<<EXIT>>>> /\ pcnt_counter_clear(u) \in Ops[k]

\* Inductive invariant, for each unit: as long as a task waits that has set the reset bit,
\* the bit is set, or another task has taken it back and waits for the same clock.
ClearInv ==
  \A u \in Units, t \in Tasks :
    \/ prog[t] = <<>> \/ Closed(NoReset(u), prog[t])
    \/ /\ prog[t] = Tail(pcnt_counter_clear(u)) /\ pcnt_counter_clear(u) \in Ops[t]
       /\ \/ regs[u].cnt_rst = 1
          \/ /\ regs[u].cnt_rst = 0
             /\ t \in waiting => \E k \in Tasks \ {t} : TakesBack(k, u)

LEMMA ClearTail ==
  ASSUME NEW u \in Units
  PROVE  /\ Tail(pcnt_counter_clear(u)) = <<<<Set(u, "cnt_rst", 0)>>, <<EXIT>>>>
         /\ Head(pcnt_counter_clear(u)) = <<ENTER, Set(u, "cnt_rst", 1)>>
         /\ Tail(Tail(pcnt_counter_clear(u))) = <<<<EXIT>>>>
         /\ Closed(NoReset(u), <<<<EXIT>>>>)
         /\ Tail(pcnt_counter_clear(u)) # <<>>
         /\ ~Closed(NoReset(u), Tail(pcnt_counter_clear(u)))
<1>1. /\ Tail(pcnt_counter_clear(u)) = <<<<Set(u, "cnt_rst", 0)>>, <<EXIT>>>>
      /\ Head(pcnt_counter_clear(u)) = <<ENTER, Set(u, "cnt_rst", 1)>>
      /\ Tail(Tail(pcnt_counter_clear(u))) = <<<<EXIT>>>>
      /\ Tail(pcnt_counter_clear(u)) # <<>>
  BY DEF pcnt_counter_clear
<1>2. EXIT \in NoReset(u) \cap Plain
  BY LockIn
<1>3. <<EXIT>> \in Seq(NoReset(u) \cap Plain)
  BY <1>2
<1>4. Closed(NoReset(u), <<<<EXIT>>>>)
  BY <1>3, Pieces, Zenon
<1>5. Set(u, "cnt_rst", 0) \notin NoReset(u)
  BY DEF Set, NoReset
<1>6. <<Set(u, "cnt_rst", 0)>> \notin Seq(NoReset(u))
  BY <1>5
<1>7. ~Closed(NoReset(u), Tail(pcnt_counter_clear(u)))
  <2> SUFFICES ASSUME Closed(NoReset(u), Tail(pcnt_counter_clear(u))) PROVE FALSE
    OBVIOUS
  <2>1. Head(<<<<Set(u, "cnt_rst", 0)>>, <<EXIT>>>>) \in Seq(NoReset(u))
    BY <1>1, Closing, Zenon
  <2> QED
    BY <1>6, <2>1
<1> QED
  BY <1>1, <1>4, <1>7

\* The first segment of a clear sets the bit.
LEMMA ClearSets ==
  ASSUME NEW u \in Units, DOMAIN regs = Units
  PROVE  Written(regs, <<ENTER, Set(u, "cnt_rst", 1)>>)[u].cnt_rst = 1
<1> DEFINE s == <<ENTER, Set(u, "cnt_rst", 1)>>
           W == {i \in DOMAIN s : s[i].f = "cnt_rst" /\ s[i].u = u}
<1>1. DOMAIN s = {1, 2} /\ s[1].f = "enter" /\ s[2].f = "cnt_rst" /\ s[2].u = u /\ s[2].v = 1
  BY DEF ENTER, Other, Set
<1> HIDE DEF s
<1>2. W = {2}
  BY <1>1
<1>3. Max({2}) = 2
  BY DEF Max
<1>4. "cnt_rst" \in Fields
  BY DEF Fields
<1>5. Written(regs, s)[u]["cnt_rst"] = IF W = {} THEN regs[u]["cnt_rst"] ELSE s[Max(W)].v
  BY <1>4 DEF Written
<1> HIDE DEF W
<1> QED
  BY <1>1, <1>2, <1>3, <1>5 DEF s

\* The second takes it back.
LEMMA ClearTakes ==
  ASSUME NEW u \in Units, DOMAIN regs = Units
  PROVE  Written(regs, <<Set(u, "cnt_rst", 0)>>)[u].cnt_rst = 0
<1> DEFINE s == <<Set(u, "cnt_rst", 0)>>
           W == {i \in DOMAIN s : s[i].f = "cnt_rst" /\ s[i].u = u}
<1>1. DOMAIN s = {1} /\ s[1].f = "cnt_rst" /\ s[1].u = u /\ s[1].v = 0
  BY DEF Set
<1> HIDE DEF s
<1>2. W = {1}
  BY <1>1
<1>3. Max({1}) = 1
  BY DEF Max
<1>4. "cnt_rst" \in Fields
  BY DEF Fields
<1>5. Written(regs, s)[u]["cnt_rst"] = IF W = {} THEN regs[u]["cnt_rst"] ELSE s[Max(W)].v
  BY <1>4 DEF Written
<1> HIDE DEF W
<1> QED
  BY <1>1, <1>2, <1>3, <1>5 DEF s

LEMMA ClearTask ==
  ASSUME DriverCalls, FreshInv, ClearInv, NEW t \in Tasks, Call(t) \/ Continue(t)
  PROVE  ClearInv'
<1> SUFFICES ASSUME NEW u \in Units, NEW k \in Tasks
             PROVE  (\/ prog[k] = <<>> \/ Closed(NoReset(u), prog[k])
                     \/ /\ prog[k] = Tail(pcnt_counter_clear(u)) /\ pcnt_counter_clear(u) \in Ops[k]
                        /\ \/ regs[u].cnt_rst = 1
                           \/ /\ regs[u].cnt_rst = 0
                              /\ k \in waiting => \E j \in Tasks \ {k} : TakesBack(j, u))'
  BY DEF ClearInv
<1> DEFINE C == pcnt_counter_clear(u)
<1>1. DOMAIN regs = Units /\ DOMAIN prog = Tasks
  BY DEF FreshInv
<1>2. PICK p : /\ RunSegment(t, p)
               /\ prog[t] = <<>> \/ t \notin waiting
               /\ \/ Closed(NoReset(u), p)
                  \/ p = C /\ C \in Ops[t]
                  \/ p = Tail(C) /\ C \in Ops[t]
  <2>1. CASE Call(t)
    <3>1. prog[t] = <<>> /\ \E p \in Ops[t] : RunSegment(t, p)
      BY <2>1 DEF Call
    <3>2. PICK p \in Ops[t] : RunSegment(t, p)
      BY <3>1
    <3>3. DriverCall(p)
      BY DEF DriverCalls
    <3> QED
      BY <3>1, <3>2, <3>3, CallsAreClosed, Zenon
  <2>2. CASE Continue(t)
    <3>1. prog[t] # <<>> /\ t \notin waiting /\ RunSegment(t, prog[t])
      BY <2>2 DEF Continue
    <3> QED
      BY <3>1, Zenon DEF ClearInv
  <2> QED
    BY <2>1, <2>2
<1>3. /\ regs' = Written(regs, Head(p)) /\ prog' = [prog EXCEPT ![t] = Tail(p)]
      /\ waiting' = IF Len(p) > 1 THEN waiting \union {t} ELSE waiting
  BY <1>2 DEF RunSegment
<1>4. k # t => prog'[k] = prog[k] /\ (k \in waiting' <=> k \in waiting)
  BY <1>1, <1>3
<1>5. ASSUME NEW j \in Tasks, TakesBack(j, u) PROVE TakesBack(j, u)'
  <2>1. j # t
    <3>1. <<<<EXIT>>>> # <<>>
      OBVIOUS
    <3> QED
      BY <1>2, <1>5, <3>1, Zenon DEF TakesBack
  <2>2. prog'[j] = prog[j] /\ (j \in waiting => j \in waiting')
    BY <1>1, <1>3, <2>1
  <2> QED
    BY <1>5, <2>2, Zenon DEF TakesBack
<1>6. CASE Closed(NoReset(u), p)
  <2>1. /\ prog'[t] = <<>> \/ Closed(NoReset(u), prog'[t])
        /\ regs'[u].cnt_rst = regs[u].cnt_rst
    BY <1>1, <1>2, <1>6, Segment
  <2>2. CASE k = t
    BY <2>1, <2>2, Zenon
  <2>3. CASE k # t
    <3>1. \/ prog[k] = <<>> \/ Closed(NoReset(u), prog[k])
          \/ /\ prog[k] = Tail(C) /\ C \in Ops[k]
             /\ \/ regs[u].cnt_rst = 1
                \/ /\ regs[u].cnt_rst = 0
                   /\ k \in waiting => \E j \in Tasks \ {k} : TakesBack(j, u)
      BY Zenon DEF ClearInv
    <3>2. (\E j \in Tasks \ {k} : TakesBack(j, u)) => \E j \in Tasks \ {k} : TakesBack(j, u)'
      BY <1>5, Zenon
    <3> QED
      BY <1>4, <2>1, <2>3, <3>1, <3>2, Zenon
  <2> QED
    BY <2>2, <2>3
<1>7. CASE p = C /\ C \in Ops[t]
  <2>1. regs'[u].cnt_rst = 1
    BY <1>1, <1>3, <1>7, ClearTail, ClearSets
  <2>2. prog'[t] = Tail(C)
    BY <1>1, <1>3, <1>7
  <2> QED
    BY <1>4, <1>7, <2>1, <2>2, Zenon DEF ClearInv
<1>8. CASE p = Tail(C) /\ C \in Ops[t]
  <2>1. Tail(C) = <<<<Set(u, "cnt_rst", 0)>>, <<EXIT>>>> /\ Tail(Tail(C)) = <<<<EXIT>>>>
    BY ClearTail
  <2>2. Head(p) = <<Set(u, "cnt_rst", 0)>> /\ Len(p) > 1
    <3>1. \A x, y : Head(<<x, y>>) = x /\ Len(<<x, y>>) > 1
      OBVIOUS
    <3> QED
      BY <1>8, <2>1, <3>1, Zenon
  <2>3. regs'[u].cnt_rst = 0
    BY <1>1, <1>3, <2>2, ClearTakes
  <2>4. prog'[t] = <<<<EXIT>>>> /\ t \in waiting'
    BY <1>1, <1>3, <1>8, <2>1, <2>2
  <2>5. CASE k = t
    BY <2>4, <2>5, ClearTail, Zenon
  <2>6. CASE k # t
    <3>1. t \in Tasks \ {k} /\ TakesBack(t, u)'
      BY <1>8, <2>4, <2>6 DEF TakesBack
    <3>2. \/ prog[k] = <<>> \/ Closed(NoReset(u), prog[k])
          \/ prog[k] = Tail(C) /\ C \in Ops[k]
      BY Zenon DEF ClearInv
    <3> QED
      BY <1>4, <2>3, <2>6, <3>1, <3>2, Zenon
  <2> QED
    BY <2>5, <2>6
<1> QED
  BY <1>2, <1>6, <1>7, <1>8

\* The other steps leave registers and programs alone, and Tick wakes all tasks.
LEMMA ClearRest ==
  ASSUME FreshInv, ClearInv, [Next]_vars, \A t \in Tasks : ~(Call(t) \/ Continue(t))
  PROVE  ClearInv'
<1>1. regs' = regs /\ prog' = prog
  BY FreshRest
<1>2. waiting' = waiting \/ waiting' = {}
  BY DEF Next, Threads, vars, sw, sigs, updateth, returnth, capture, count, EndDelta, Tick, Input
<1>3. CASE waiting' = waiting
  BY <1>1, <1>3, Zenon DEF ClearInv, TakesBack
<1>4. CASE waiting' = {}
  <2>1. \A t : t \notin waiting'
    BY <1>4
  <2> QED
    BY <1>1, <2>1, Zenon DEF ClearInv
<1> QED
  BY <1>2, <1>3, <1>4

\* Everything that the theorems about clears need.
ClearsInv == FreshInv /\ ResetInv /\ ClearInv

LEMMA ClearsStep ==
  ASSUME DriverCalls, Units # {}, ClearsInv, [Next]_vars
  PROVE  ClearsInv'
<1>1. ResetInv'
  BY ResetStep DEF ClearsInv
<1>2. ASSUME NEW t \in Tasks, Call(t) \/ Continue(t) PROVE FreshInv' /\ ClearInv'
  BY <1>2, FreshTask, ClearTask DEF ClearsInv
<1>3. CASE \A t \in Tasks : ~(Call(t) \/ Continue(t))
  BY <1>1, <1>3, FreshRest, ClearRest DEF ClearsInv
<1> QED
  BY <1>1, <1>2, <1>3 DEF ClearsInv

LEMMA ClearsInit == Init => ClearsInv
<1>1. Init => ClearInv
  BY DEF Init, ClearInv
<1> QED
  BY <1>1, FreshInit, ResetInit DEF ClearsInv

LEMMA ClearsTick ==
  ASSUME ClearsInv, Tick, NEW t \in Tasks, NEW u \in Units, prog[t] = Tail(pcnt_counter_clear(u))
  PROVE  \/ cnt[u] = 0
         \/ /\ TakenBack(t, u) /\ pcnt_counter_clear(u) \in Ops[t]
            /\ \E k \in Tasks \ {t} : pcnt_counter_clear(u) \in Ops[k]
<1>1. /\ Quiet /\ ~upd /\ shadow = shadow_n /\ cnt = cnt_n /\ run = {}
      /\ prog[t] # <<>> => t \in waiting
  BY DEF Tick, Quiet, Runnable, Pending
<1>2. /\ pcnt_counter_clear(u) \in Ops[t]
      /\ \/ regs[u].cnt_rst = 1
         \/ regs[u].cnt_rst = 0 /\ \E k \in Tasks \ {t} : TakesBack(k, u)
  BY <1>1, ClearTail, Zenon DEF ClearsInv, ClearInv
<1>3. CASE regs[u].cnt_rst = 1
  <2>1. "cnt_rst" \in Updated
    BY DEF Updated, Fields
  <2>2. shadow_n[u]["cnt_rst"] = regs[u]["cnt_rst"]
    BY <1>1, <2>1 DEF ClearsInv, FreshInv
  <2>3. shadow_n[u].cnt_rst > 0
    BY <1>3, <2>2
  <2> QED
    BY <1>1, <2>3 DEF ClearsInv, ResetInv
<1>4. CASE regs[u].cnt_rst = 0 /\ \E k \in Tasks \ {t} : TakesBack(k, u)
  BY <1>2, <1>4, ClearTail, Zenon DEF TakenBack, TakesBack
<1> QED
  BY <1>2, <1>3, <1>4

\* pcnt_counter_clear clears: at the clock that ends its first update the counter is zero,
\* whatever functions of the driver other tasks are in meanwhile, unless another task that
\* clears the same unit has taken the reset bit back (driver/pcnt.cpp, updateth and count).
THEOREM ClearsDoClear == ASSUME DriverCalls PROVE Spec => ClearClears
<1> DEFINE Clears == [\A t \in Tasks, u \in Units :
                        Tick /\ prog[t] = Tail(pcnt_counter_clear(u))
                          => cnt[u] = 0 \/ TakenBack(t, u)]_vars
<1>1. CASE Units = {}
  <2>1. Clears
    BY <1>1
  <2> QED
    BY <2>1, PTL DEF ClearClears
<1>2. CASE Units # {}
  <2>1. ClearsInv /\ [Next]_vars => ClearsInv'
    BY <1>2, ClearsStep
  <2>2. ClearsInv => Clears
    BY ClearsTick
  <2> QED
    BY <2>1, <2>2, ClearsInit, PTL DEF Spec, ClearClears
<1> QED
  BY <1>1, <1>2

\* No two tasks clear the same unit.
OneClears == \A u \in Units, t, k \in Tasks : pcnt_counter_clear(u) \in Ops[t] \cap Ops[k] => t = k

\* The exception needs two tasks that clear the same unit: without them every clear ends
\* with a counter of zero.
THEOREM SoleClearsDoClear ==
  ASSUME DriverCalls, OneClears
  PROVE  Spec => [][\A t \in Tasks, u \in Units :
                      Tick /\ prog[t] = Tail(pcnt_counter_clear(u)) => cnt[u] = 0]_vars
<1> DEFINE Clears == [\A t \in Tasks, u \in Units :
                        Tick /\ prog[t] = Tail(pcnt_counter_clear(u)) => cnt[u] = 0]_vars
<1>1. CASE Units = {}
  <2>1. Clears
    BY <1>1
  <2> QED
    BY <2>1, PTL
<1>2. CASE Units # {}
  <2>1. ClearsInv /\ [Next]_vars => ClearsInv'
    BY <1>2, ClearsStep
  <2>2. ClearsInv => Clears
    BY ClearsTick DEF OneClears
  <2> QED
    BY <2>1, <2>2, ClearsInit, PTL DEF Spec
<1> QED
  BY <1>1, <1>2
============================================================================
