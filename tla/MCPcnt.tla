------------------------------- MODULE MCPcnt ------------------------------
(***************************************************************************)
(* Model-checking instances of Pcnt: one unit (the units share nothing but *)
(* the registers, which are copied as a whole), counters of three bits.    *)
(***************************************************************************)
EXTENDS Pcnt

U0 == 0
Level(s0, c0, s1, c1) ==
  [sig |-> (0 :> s0 @@ 1 :> s1), ctrl |-> (0 :> c0 @@ 1 :> c1)]

\* Only channel 0 is connected.
OneChannel  == {Level(s, c, 0, 0) : s, c \in {0, 1}}

\* Both edges of channel 0 count, down while the control input is low; the
\* limits are enabled and the filter is set up, but off.  This is unit 1 of
\* examples/pcnt/pcnt.ino with both edges.
UpDown == [ZeroRegs EXCEPT !.ch0_pos_mode = 1, !.ch0_neg_mode = 1,
                           !.ch0_lctrl_mode = 1,
                           !.cnt_l_lim = -2, !.cnt_h_lim = 2,
                           !.thr_l_lim_en = 1, !.thr_h_lim_en = 1,
                           !.filter_thres = 1]
MCUpDown == [u \in Units |-> UpDown]

CONSTANTS t1, t2

\* Both tasks pause, resume and clear the unit.  One of them also enables the
\* filter and sets the mode of channel 0 anew.
Control == {pcnt_counter_pause(U0), pcnt_counter_resume(U0), pcnt_counter_clear(U0)}
OneEdge == [pos |-> 1, neg |-> 0, hctrl |-> 0, lctrl |-> 1]
BothOps == (t1 :> Control) @@
           (t2 :> Control \union {pcnt_filter_enable(U0), pcnt_set_mode(U0, 0, OneEdge)})
============================================================================
