---------------------------- MODULE PcntDriver -----------------------------
(***************************************************************************)
(* The pulse counter driver (src/esp32sdk/driver/pcnt.cpp) as what its     *)
(* functions do to the register structure PCNT, to pcnt_spinlock and to    *)
(* the table of handlers.                                                  *)
(*                                                                         *)
(* A call is a sequence of segments; a segment is a sequence of edits that *)
(* happen without a wait, and between two segments there is a call of      *)
(* update_pcnt(), which notifies the hardware model and then waits for the *)
(* next APB clock.                                                         *)
(***************************************************************************)
EXTENDS Integers, SequencesExt

\* The fields of the registers conf0, conf1, conf2, ctrl and int_ena that belong
\* to one unit, by their names in pcnt_struct.h.
Fields ==
  {"ch0_pos_mode", "ch0_neg_mode", "ch0_hctrl_mode", "ch0_lctrl_mode",
   "ch1_pos_mode", "ch1_neg_mode", "ch1_hctrl_mode", "ch1_lctrl_mode",
   "thr_l_lim_en", "thr_h_lim_en", "thr_thres0_en", "thr_thres1_en", "thr_zero_en",
   "cnt_l_lim", "cnt_h_lim", "cnt_thres0", "cnt_thres1",
   "filter_en", "filter_thres", "cnt_pause", "cnt_rst", "int_ena"}

\* memset in pcntmod::initstruct.
ZeroRegs == [f \in Fields |-> 0]

Set(u, f, v) == [f |-> f, u |-> u, v |-> v]
Other(f)     == [f |-> f, u |-> 0, v |-> 0]

\* portENTER_CRITICAL is trywait() and portEXIT_CRITICAL post().
ENTER == Other("enter")
EXIT  == Other("exit")

\* A sequence of calls: the last segment of one runs on into the next.
p ++ q == Front(p) \o <<Last(p) \o Head(q)>> \o Tail(q)
Update(edits) == <<edits, <<>>>>

pcnt_counter_pause(u)  == <<<<ENTER, Set(u, "cnt_pause", 1)>>, <<EXIT>>>>
pcnt_counter_resume(u) == <<<<ENTER, Set(u, "cnt_pause", 0)>>, <<EXIT>>>>

pcnt_counter_clear(u) ==
  <<<<ENTER, Set(u, "cnt_rst", 1)>>, <<Set(u, "cnt_rst", 0)>>, <<EXIT>>>>

pcnt_intr_enable(u)  == <<<<ENTER, Set(u, "int_ena", 1)>>, <<EXIT>>>>
pcnt_intr_disable(u) == <<<<ENTER, Set(u, "int_ena", 0)>>, <<EXIT>>>>

EnField(evt) ==
  CASE evt = "L_LIM" -> "thr_l_lim_en" [] evt = "H_LIM" -> "thr_h_lim_en"
    [] evt = "THRES_0" -> "thr_thres0_en" [] evt = "THRES_1" -> "thr_thres1_en"
    [] evt = "ZERO" -> "thr_zero_en"
pcnt_event_enable(u, evt)  == Update(<<Set(u, EnField(evt), 1)>>)
pcnt_event_disable(u, evt) == Update(<<Set(u, EnField(evt), 0)>>)

\* A call with a bad argument is refused before it does anything.
Refused == <<<<>>>>

pcnt_set_event_value(u, evt, v) ==
  IF (evt = "L_LIM" /\ v > 0) \/ (evt = "H_LIM" /\ v < 0) THEN Refused
  ELSE Update(CASE evt = "L_LIM" -> <<Set(u, "cnt_l_lim", v)>>
                [] evt = "H_LIM" -> <<Set(u, "cnt_h_lim", v)>>
                [] evt = "THRES_0" -> <<Set(u, "cnt_thres0", v)>>
                [] evt = "THRES_1" -> <<Set(u, "cnt_thres1", v)>>
                [] OTHER -> <<>>)

\* pcnt_get_event_value only reads the structure, but it calls update_pcnt().
pcnt_get_event_value(u, evt) == Update(<<>>)

pcnt_set_filter_value(u, v) ==
  IF v >= 1024 THEN Refused ELSE Update(<<Set(u, "filter_thres", v)>>)

\* These two do not call update_pcnt().
pcnt_filter_enable(u)  == <<<<Set(u, "filter_en", 1)>>>>
pcnt_filter_disable(u) == <<<<Set(u, "filter_en", 0)>>>>

\* m is the record of the four modes.
pcnt_set_mode(u, ch, m) ==
  Update(IF ch = 0
         THEN <<Set(u, "ch0_pos_mode", m.pos), Set(u, "ch0_neg_mode", m.neg),
                Set(u, "ch0_hctrl_mode", m.hctrl), Set(u, "ch0_lctrl_mode", m.lctrl)>>
         ELSE <<Set(u, "ch1_pos_mode", m.pos), Set(u, "ch1_neg_mode", m.neg),
                Set(u, "ch1_hctrl_mode", m.hctrl), Set(u, "ch1_lctrl_mode", m.lctrl)>>)

\* The pins that pcnt_set_pin connects at the end are outside the model.
pcnt_unit_config(u, ch, m, h_lim, l_lim) ==
  pcnt_set_event_value(u, "H_LIM", h_lim) ++ pcnt_set_event_value(u, "L_LIM", l_lim)
  ++ pcnt_event_disable(u, "H_LIM") ++ pcnt_event_disable(u, "L_LIM")
  ++ pcnt_event_disable(u, "ZERO") ++ pcnt_filter_disable(u) ++ pcnt_set_mode(u, ch, m)

\* The table of handlers.  pcnt_isr_register allocates no interrupt, so
\* pcnt_intr_service never runs and a handler is never called.
NeedsService == Other("if_on")
NoService    == Other("if_off")
pcnt_isr_service_install   == <<<<NoService, ENTER, Other("install"), EXIT>>>>
pcnt_isr_service_uninstall == <<<<NeedsService, ENTER, Other("uninstall"), EXIT>>>>
pcnt_isr_handler_add(u) ==
  <<<<NeedsService, ENTER>>>> ++ pcnt_intr_disable(u) ++ <<<<Set(u, "fn", 1)>>>>
  ++ pcnt_intr_enable(u) ++ <<<<EXIT>>>>
pcnt_isr_handler_remove(u) ==
  <<<<NeedsService, ENTER>>>> ++ pcnt_intr_disable(u) ++ <<<<Set(u, "fn", 0)>>>> ++ <<<<EXIT>>>>

\* The PCNT_CHECKs of the service functions.
Accepted(p, isr) ==
  LET first == Head(Head(p))
  IN  Head(p) # <<>> => /\ first = NeedsService => isr.on
                        /\ first = NoService => ~isr.on

\* The register structure after the edits of a segment: of the writes to a field the
\* last one stays.
Written(r, edits) ==
  [u \in DOMAIN r |-> [f \in Fields |->
     LET writes == {i \in DOMAIN edits : edits[i].f = f /\ edits[i].u = u}
     IN  IF writes = {} THEN r[u][f] ELSE edits[Max(writes)].v]]

\* One edit of z, the record of spinlock and isr.
Edit(z, e) ==
  CASE e.f = "enter" -> [z EXCEPT !.spinlock = IF @ > 0 THEN @ - 1 ELSE @]
    [] e.f = "exit" -> [z EXCEPT !.spinlock = @ + 1]
    [] e.f = "install" -> [z EXCEPT !.isr = [on |-> TRUE, fn |-> {}]]
    [] e.f = "uninstall" -> [z EXCEPT !.isr = [on |-> FALSE, fn |-> {}]]
    [] e.f = "fn" -> [z EXCEPT !.isr.fn = IF ~z.isr.on THEN @
                                          ELSE IF e.v = 1 THEN @ \union {e.u}
                                          ELSE @ \ {e.u}]
    [] OTHER -> z
============================================================================
