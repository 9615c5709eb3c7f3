------------------------------ MODULE MCIntr -------------------------------
(***************************************************************************)
(* Model-checking instances of Intr.                                       *)
(***************************************************************************)
EXTENDS Intr, TLC

ETS_LEDC_INTR_SOURCE == 43
ETS_RMT_INTR_SOURCE  == 47
ETS_INTERNAL_SW0_INTR_SOURCE == -4

Request(s, flags, levels, fn) ==
  [source |-> s, flags |-> flags, levels |-> levels, fn |-> fn]

\* The LED controller's fade service, asked for with and without a level.
StaleRequests ==
  {Request(ETS_LEDC_INTR_SOURCE, {}, l, "ledc_fade_isr") : l \in {{}, {2}}}
StaleSources == {ETS_LEDC_INTR_SOURCE}

\* Beside it a shared source whose handlers are in IRAM and asked for disabled, and a
\* source inside the CPU.
MCRequests ==
  StaleRequests \union
  {Request(ETS_RMT_INTR_SOURCE, {"SHARED", "IRAM", "INTRDISABLED"}, {1}, "rmt"),
   Request(ETS_INTERNAL_SW0_INTR_SOURCE, {"INTRDISABLED"}, {}, None)}
MCSources == {q.source : q \in MCRequests}

CONSTANTS h1, h2
Symmetry == Permutations(Handles)
============================================================================
