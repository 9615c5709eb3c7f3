------------------------------- MODULE MCSpi -------------------------------
(* Instances of Spi: transfers for which the layer and the peripheral agree, and  *)
(* the write that they do not agree on.                                            *)
EXTENDS Spi

\* The clock is the APB clock, or divided by three from it.
Fast == [high |-> 1, low |-> 1]
Slow == [high |-> 2, low |-> 4]
MCClocks == {Fast, Slow}

Job(k, m, c, n) == [kind |-> k, msb |-> m, clock |-> c, bits |-> n]
MCTransfers ==
  {Job("transfer", TRUE, Fast, 8), Job("transfer", TRUE, Slow, 8),
   Job("transfer", FALSE, Fast, 16), Job("transfer", FALSE, Slow, 40)}
MCWrites == {Job("write", TRUE, Fast, 8)}
============================================================================
