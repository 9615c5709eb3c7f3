------------------------------ MODULE MCPn532 ------------------------------
(* Instances of Pn532: frames with short and long preambles, good and bad       *)
(* payloads, and a configuration of the retries.                                *)
EXTENDS Pn532

Plain == <<"00", "00", "FF">>
Padded == <<"00", "00", "00", "FF">>
Noisy == <<"55", "00", "55", "00", "00", "55", "00", "00", "FF">>
F(p, c, x) == [pre |-> p, cmd |-> c, payload |-> x, retries |-> 1]

MCFrames ==
  {F(Plain, "inlist", "good"), F(Padded, "sam", "good"), F(Plain, "sam", "short"),
   F(Plain, "exchange", "read"), F(Plain, "exchange", "good"), F(Plain, "exchange", "short"),
   F(Noisy, "unknown", "none"), F(Plain, "rfconfig", "good"), F(Plain, "version", "good"),
   F(Plain, "version", "short")}

\* GetFirmwareVersion as hosts send it, without a payload, and a command that leaves
\* cmdbad set.
StaleFrames == {F(Plain, "sam", "short"), F(Plain, "version", "none")}
============================================================================
