---------------------------- MODULE MCFlashBoot ----------------------------
(***************************************************************************)
(* A model-checking instance of FlashBoot: pages of two words of two bytes *)
(* and sectors of two pages.                                               *)
(***************************************************************************)
EXTENDS FlashBoot, MCFlash

\* Words 0..7: one range of two sectors, so that preerase, which leaves out the sector
\* of its end address, has one to erase.
OneRangeStart == <<0>>
OneRangeEnd   == <<7>>

MCLoadWord(k) == <<k, k>>

\* Every test of the driver and of the device failed once, and a read of no words,
\* whose answer from a programmed page has no end.
BootRequests ==
  {Erase(0, 8), Erase(0, 16), Write(0, <<A>>), Write(6, <<B>>), Read(4, 4), Read(0, 1),
   Erase(2, 8), Erase(0, 6), Erase(4, 16), Erase(8, 8), Write(9, <<A>>),
   Write(0, <<A, B, A>>), Write(1, <<A, B>>), Read(9, 2), Read(1, 4)}
============================================================================
