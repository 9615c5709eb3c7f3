------------------------------ MODULE MCFlash ------------------------------
(***************************************************************************)
(* Model-checking instances of Flash: pages of two words of two bytes, so  *)
(* that a word can be half received and a page half written; two ranges    *)
(* with a hole between them.                                               *)
(***************************************************************************)
EXTENDS FlashRefine

A == <<1, 10>>
B == <<255, 0>>
MCJunk == {<<7, 7>>}

\* Words 0..3 and 8..9.  With pages of two words and sectors of one page there
\* are three sectors.
TwoRangesStart == <<0, 8>>
TwoRangesEnd   == <<3, 9>>

Erase(a, size)    == [op |-> "e", addr |-> a, size |-> size, data |-> <<>>]
Write(a, ws)      == [op |-> "w", addr |-> a, size |-> Len(ws) * WordBytes, data |-> ws]
Read(a, size)     == [op |-> "r", addr |-> a, size |-> size, data |-> <<>>]

\* Erases of both sectors of the first range in one call and of the second; writes of
\* a whole page, of its start and of its end; reads of a word and of two pages.  All
\* are legal but the write across a page, which Permitted excludes.
LegalRequests ==
  {Erase(0, 8), Erase(8, 4), Write(0, <<A, B>>), Write(1, <<B>>), Write(2, <<A>>),
   Write(8, <<B>>), Write(1, <<A, B>>), Read(1, 2), Read(0, 8)}
============================================================================
