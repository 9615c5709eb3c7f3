---------------------------- MODULE FlashRefine ----------------------------
(***************************************************************************)
(* Flash implements FlashSpec.                                             *)
(*                                                                         *)
(* The contents of a word are what the device would send for it, except    *)
(* that a write counts as done once the device starts to store it: until   *)
(* then the page is untouched, and afterwards the device looks at nothing  *)
(* else before the last word is in.                                        *)
(***************************************************************************)
EXTENDS Flash

CONSTANT Unknown

ASSUME UnknownAssumption == Unknown \notin [1..WordBytes -> 0..255]

Addrs == {a \in 0..rangeend[Len(rangeend)] : rangeof(a) # 0}

StoredWord(a) ==
  LET page == pgm[pageof(a)]
      w    == (a % PageWords) + 1
  IN  IF w <= Len(page) THEN page[w] ELSE BlankWord

InFlight(a) == dpc = "store" /\ owner # NoTask
               /\ a \in (cmd.addr + pos)..(cmd.addr + cmd.size - 1)

memory ==
  [a \in Addrs |-> IF secs[sectorof(a)] = "UNK" THEN Unknown
                   ELSE IF InFlight(a) THEN req[owner].data[a - cmd.addr + 1]
                   ELSE StoredWord(a)]

AsCall(r) ==
  [op |-> r.op, addr |-> r.addr, data |-> r.data,
   n |-> IF r.op = "e" THEN 0 ELSE sizew(Chunk(r))]

\* The device has done what the holder of the mutex asked for.
Applied(t) ==
  owner = t /\ \/ dpc \in {"store", "eol", "reply"}
               \/ dpc = "line" /\ out[t] = <<>> /\ rx = <<>>

calls == [t \in Tasks |-> [c |-> AsCall(req[t]), done |-> Applied(t)]]

\* Whole words among the bytes of a read's answer that are under way.
WordsIn(b) == [i \in 1..(Len(b) \div WordBytes) |->
                 SubSeq(b, (i - 1) * WordBytes + 1, i * WordBytes)]

results == [t \in Tasks |-> IF owner = t /\ req[t].op = "r" /\ Applied(t)
                            THEN got[t] \o WordsIn(tx \o reply) ELSE got[t]]

\* Every sector or page that a call comes to.
Parts(r) ==
  LET step == IF r.op = "e" THEN SecWords ELSE PageWords
  IN  {AsCall([r EXCEPT !.addr = @ + i * step, !.size = @ - i * step * WordBytes]) :
         i \in 0..((r.size - 1) \div (step * WordBytes))}

Abstract == INSTANCE FlashSpec WITH
  mem <- memory, call <- calls, res <- results,
  Calls <- UNION {Parts(r) : r \in Requests},
  sectorOf <- [a \in Addrs |-> sectorof(a)],
  pageOf <- [a \in Addrs |-> pageof(a)],
  Blank <- BlankWord, Zero <- ZeroWord

\* The ports, the mutex and the device together implement the flash of
\* FlashSpec: every call takes effect at one instant, a read returns the
\* contents at one instant, and no call disturbs another's words.
ImplementsFlash == Abstract!Spec

\* What a read has put into the caller's buffer by the time its status is due
\* is what the flash holds.
ReadIsExact ==
  \A t \in Tasks : pc[t] = "status" /\ req[t].op = "r" /\ ~stopped =>
    LET n == sizew(Chunk(req[t]))
    IN  \A i \in 1..n :
          LET a == req[t].addr + i - 1
          IN  a \in Addrs /\ memory[a] # Unknown
                => got[t][Len(got[t]) - n + i] = memory[a]

\* "Erased: return FFFF." (cchanflash.cpp) and "Any new spaces we fill with
\* blanks, 0xffffffff" (preload): starting to program a page changes no word
\* but the ones the command addresses.  The code does not keep to it and no run checks
\* it; TLC refutes it in the instance of the run flash.
WriteTouchesOnlyItsWords ==
  [][dpc = "prog" /\ dpc' = "store" =>
       \A a \in Addrs \ (cmd.addr..(cmd.addr + cmd.size - 1)) :
         memory'[a] = memory[a]]_vars
============================================================================
