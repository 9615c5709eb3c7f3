----------------------------- MODULE FlashGeom -----------------------------
(***************************************************************************)
(* The geometry of the flash model: how an address becomes a range, a      *)
(* sector and a page (src/modules/cchanflash.cpp, getrange and the macros  *)
(* SECADDR, PAGEADDR, ADDRINPAGE).                                         *)
(*                                                                         *)
(* The unit of an address is the instance's: Flash counts words (the code  *)
(* counts bytes and drops the two low bits before it uses them), and       *)
(* FlashSetup bytes.  A page is 64 words and a sector 16 pages in the      *)
(* code.  Ranges are numbered from 1 and 0 stands for the code's -1.       *)
(***************************************************************************)
EXTENDS Integers, Sequences, FiniteSetsExt

CONSTANTS PageWords, SecPages

ASSUME GeomAssumption == PageWords \in Nat \ {0} /\ SecPages \in Nat \ {0}

SecWords == PageWords * SecPages

\* cchanflash::getrange: the scan stops at the first range that ends at or
\* after the address, or that starts after it.
getrange(rs, re, addr) ==
  LET stop == {r \in DOMAIN rs : addr < rs[r] \/ addr <= re[r]}
  IN  IF stop = {} THEN 0
      ELSE IF addr < rs[Min(stop)] THEN 0 ELSE Min(stop)

\* Mutant: the last byte of a range is not counted.
SecStart_NoLast(rs, re) ==
  LET f[r \in 1..(Len(rs) + 1)] ==
        IF r = 1 THEN 0
        ELSE f[r - 1] + (re[r - 1] - rs[r - 1]) \div SecWords
  IN  f

\* The loop of rangeinit: the index of the first sector of each range, and, as
\* a last element, the number of sectors (seccnt).
SecStart(rs, re) ==
  LET f[r \in 1..(Len(rs) + 1)] ==
        IF r = 1 THEN 0
        ELSE f[r - 1] + (re[r - 1] + 1 - rs[r - 1]) \div SecWords
  IN  f

SECADDR(rs, ss, r, addr) == ss[r] + (addr - rs[r]) \div SecWords
PAGEADDR(rs, ss, r, addr) == ss[r] * SecPages + (addr - rs[r]) \div PageWords
ADDRINPAGE(rs, r, addr) == (addr - rs[r]) % PageWords

\* A layout that addrange accepts without an error, whose ranges are whole
\* sectors: in order, disjoint, aligned.
LayoutOK(rs, re) ==
  /\ rs \in Seq(Nat) /\ re \in Seq(Nat)
  /\ Len(rs) = Len(re) /\ Len(rs) > 0
  /\ \A r \in DOMAIN rs : rs[r] % SecWords = 0 /\ (re[r] + 1) % SecWords = 0
                          /\ rs[r] < re[r]
  /\ \A r \in 1..(Len(rs) - 1) : re[r] < rs[r + 1]
============================================================================
