---------------------------- MODULE FlashSetup -----------------------------
(***************************************************************************)
(* How a test bench sets up the flash model before it runs                 *)
(* (src/modules/cchanflash.cpp): addrange declares the address ranges,     *)
(* rangeinit allocates sectors and pages, preerase and preload give them a *)
(* first content.  Addresses and sizes count bytes.                        *)
(*                                                                         *)
(* The set-up happens before the board changes what SC_REPORT_ERROR does,  *)
(* so a reported error throws and ends it: `failed'.                       *)
(***************************************************************************)
EXTENDS Integers, SequencesExt

CONSTANTS
  PageBytes,      \* 256 in the code
  SecPages,       \* 16 in the code
  WordBytes,      \* 4 in the code
  MaxAddr,        \* bound: addresses are 0..MaxAddr
  MaxRanges,      \* bound: ranges declared
  MaxLoads,       \* bound: calls of preerase and preload
  LoadStarts,     \* the addresses these two are called with
  LoadSizes       \* and the sizes of preload

INSTANCE FlashGeom WITH PageWords <- PageBytes

\* What FlashBoot, which fixes the constants, assumes of them
BoundsAssumption ==
  MaxAddr \in Nat /\ MaxRanges \in Nat /\ MaxLoads \in Nat
  /\ LoadStarts \subseteq 0..MaxAddr /\ LoadSizes \subseteq Nat \ {0}

SizesAssumption ==
  /\ PageBytes \in Nat \ {0} /\ SecPages \in Nat \ {0} /\ WordBytes \in Nat
  /\ WordBytes > 1 /\ PageBytes % WordBytes = 0

VARIABLES rangestart, rangeend, secstart,
          ready,        \* secs # NULL
          secs, pgm, failed,
          loads         \* counts up to MaxLoads

layout == <<rangestart, rangeend, secstart, ready>>
vars == <<layout, secs, pgm, failed, loads>>

Addrs   == 0..MaxAddr
Blank   == 0              \* 0xffffffff
Data(i) == i              \* the i-th word that is loaded; all differ

Init ==
  /\ rangestart = <<>> /\ rangeend = <<>> /\ secstart = <<>>
  /\ ready = FALSE /\ secs = <<>> /\ pgm = <<>>
  /\ failed = FALSE /\ loads = 0

Fail == failed' = TRUE /\ UNCHANGED <<layout, secs, pgm, loads>>

\* Mutant: a range that contains an existing one is not noticed.
Overlaps_NotContaining(s, e, r) ==
  \/ s >= rangestart[r] /\ s <= rangeend[r]
  \/ e >= rangestart[r] /\ e <= rangeend[r]

Overlaps(s, e, r) ==
  \/ s >= rangestart[r] /\ s <= rangeend[r]
  \/ e >= rangestart[r] /\ e <= rangeend[r]
  \/ s < rangestart[r] /\ e > rangeend[r]

\* addrange: the new range goes before the first one that starts later, or at the end.
addrange(s, e) ==
  \/ (ready \/ e <= s \/ \E r \in DOMAIN rangestart : Overlaps(s, e, r)) /\ Fail
  \/ /\ ~ready /\ e > s /\ \A r \in DOMAIN rangestart : ~Overlaps(s, e, r)
     /\ Len(rangestart) < MaxRanges
     /\ LET n  == Len(rangestart) + 1
            at == Min({r \in 1..n : r = n \/ s <= rangestart[r]})
        IN  /\ rangestart' = InsertAt(rangestart, at, s)
            /\ rangeend' = InsertAt(rangeend, at, e)
     /\ UNCHANGED <<secstart, ready, secs, pgm, failed, loads>>

\* rangeinit: one entry per sector and sixteen pages for each, all empty.
rangeinit ==
  LET ss == SecStart(rangestart, rangeend)
      n  == ss[Len(rangestart) + 1]
  IN  \/ (rangestart = <<>> \/ n = 0) /\ Fail
      \/ /\ rangestart # <<>> /\ n > 0
         /\ secstart' = ss
         /\ ready' = TRUE
         /\ secs' = [s \in 0..(n - 1) |-> "UNK"]
         /\ pgm' = [p \in 0..(n * SecPages - 1) |-> <<>>]
         /\ UNCHANGED <<rangestart, rangeend, failed, loads>>

rangeof(a)  == getrange(rangestart, rangeend, a)
sectorof(a) == SECADDR(rangestart, secstart, rangeof(a), a)
pageof(a)   == PAGEADDR(rangestart, secstart, rangeof(a), a)

\* Addresses a..last are in one range.
InOneRange(a, last) == rangeof(a) # 0 /\ last <= rangeend[rangeof(a)]

\* The ranges are whole sectors: rangeinit's division drops the rest of one, and
\* an access to that rest would leave the arrays.
WholeSectors ==
  \A r \in DOMAIN rangestart : (rangeend[r] + 1 - rangestart[r]) % SecWords = 0

\* The device reads a page from the offset of the absolute address, so a range
\* has to start with a page.
PageAligned == \A r \in DOMAIN rangestart : rangestart[r] % PageBytes = 0

\* preerase: the sectors from addr's up to, but without, endaddr's.  An endaddr below
\* the start of the range is left out: nothing checks it, SECADDR wraps around as an
\* unsigned number, and the loop writes far behind the array.
preerase(a, e) ==
  /\ ready /\ WholeSectors /\ PageAligned /\ loads < MaxLoads
  /\ rangeof(a) # 0 => e >= rangestart[rangeof(a)]
  /\ \/ ~InOneRange(a, e) /\ Fail
     \/ /\ InOneRange(a, e)
        /\ LET last == SECADDR(rangestart, secstart, rangeof(a), e)
           IN  secs' = [s \in DOMAIN secs |-> IF s \in sectorof(a)..(last - 1)
                                              THEN "ERS" ELSE secs[s]]
        /\ loads' = loads + 1
        /\ UNCHANGED <<layout, pgm, failed>>

\* The words that preload copies from byte `first' of a page up to `last'.  The
\* word that starts at `last' itself is left out.
Copied(first, last) ==
  IF last > first THEN (last - first + WordBytes - 1) \div WordBytes ELSE 0

\* Mutant: the source is read from its start for every page.
LoadPage_Restart(old, first, last, from) ==
  [w \in 1..(last + 1) |->
     LET k == w - first \div WordBytes
     IN  IF k \in 1..Copied(first, last) THEN Data(k)
         ELSE IF w <= Len(old) THEN old[w] ELSE Blank]

\* One turn of preload's page loop.  The page becomes as many elements long as
\* there are bytes up to the end of the write, which may cut it.  `from' counts
\* the words that earlier turns have taken.
LoadPage(old, first, last, from) ==
  [w \in 1..(last + 1) |->
     LET k == w - first \div WordBytes
     IN  IF k \in 1..Copied(first, last) THEN Data(from + k)
         ELSE IF w <= Len(old) THEN old[w] ELSE Blank]

\* preload: a page per turn, each from the offset that addr has in its page.
\* Every turn but the last fills its page to the end.
preload(a, size) ==
  LET r     == rangeof(a)
      start == a - rangestart[r]
      end   == start + size - 1
      first == start % PageBytes
      turns == 0..((end - start) \div PageBytes)
      pageend(i) == ((start + i * PageBytes) \div PageBytes) * PageBytes + PageBytes - 1
      last(i) == (IF end >= pageend(i) THEN pageend(i) ELSE end) % PageBytes
      from(i) == i * Copied(first, PageBytes - 1)
      lastsec == SECADDR(rangestart, secstart, r, a + size - 1)
  IN  /\ ready /\ WholeSectors /\ PageAligned /\ loads < MaxLoads
      /\ \/ ~InOneRange(a, a + size - 1) /\ Fail
         \/ /\ InOneRange(a, a + size - 1)
            /\ secs' = [s \in DOMAIN secs |-> IF s \in sectorof(a)..lastsec
                                              THEN "PROG" ELSE secs[s]]
            /\ pgm' = [p \in DOMAIN pgm |->
                 LET i == p - pageof(a)
                 IN  IF i \in turns THEN LoadPage(pgm[p], first, last(i), from(i))
                     ELSE pgm[p]]
            /\ loads' = loads + 1
            /\ UNCHANGED <<layout, failed>>

Next ==
  /\ ~failed
  /\ \/ \E s, e \in Addrs : addrange(s, e)
     \/ rangeinit
     \/ \E a \in LoadStarts, e \in Addrs : preerase(a, e)
     \/ \E a \in LoadStarts, n \in LoadSizes : preload(a, n)

Spec == Init /\ [][Next]_vars

----------------------------------------------------------------------------
(* Properties.                                                             *)

\* Every variable has its type, and there are sixteen pages to a sector, none
\* longer than its size in bytes.
TypeOK ==
  /\ rangestart \in Seq(Addrs) /\ rangeend \in Seq(Addrs)
  /\ ready \in BOOLEAN /\ failed \in BOOLEAN
  /\ loads \in 0..MaxLoads
  /\ ready => /\ DOMAIN pgm = 0..(Cardinality(DOMAIN secs) * SecPages - 1)
              /\ \A s \in DOMAIN secs : secs[s] \in {"UNK", "ERS", "PROG"}
              /\ \A p \in DOMAIN pgm : Len(pgm[p]) <= PageBytes

\* Whatever the order in which addrange is called, the ranges stay in order and
\* apart: the assumption behind getrange's early "no legal range".
LayoutOrdered ==
  /\ Len(rangestart) = Len(rangeend)
  /\ \A r \in DOMAIN rangestart : rangestart[r] < rangeend[r]
  /\ \A r \in 1..(Len(rangestart) - 1) : rangeend[r] < rangestart[r + 1]

\* getrange finds the range an address is in, and -1 only if there is none.
GetRangeCorrect ==
  \A a \in Addrs :
    LET holding == {r \in DOMAIN rangestart : a \in rangestart[r]..rangeend[r]}
    IN  holding = IF rangeof(a) = 0 THEN {} ELSE {rangeof(a)}

\* The ranges and the search in them are right after every sequence of calls.
RangesRight == LayoutOrdered /\ GetRangeCorrect

\* After rangeinit, addresses share a page only if they are neighbours within
\* one range, and every sector and page index is inside the arrays.
PagesDistinct ==
  ready /\ WholeSectors =>
    LET legal == {a \in Addrs : rangeof(a) # 0}
    IN  /\ \A a \in legal : sectorof(a) \in DOMAIN secs /\ pageof(a) \in DOMAIN pgm
        /\ \A a, b \in legal :
             pageof(a) = pageof(b) =>
               rangeof(a) = rangeof(b) /\ a - b < PageBytes /\ b - a < PageBytes

\* What the device will send for the word at address a of a programmed sector.
ReadBack(pages, a) ==
  LET page == pages[pageof(a)]
      w    == (a % PageBytes) \div WordBytes + 1
  IN  IF w <= Len(page) THEN page[w] ELSE Blank

\* preload puts the data where the device reads it back: the k-th word of the
\* data is the k-th word from addr on, in every page of the load.
PreloadExact ==
  [][\A a \in LoadStarts, n \in LoadSizes :
       preload(a, n) /\ ~failed' =>
         \A k \in 1..((n + WordBytes - 1) \div WordBytes) :
           ReadBack(pgm', a + (k - 1) * WordBytes) = Data(k)]_vars
============================================================================
