----------------------------- MODULE FlashBoot -----------------------------
(***************************************************************************)
(* The flash from its construction to its use: a test bench sets the model *)
(* up (FlashSetup), the simulation starts, and the device serves the calls *)
(* of the tasks from what it finds in its sectors and pages (Flash).       *)
(*                                                                         *)
(* FlashSetup chooses the ranges, and Flash has them as constants: only    *)
(* set-ups that end with the ranges of the constants are started.          *)
(***************************************************************************)
EXTENDS Flash

CONSTANTS
  MaxAddr, MaxRanges, MaxLoads, LoadStarts, LoadSizes,   \* as in FlashSetup
  LoadWord(_)     \* the k-th word that preload is given

ASSUME LoadAssumption == \A k \in 1..(MaxAddr + 1) : LoadWord(k) \in [1..WordBytes -> 0..255]

VARIABLES
  starts, ends, firsts, built, states, pages, failed, loads,   \* the set-up
  started       \* the simulation runs

setup == <<starts, ends, firsts, built, states, pages, failed, loads>>
all   == <<vars, setup, started>>

Setup == INSTANCE FlashSetup WITH
  rangestart <- starts, rangeend <- ends, secstart <- firsts,
  ready <- built, secs <- states, pgm <- pages

ASSUME SetupAssumption == Setup!BoundsAssumption /\ Setup!SizesAssumption

BootInit == Setup!Init /\ Init /\ started = FALSE

\* The test bench calls a function of the set-up.
Prepare == ~started /\ Setup!Next /\ UNCHANGED <<vars, started>>

\* The ranges of the constants, in bytes
Chosen ==
  /\ starts = [r \in DOMAIN rangestart |-> rangestart[r] * WordBytes]
  /\ ends = [r \in DOMAIN rangeend |-> (rangeend[r] + 1) * WordBytes - 1]

\* preerase marks sectors and leaves their pages: words that an earlier preload put
\* there are hidden, and come back with the first write to the sector.  A set-up that
\* preerases what it has loaded is not started.
NothingHidden ==
  \A p \in DOMAIN pages : states[p \div SecPages] # "PROG" => pages[p] = <<>>

\* What Flash calls a word of a page of FlashSetup
AsWord(k) == IF k = Setup!Blank THEN BlankWord ELSE LoadWord(k)

\* The thread flash() starts.  Without rangeinit it stops the simulation; otherwise it
\* works with the sectors and pages as the set-up has left them.  Nobody uses the
\* variables of the set-up from here on.
Start ==
  /\ ~started /\ ~failed
  /\ started' = TRUE
  /\ \/ ~built /\ stopped' = TRUE /\ UNCHANGED <<secs, pgm>>
     \/ /\ built /\ Chosen /\ NothingHidden
        /\ secs' = states
        /\ pgm' = [p \in DOMAIN pages |-> [w \in DOMAIN pages[p] |-> AsWord(pages[p][w])]]
        /\ UNCHANGED stopped
  /\ starts' = <<>> /\ ends' = <<>> /\ firsts' = <<>> /\ built' = FALSE
  /\ states' = <<>> /\ pages' = <<>> /\ loads' = 0
  /\ UNCHANGED <<failed, drv, rx, tx, dpc, cmd, pos, acc, reply>>

\* The board and the device run.
Running == started /\ Next /\ UNCHANGED <<setup, started>>

BootNext == Prepare \/ Start \/ Running

BootSpec == BootInit /\ [][BootNext]_all

----------------------------------------------------------------------------
(* Properties.                                                             *)

\* Whatever the order in which the test bench calls addrange, the ranges are in order
\* and apart, and getrange finds the one an address is in.
RangesRight == Setup!RangesRight

\* After rangeinit addresses share a page only if they are neighbours in one range of
\* whole sectors, and every index is inside the arrays.
PagesDistinct == Setup!PagesDistinct

\* preload puts the data where the device reads it back.
PreloadExact == Setup!PreloadExact
============================================================================
