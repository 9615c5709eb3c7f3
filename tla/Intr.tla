-------------------------------- MODULE Intr -------------------------------
(***************************************************************************)
(* Interrupts: the allocator of the SDK (src/esp32sdk/esp32/intr_alloc.cpp)*)
(* and the interrupt matrix of the hardware model (src/modules/espintr.cpp)*)
(* with its method maskupdate and its threads catcher and driver_app.      *)
(*                                                                         *)
(* xPortGetCoreID() is always 1, so only the tables and signals of the     *)
(* application CPU are ever used; those of the other one stay as they are  *)
(* built.  (maskupdate changes both masks in the same way, so the mask of  *)
(* the other CPU, which catcher reads, is the same set.)                   *)
(*                                                                         *)
(* A call of the allocator contains no wait: it is one action, which any   *)
(* task may take at any point of an evaluation phase.  Its critical        *)
(* section is trywait() on a semaphore nobody looks at and is left out.    *)
(***************************************************************************)
EXTENDS Integers, SequencesExt, FiniteSetsExt

CONSTANTS
  Ints,       \* the CPU interrupts that exist in the instance, out of 0..31
  Sources,    \* the interrupt sources; the negative ones are inside the CPU
  Wired,      \* the source whose line is connected: ETS_LEDC_INTR_SOURCE
  Requests,   \* the arguments esp_intr_alloc is called with
  Handles,    \* bound: the handles that can be live together
  None        \* NULL, and "no interrupt"

VARIABLES
  vd,         \* the vector descriptor of each interrupt
  handle,     \* the handles that callers hold
  table,      \* table_app: the interrupt a source is routed to, -1 for none
  handler,    \* handler_app[].fn
  nonIram,    \* non_iram_int_mask
  newmask, setunset, mu,   \* what maskupdate will do, and whether it can run
  mask, mask_n, edge, edge_n, intr, intr_n, line, line_n,   \* signals
  cat,        \* catcher can run
  drv,        \* driver_app can run
  last,       \* its variable last
  dead        \* the program has called a null pointer

soft == <<vd, handle, table, handler, nonIram>>
slot == <<newmask, setunset, mu>>
sigs == <<mask, mask_n, edge, edge_n, intr, intr_n, line, line_n>>
vars == <<soft, slot, sigs, cat, drv, last, dead>>

----------------------------------------------------------------------------
(* The table int_desc, column of the application CPU.                      *)

INT_MUX_DISABLED_INTNO == 6

Level(i) ==
  CASE i = 14 -> 7
    [] i \in {16, 26, 31} -> 5
    [] i \in {24, 25, 28, 30} -> 4
    [] i \in {11, 15, 22, 23, 27, 29} -> 3
    [] i \in {19, 20, 21} -> 2
    [] OTHER -> 1
Type(i) ==
  CASE i \in {10, 22, 28, 30} -> "EDGE"
    [] i \in {6, 7, 11, 15, 16, 29} -> "NA"
    [] OTHER -> "LEVEL"
Reserved == {0, 1, 5, 6, 8, 14, 25, 26, 27, 30, 31}
Special  == {7, 11, 15, 16, 29}

\* The interrupts of the sources inside the CPU.
Forced(s) ==
  CASE s = -1 -> 6 [] s = -2 -> 15 [] s = -3 -> 16
    [] s = -4 -> 7 [] s = -5 -> 29 [] s = -6 -> 11 [] OTHER -> None

Lines == Ints \union {INT_MUX_DISABLED_INTNO}

Muxed == {s \in Sources : s >= 0}

ASSUME IntsAssumption == Ints \subseteq (0..31) \ {INT_MUX_DISABLED_INTNO}
ASSUME NoneAssumption == None \notin Ints
ASSUME SourcesAssumption == Sources \subseteq Int /\ Wired \in Muxed
ASSUME RequestsAssumption ==
  \A q \in Requests :
    /\ q.source \in Sources /\ q.levels \subseteq 1..7
    /\ q.flags \subseteq {"SHARED", "EDGE", "IRAM", "INTRDISABLED"}

Unused == [known |-> FALSE, flags |-> {}, source |-> 0, svds |-> <<>>]

\* maskupdate is not kept from running when the simulation starts and reads its
\* variables before anyone has written them: the first mask is any set.  (Bit 6 is
\* left out: interrupt 6 is reserved and never has a handler.)
Init ==
  /\ vd = [i \in Ints |-> Unused]
  /\ handle = <<>>
  /\ table = [s \in Muxed |-> -1]
  /\ handler = [i \in Ints |-> None]
  /\ nonIram = {}
  /\ newmask = {} /\ setunset = FALSE /\ mu = FALSE
  /\ mask \in SUBSET Ints /\ mask_n = mask
  /\ edge = Ints \intersect {22, 30} /\ edge_n = edge
  /\ intr = {} /\ intr_n = {} /\ line = FALSE /\ line_n = FALSE
  /\ cat = FALSE /\ drv = FALSE /\ last = {}
  /\ dead = FALSE

----------------------------------------------------------------------------
(* Which interrupt a request gets: get_available_int.                      *)

\* The tests on the arguments; levels above 3 take no handler.
ValidArgs(q) ==
  /\ ~({"SHARED", "EDGE"} \subseteq q.flags)
  /\ q.levels \intersect 4..7 # {} => q.fn = None
  /\ "SHARED" \in q.flags => q.fn # None /\ q.source >= 0

\* Without a level: 1 for shared interrupts, 1 to 3 for the others.
Levels(q) ==
  IF q.levels # {} THEN q.levels ELSE IF "SHARED" \in q.flags THEN {1} ELSE 1..3

\* What no allocation changes: the interrupt is of the kind the request wants.
Fits(i, q) ==
  /\ i \notin Reserved
  /\ i \in Special => Forced(q.source) # None
  /\ Level(i) \in Levels(q)
  /\ Type(i) # (IF "EDGE" \in q.flags THEN "LEVEL" ELSE "EDGE")

is_vect_desc_usable(i, q) ==
  LET f == vd[i].flags
  IN  /\ Fits(i, q)
      /\ "NONSHARED" \notin f
      /\ IF "SHARED" \in f
         THEN "SHARED" \in q.flags /\ ("INIRAM" \in f <=> "IRAM" \in q.flags)
         ELSE handler[i] = None

\* The descriptors that find_desc_for_source stops at.  One that is free still
\* has the source of its last unshared owner, or 0 if it never had one.
Matches(i, s) ==
  /\ vd[i].known
  /\ IF "SHARED" \in vd[i].flags
     THEN \E h \in ToSet(vd[i].svds) : handle[h].source = s
     ELSE vd[i].source = s

\* One turn of the loop for a shared request; b is the best so far.  An interrupt that
\* is shared already is better with fewer handlers or a lower level.
Better(b, i) ==
  IF "SHARED" \in vd[i].flags
  THEN IF Len(vd[i].svds) < b.count \/ Level(i) < b.level
       THEN [int |-> i, count |-> Len(vd[i].svds), level |-> Level(i)] ELSE b
  ELSE IF b.int = None THEN [b EXCEPT !.int = i, !.level = Level(i)] ELSE b

\* The loop: best[n] is the best of the interrupts below n.
BestShared(usable) ==
  LET best[n \in 0..32] ==
        IF n = 0 THEN [int |-> None, count |-> Cardinality(Handles) + 1, level |-> 9]
        ELSE IF n - 1 \in usable THEN Better(best[n - 1], n - 1) ELSE best[n - 1]
  IN  best[32].int

\* A descriptor of the source is the only candidate.  Otherwise an unshared
\* request gets the lowest level.
get_available_int(q) ==
  LET s        == q.source
      existing == {i \in Ints : Matches(i, s)}
      usable   == {i \in Ints : is_vect_desc_usable(i, q)}
      lowest   == {i \in usable : \A j \in usable : Level(i) <= Level(j)}
      candidate ==
        IF existing # {} THEN Min(existing)
        ELSE IF Forced(s) # None THEN Forced(s)
        ELSE IF "SHARED" \in q.flags THEN BestShared(usable)
        ELSE IF lowest = {} THEN None ELSE Min(lowest)
  IN  IF candidate \in usable /\ Forced(s) \in {None, candidate} THEN candidate ELSE None

----------------------------------------------------------------------------
(* The calls.                                                              *)

\* ESP_INTR_ENABLE and ESP_INTR_DISABLE: one slot holds what maskupdate is to do.
SetMask(i, on) == newmask' = {i} /\ setunset' = on /\ mu' = TRUE

\* The source of a handle: its shared descriptor's, or else its vector's.
SourceOf(h) == IF handle[h].shared THEN handle[h].source ELSE vd[handle[h].int].source

\* Mutant: the other handlers of the source are not asked.
Alone_Always(h, i, s) == TRUE

\* No other handler of the source that shares the interrupt i is enabled.
Alone(h, i, s) ==
  \A k \in ToSet(vd[i].svds) \ {h} : handle[k].source = s => ~handle[k].on

esp_intr_alloc(h, q) ==
  LET i      == get_available_int(q)
      s      == q.source
      shared == "SHARED" \in q.flags
      off    == "INTRDISABLED" \in q.flags
      iram   == IF "IRAM" \in q.flags THEN {"INIRAM"} ELSE {}
      new    == [int |-> i, source |-> s, shared |-> shared,
                 iram |-> iram # {}, on |-> ~off, fn |-> q.fn]
  IN  /\ h \notin DOMAIN handle
      /\ ValidArgs(q) /\ i # None
      /\ handle' = [k \in DOMAIN handle \union {h} |-> IF k = h THEN new ELSE handle[k]]
      /\ vd' = [vd EXCEPT ![i] =
           IF shared
           THEN [known |-> TRUE, source |-> vd[i].source, svds |-> <<h>> \o vd[i].svds,
                 flags |-> ((vd[i].flags \union {"SHARED"}) \ {"INIRAM"}) \union iram]
           ELSE [known |-> TRUE, source |-> s, svds |-> vd[i].svds,
                 flags |-> {"NONSHARED"} \union iram]]
      /\ handler' = [handler EXCEPT ![i] =
           IF shared THEN "shared_intr_isr" ELSE IF q.fn # None THEN q.fn ELSE @]
      /\ edge_n' = IF "EDGE" \in q.flags THEN edge \union {i} ELSE edge_n
      /\ nonIram' = IF iram # {} THEN nonIram \ {i} ELSE nonIram \union {i}
      /\ table' = IF s < 0 THEN table
                  ELSE [table EXCEPT ![s] = IF off /\ (shared => Alone(h, i, s))
                                            THEN INT_MUX_DISABLED_INTNO ELSE i]
      /\ SetMask(i, ~(off /\ s < 0))
      /\ UNCHANGED <<mask, mask_n, edge, intr, intr_n, line, line_n, cat, drv, last, dead>>

\* What esp_intr_disable does to the matrix or to the mask.
Disconnect(h) ==
  LET i == handle[h].int
      s == SourceOf(h)
  IN  IF s < 0 THEN SetMask(i, FALSE) /\ UNCHANGED table
      ELSE /\ table' = IF handle[h].shared => Alone(h, i, s)
                       THEN [table EXCEPT ![s] = INT_MUX_DISABLED_INTNO] ELSE table
           /\ UNCHANGED slot

esp_intr_disable(h) ==
  /\ h \in DOMAIN handle
  /\ handle' = [handle EXCEPT ![h].on = FALSE]
  /\ Disconnect(h)
  /\ UNCHANGED <<vd, handler, nonIram, sigs, cat, drv, last, dead>>

esp_intr_enable(h) ==
  LET i == handle[h].int
      s == SourceOf(h)
  IN  /\ h \in DOMAIN handle
      /\ handle' = [handle EXCEPT ![h].on = TRUE]
      /\ IF s < 0 THEN SetMask(i, TRUE) /\ UNCHANGED table
         ELSE table' = [table EXCEPT ![s] = i] /\ UNCHANGED slot
      /\ UNCHANGED <<vd, handler, nonIram, sigs, cat, drv, last, dead>>

\* The chain without the shared descriptor of the handle h.
Unlink(svds, h) ==
  IF h \in ToSet(svds) THEN RemoveAt(svds, CHOOSE n \in DOMAIN svds : svds[n] = h) ELSE svds

\* Mutant: the vector stays marked.
esp_intr_free_KeepFlags(h) ==
  LET i    == handle[h].int
      left == IF "SHARED" \in vd[i].flags
              THEN Unlink(vd[i].svds, h) ELSE vd[i].svds
      kill == "NONSHARED" \in vd[i].flags \/ left = <<>>
  IN  /\ h \in DOMAIN handle
      /\ Disconnect(h)
      /\ handle' = [k \in DOMAIN handle \ {h} |-> handle[k]]
      /\ vd' = [vd EXCEPT ![i].svds = left]
      /\ handler' = IF kill THEN [handler EXCEPT ![i] = None] ELSE handler
      /\ nonIram' = IF kill THEN nonIram \ {i} ELSE nonIram
      /\ UNCHANGED <<sigs, cat, drv, last, dead>>

\* Mutant: the handler stays in the table.
esp_intr_free_KeepHandler(h) ==
  LET i    == handle[h].int
      left == IF "SHARED" \in vd[i].flags
              THEN Unlink(vd[i].svds, h) ELSE vd[i].svds
      kill == "NONSHARED" \in vd[i].flags \/ left = <<>>
  IN  /\ h \in DOMAIN handle
      /\ Disconnect(h)
      /\ handle' = [k \in DOMAIN handle \ {h} |-> handle[k]]
      /\ vd' = [vd EXCEPT ![i].svds = left, ![i].flags = IF kill THEN {} ELSE @]
      /\ UNCHANGED handler
      /\ nonIram' = IF kill THEN nonIram \ {i} ELSE nonIram
      /\ UNCHANGED <<sigs, cat, drv, last, dead>>

\* The last one out frees the vector: all its flags are cleared, not its source.
esp_intr_free(h) ==
  LET i    == handle[h].int
      left == IF "SHARED" \in vd[i].flags
              THEN Unlink(vd[i].svds, h) ELSE vd[i].svds
      kill == "NONSHARED" \in vd[i].flags \/ left = <<>>
  IN  /\ h \in DOMAIN handle
      /\ Disconnect(h)
      /\ handle' = [k \in DOMAIN handle \ {h} |-> handle[k]]
      /\ vd' = [vd EXCEPT ![i].svds = left, ![i].flags = IF kill THEN {} ELSE @]
      /\ handler' = IF kill THEN [handler EXCEPT ![i] = None] ELSE handler
      /\ nonIram' = IF kill THEN nonIram \ {i} ELSE nonIram
      /\ UNCHANGED <<sigs, cat, drv, last, dead>>

----------------------------------------------------------------------------
(* The hardware model.                                                     *)

\* What it did is forgotten here: nobody reads the slot again.
maskupdate ==
  /\ mu /\ mu' = FALSE
  /\ newmask' = {} /\ setunset' = FALSE
  /\ mask_n' = IF setunset THEN mask \union newmask ELSE mask \ newmask
  /\ UNCHANGED <<soft, mask, edge, edge_n, intr, intr_n, line, line_n,
                 cat, drv, last, dead>>

\* Mutant: the mask is not applied.
catcher_NoMask ==
  /\ cat /\ cat' = FALSE
  /\ intr_n' = IF line THEN {table[Wired]} ELSE {}
  /\ UNCHANGED <<soft, slot, mask, mask_n, edge, edge_n, intr, line, line_n, drv, last, dead>>

\* catcher routes the line of the one connected source.
catcher ==
  /\ cat /\ cat' = FALSE
  /\ intr_n' = IF line THEN mask \intersect {table[Wired]} ELSE {}
  /\ UNCHANGED <<soft, slot, mask, mask_n, edge, edge_n, intr, line, line_n, drv, last, dead>>

\* The order in which get_next looks at the interrupts, and those it always
\* treats as edges.
Priority == <<14, 16, 26, 31, 24, 25, 28, 30, 11, 15, 22, 23, 27, 29, 19, 20, 21,
              0, 1, 2, 3, 4, 5, 6, 7, 8, 9, 10, 12, 13, 17, 18>>
get_next ==
  LET fires(i) == i \in intr /\ (i \in edge \union {6, 7, 11, 15, 16, 29} => i \notin last)
      next == SelectInSeq(Priority, fires)
  IN  IF next = 0 THEN None ELSE Priority[next]

\* driver_app looks for a handler in handler_app, but calls handler_pro's, which
\* nobody ever sets.
driver_app ==
  /\ drv /\ drv' = FALSE
  /\ last' = intr
  /\ dead' = (get_next # None /\ handler[get_next] # None)
  /\ UNCHANGED <<soft, slot, sigs, cat>>

\* The LED controller changes its interrupt line.
Signal ==
  /\ line_n' = ~line
  /\ line_n = line
  /\ UNCHANGED <<soft, slot, mask, mask_n, edge, edge_n, intr, intr_n, line, cat, drv, last, dead>>

Runnable == mu \/ cat \/ drv
Pending  == mask # mask_n \/ edge # edge_n \/ intr # intr_n \/ line # line_n

\* The signals take their new values and wake the threads that watch them.
EndDelta ==
  /\ ~Runnable /\ Pending
  /\ mask' = mask_n /\ edge' = edge_n /\ intr' = intr_n /\ line' = line_n
  /\ cat' = (mask # mask_n \/ line # line_n)
  /\ drv' = (intr # intr_n)
  /\ UNCHANGED <<soft, slot, mask_n, edge_n, intr_n, line_n, last, dead>>

\* A caller does not ask for an unshared interrupt of a source that is in use.
\* (The allocator is meant to refuse that, but a stale descriptor may hide it.)
Asked(q) == "SHARED" \in q.flags \/ \A h \in DOMAIN handle : handle[h].source # q.source

Calls ==
  \E h \in Handles :
    \/ \E q \in Requests : Asked(q) /\ esp_intr_alloc(h, q)
    \/ esp_intr_enable(h) \/ esp_intr_disable(h) \/ esp_intr_free(h)

Next ==
  /\ ~dead
  /\ \/ Calls
     \/ maskupdate \/ catcher \/ driver_app
     \/ Signal \/ EndDelta

Spec == Init /\ [][Next]_vars

Quiet == ~Runnable /\ ~Pending

----------------------------------------------------------------------------
(* Properties.                                                             *)

Flags == {"SHARED", "NONSHARED", "INIRAM"}
Users(i) == {h \in DOMAIN handle : handle[h].int = i}

\* Every variable has its type; an interrupt is never shared and unshared at once.
TypeOK ==
  /\ \A i \in Ints : vd[i].flags \subseteq Flags /\ vd[i].source \in Sources \union {0}
  /\ \A i \in Ints : ~({"SHARED", "NONSHARED"} \subseteq vd[i].flags)
  /\ DOMAIN handle \subseteq Handles
  /\ table \in [Muxed -> Lines \union {-1}]
  /\ nonIram \subseteq Ints
  /\ mask \subseteq Ints /\ intr \subseteq Ints /\ edge \subseteq Ints

\* The descriptors say who holds what: an unshared interrupt has one handle and
\* a shared one exactly the handles in its chain, each once.
OneOwner ==
  \A i \in Ints :
    /\ "NONSHARED" \in vd[i].flags <=> \E h \in Users(i) : ~handle[h].shared
    /\ "NONSHARED" \in vd[i].flags => \A h, k \in Users(i) : h = k
    /\ "SHARED" \in vd[i].flags <=> vd[i].svds # <<>>
    /\ ToSet(vd[i].svds) = {h \in Users(i) : handle[h].shared}
    /\ IsInjective(vd[i].svds)

\* The handler of an interrupt is the one its owners asked for, and there is
\* none once they have all freed it.
HandlerMatches ==
  \A i \in Ints :
    /\ vd[i].svds # <<>> => handler[i] = "shared_intr_isr"
    /\ \A h \in Users(i) : ~handle[h].shared => handler[i] = handle[h].fn
    /\ Users(i) = {} => handler[i] = None

\* Whatever was allocated and freed before, the descriptors and the handlers of
\* the interrupts are those of the handles in use.
OwnersKnown == OneOwner /\ HandlerMatches

\* A source is routed to the interrupt of every handle that has it enabled, and
\* to none if all its handles are disabled or freed.
Routed ==
  \A s \in Muxed :
    LET on == {h \in DOMAIN handle : handle[h].source = s /\ handle[h].on}
    IN  /\ \A h \in on : table[s] = handle[h].int
        /\ on = {} => table[s] \in {-1, INT_MUX_DISABLED_INTNO}

\* The interrupts to be disabled with the flash are those whose handlers, all
\* of them, are not in IRAM.
IramMask ==
  /\ \A h \in DOMAIN handle : handle[h].int \in nonIram <=> ~handle[h].iram
  /\ \A i \in nonIram : Users(i) # {}

\* When time moves no interrupt is pending that is masked or whose line is low.
MaskHolds == Quiet => intr \subseteq mask /\ (intr # {} => line)

\* Both masks agree with the handles and the lines.
MasksAgree == IramMask /\ MaskHolds

\* No use of an interrupt speaks against it for the request q.
Suits(i, q) == Fits(i, q) /\ Forced(q.source) \in {None, i}

\* The request q is for a source without an interrupt, and one that suits is free.
CanHave(q) ==
  /\ ValidArgs(q)
  /\ \A h \in DOMAIN handle : handle[h].source # q.source
  /\ \E i \in Ints : Suits(i, q) /\ Users(i) = {}

\* "ESP_ERR_NOT_FOUND No free interrupt found with the specified flags"
\* (esp32/esp_intr_alloc.h): the allocator finds an interrupt for a source that has
\* none whenever there is one that nobody uses.  The source that esp_intr_free leaves
\* in a vector breaks that.
FoundIfFree == \A q \in Requests : CanHave(q) => get_available_int(q) # None

\* Whatever was allocated and freed before, nothing else breaks it: the allocator finds
\* an interrupt unless a descriptor that has kept the source does not suit.
FoundUnlessStale ==
  \A q \in Requests :
    CanHave(q) /\ (\A i \in Ints : Matches(i, q.source) => Suits(i, q))
      => get_available_int(q) # None
============================================================================
