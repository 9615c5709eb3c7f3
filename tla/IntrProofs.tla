----------------------------- MODULE IntrProofs ----------------------------
(***************************************************************************)
(* Proofs about the interrupts, for every set of interrupts, sources and   *)
(* requests and any number of handles: the descriptors and handlers of the *)
(* allocator are those of the handles in use (OwnersKnown), the mask of    *)
(* the interrupts outside IRAM and the mask of the interrupt matrix hold   *)
(* (MasksAgree), the matrix routes the sources to the interrupts of their  *)
(* enabled handles (Routed), and the allocator finds a free interrupt that *)
(* suits the request unless a stale descriptor hides it (FoundUnlessStale) *)
(* or, for some requests, always (FoundIfFree).                            *)
(***************************************************************************)
EXTENDS Intr, WellFoundedInduction, TLAPS

(***************************************************************************)
(* The pending interrupts                                                  *)
(***************************************************************************)
\* Inductive invariant: what catcher wrote last is right unless it is woken, for a
\* change of the mask or of the line wakes it.
CatchInv == ~cat => intr_n \subseteq mask /\ (intr_n # {} => line)

LEMMA CatchStep == CatchInv /\ [Next]_vars => CatchInv'
<1> SUFFICES ASSUME CatchInv, [Next]_vars PROVE CatchInv'
  OBVIOUS
<1>1. CASE catcher
  BY <1>1 DEF CatchInv, catcher
<1>2. CASE EndDelta
  <2>1. ~cat /\ mask' = mask_n /\ line' = line_n /\ intr_n' = intr_n
    BY <1>2 DEF EndDelta, Runnable
  <2>2. CASE mask = mask_n /\ line = line_n
    BY <2>1, <2>2 DEF CatchInv
  <2>3. CASE ~(mask = mask_n /\ line = line_n)
    BY <1>2, <2>3, Zenon DEF CatchInv, EndDelta
  <2> QED
    BY <2>2, <2>3
<1>3. CASE UNCHANGED <<cat, intr_n, mask, line>>
  BY <1>3 DEF CatchInv
<1>4. CASE Calls
  <2>1. UNCHANGED <<cat, intr_n, mask, line>>
    BY <1>4 DEF Calls, esp_intr_alloc, esp_intr_enable, esp_intr_disable, esp_intr_free, sigs
  <2> QED
    BY <2>1, <1>3
<1> QED
  BY <1>1, <1>2, <1>3, <1>4 DEF Next, vars, sigs, maskupdate, driver_app, Signal

LEMMA MaskAlwaysHolds == Spec => []MaskHolds
<1>1. Init => CatchInv
  BY DEF Init, CatchInv
<1>2. CatchInv => MaskHolds
  BY DEF CatchInv, MaskHolds, Quiet, Runnable, Pending
<1> QED
  BY <1>1, <1>2, CatchStep, PTL DEF Spec

(***************************************************************************)
(* The allocator                                                           *)
(***************************************************************************)
Fns == {q.fn : q \in Requests}

\* The records of the allocator
DescType == [known: BOOLEAN, flags: SUBSET Flags, source: Sources \cup {0}, svds: Seq(Handles)]
HandleType ==
  [int: Ints, source: Sources, shared: BOOLEAN, iram: BOOLEAN, on: BOOLEAN, fn: Fns]

TablesType ==
  /\ vd \in [Ints -> DescType]
  /\ DOMAIN handle \subseteq Handles
  /\ handle \in [DOMAIN handle -> HandleType]
  /\ handler \in [Ints -> Fns \cup {None, "shared_intr_isr"}]
  /\ nonIram \subseteq Ints

\* All handles of an interrupt are in IRAM, or none is, and its flag says so.
IramFlag == \A h \in DOMAIN handle :
  handle[h].iram <=> "INIRAM" \in vd[handle[h].int].flags

\* The inductive invariant
TablesInv == TablesType /\ OneOwner /\ HandlerMatches /\ IramFlag /\ IramMask

LEMMA TablesInit == Init => TablesInv
<1> SUFFICES ASSUME Init PROVE TablesInv
  OBVIOUS
<1>1. handle = <<>> /\ DOMAIN handle = {}
  BY DEF Init
<1>2. Unused \in DescType
  BY DEF Unused, DescType, Flags
<1>3. TablesType
  BY <1>1, <1>2 DEF Init, TablesType
<1>4. OneOwner
  BY <1>1 DEF Init, OneOwner, Unused, Users, ToSet, IsInjective
<1> QED
  BY <1>1, <1>3, <1>4 DEF Init, TablesInv, HandlerMatches, IramFlag, IramMask, Users, Unused

\* The allocator answers with an interrupt that is usable for the request.
LEMMA AvailableIsUsable ==
  ASSUME NEW q, get_available_int(q) # None
  PROVE  get_available_int(q) \in Ints /\ is_vect_desc_usable(get_available_int(q), q)
  BY DEF get_available_int

\* A new link at the head of the chain
LEMMA Linked ==
  ASSUME NEW s \in Seq(Handles), NEW h \in Handles
  PROVE  /\ <<h>> \o s \in Seq(Handles) /\ <<h>> \o s # <<>>
         /\ ToSet(<<h>> \o s) = {h} \cup ToSet(s)
         /\ h \notin ToSet(s) /\ IsInjective(s) => IsInjective(<<h>> \o s)
<1> DEFINE t == <<h>> \o s
<1>1. t \in Seq(Handles) /\ Len(t) = Len(s) + 1 /\ t[1] = h
  OBVIOUS
<1>2. \A n \in 1..Len(s) : t[n + 1] = s[n]
  OBVIOUS
<1>3. \A n \in 2..Len(t) : t[n] = s[n - 1] /\ n - 1 \in 1..Len(s)
  OBVIOUS
<1> HIDE DEF t
<1>4. DOMAIN t = 1..Len(t) /\ DOMAIN s = 1..Len(s) /\ Len(s) \in Nat
  BY <1>1
<1>5. ToSet(t) = {h} \cup ToSet(s)
  BY <1>1, <1>2, <1>3, <1>4 DEF ToSet
<1>6. ASSUME h \notin ToSet(s), IsInjective(s) PROVE IsInjective(t)
  <2> SUFFICES ASSUME NEW a \in 1..Len(t), NEW b \in 1..Len(t), t[a] = t[b], a # b PROVE FALSE
    BY <1>4 DEF IsInjective
  <2>0. \A n \in 2..Len(t) : t[n] # h
    BY <1>3, <1>4, <1>6 DEF ToSet
  <2>1. CASE a = 1 \/ b = 1
    BY <1>1, <1>4, <2>0, <2>1
  <2>2. CASE a # 1 /\ b # 1
    <3>1. s[a - 1] = s[b - 1] /\ a - 1 \in DOMAIN s /\ b - 1 \in DOMAIN s /\ a - 1 # b - 1
      BY <1>1, <1>3, <1>4, <2>2
    <3> QED
      BY <3>1, <1>6 DEF IsInjective
  <2> QED
    BY <2>1, <2>2
<1> QED
  BY <1>1, <1>5, <1>6 DEF t

\* A link is taken out of the chain.
LEMMA Unlinked ==
  ASSUME NEW s \in Seq(Handles), NEW h, IsInjective(s)
  PROVE  /\ Unlink(s, h) \in Seq(Handles)
         /\ ToSet(Unlink(s, h)) = ToSet(s) \ {h}
         /\ IsInjective(Unlink(s, h))
<1>1. CASE h \notin ToSet(s)
  BY <1>1 DEF Unlink
<1>2. CASE h \in ToSet(s)
  <2> DEFINE at == CHOOSE n \in DOMAIN s : s[n] = h
             u == RemoveAt(s, at)
  <2>1. at \in 1..Len(s) /\ s[at] = h /\ Len(s) \in Nat
    BY <1>2 DEF ToSet
  <2> HIDE DEF at
  <2> DEFINE p == SubSeq(s, 1, at - 1)
             r == SubSeq(s, at + 1, Len(s))
  <2>a. p \in Seq(Handles) /\ Len(p) = at - 1 /\ \A n \in 1..(at - 1) : p[n] = s[n]
    BY <2>1
  <2>b. r \in Seq(Handles) /\ Len(r) = Len(s) - at /\ \A n \in 1..(Len(s) - at) : r[n] = s[at + n]
    BY <2>1
  <2>c. u = p \o r
    BY DEF RemoveAt
  <2> HIDE DEF u, p, r
  <2>2. u \in Seq(Handles) /\ Len(u) = Len(s) - 1
    <3>1. u \in Seq(Handles) /\ Len(u) = Len(p) + Len(r)
      BY <2>a, <2>b, <2>c
    <3> QED
      BY <3>1, <2>1, <2>a, <2>b
  <2>3. \A n \in 1..(at - 1) : u[n] = s[n]
    BY <2>1, <2>a, <2>b, <2>c
  <2>4. \A n \in at..(Len(s) - 1) : u[n] = s[n + 1]
    <3> TAKE n \in at..(Len(s) - 1)
    <3>1. u[n] = r[n - (at - 1)] /\ n - (at - 1) \in 1..(Len(s) - at)
      BY <2>1, <2>a, <2>b, <2>c
    <3>2. r[n - (at - 1)] = s[at + (n - (at - 1))] /\ at + (n - (at - 1)) = n + 1
      BY <3>1, <2>1, <2>b
    <3> QED
      BY <3>1, <3>2
  <2>5. DOMAIN u = 1..(Len(s) - 1) /\ DOMAIN s = 1..Len(s)
    BY <2>2, <2>1
  <2>6. \A n \in 1..Len(s) : n # at => \E k \in 1..(Len(s) - 1) : u[k] = s[n]
    <3> TAKE n \in 1..Len(s)
    <3>1. CASE n < at
      BY <3>1, <2>1, <2>3
    <3>2. CASE n > at
      <4>1. n - 1 \in at..(Len(s) - 1) /\ u[n - 1] = s[n]
        BY <3>2, <2>1, <2>4
      <4> QED
        BY <4>1, <2>1
    <3> QED
      BY <3>1, <3>2, <2>1
  <2>7. \A k \in 1..(Len(s) - 1) :
          \E n \in 1..Len(s) : n # at /\ u[k] = s[n] /\ (k < at => n = k) /\ (k >= at => n = k + 1)
    <3> TAKE k \in 1..(Len(s) - 1)
    <3>1. CASE k < at
      BY <3>1, <2>1, <2>3
    <3>2. CASE k >= at
      BY <3>2, <2>1, <2>4
    <3> QED
      BY <3>1, <3>2, <2>1
  <2>8. ToSet(u) = ToSet(s) \ {h}
    <3>1. \A n \in 1..Len(s) : n # at => s[n] # h
      BY <2>1, <2>5 DEF IsInjective
    <3>2. ASSUME NEW x \in ToSet(u) PROVE x \in ToSet(s) \ {h}
      <4>1. PICK k \in 1..(Len(s) - 1) : u[k] = x
        BY <2>5, <3>2 DEF ToSet
      <4>2. PICK n \in 1..Len(s) : n # at /\ u[k] = s[n]
        BY <2>7
      <4> QED
        BY <4>1, <4>2, <3>1, <2>5 DEF ToSet
    <3>3. ASSUME NEW x \in ToSet(s), x # h PROVE x \in ToSet(u)
      <4>1. PICK n \in 1..Len(s) : s[n] = x
        BY <2>5, <3>3 DEF ToSet
      <4>2. PICK k \in 1..(Len(s) - 1) : u[k] = s[n]
        BY <2>1, <2>6, <3>3, <4>1
      <4> QED
        BY <4>1, <4>2, <2>5 DEF ToSet
    <3> QED
      BY <3>2, <3>3
  <2>9. IsInjective(u)
    <3> SUFFICES ASSUME NEW k \in 1..(Len(s) - 1), NEW l \in 1..(Len(s) - 1), u[k] = u[l]
                 PROVE  k = l
      BY <2>5 DEF IsInjective
    <3>1. PICK n \in 1..Len(s) : u[k] = s[n] /\ (k < at => n = k) /\ (k >= at => n = k + 1)
      BY <2>7
    <3>2. PICK m \in 1..Len(s) : u[l] = s[m] /\ (l < at => m = l) /\ (l >= at => m = l + 1)
      BY <2>7
    <3>3. m = n
      BY <3>1, <3>2, <2>5 DEF IsInjective
    <3> QED
      BY <3>1, <3>2, <3>3, <2>1
  <2> QED
    BY <1>2, <2>2, <2>8, <2>9 DEF Unlink, u, at
<1> QED
  BY <1>1, <1>2

\* What the invariant says of an interrupt that a request can have
LEMMA UsableIsFree ==
  ASSUME TablesInv, NEW i \in Ints, NEW q \in Requests, is_vect_desc_usable(i, q)
  PROVE  /\ "NONSHARED" \notin vd[i].flags /\ \A k \in Users(i) : handle[k].shared
         /\ "SHARED" \notin vd[i].flags => Users(i) = {} /\ vd[i].svds = <<>> /\ handler[i] = None
         /\ "SHARED" \in vd[i].flags => "SHARED" \in q.flags /\ ("INIRAM" \in vd[i].flags <=> "IRAM" \in q.flags)
<1>1. "NONSHARED" \notin vd[i].flags /\ \A k \in Users(i) : handle[k].shared
  BY DEF is_vect_desc_usable, TablesInv, OneOwner
<1>2. ASSUME "SHARED" \notin vd[i].flags
      PROVE  Users(i) = {} /\ vd[i].svds = <<>> /\ handler[i] = None
  <2>1. vd[i].svds = <<>> /\ ToSet(vd[i].svds) = Users(i)
    BY <1>1, <1>2 DEF TablesInv, OneOwner
  <2>2. ToSet(<<>>) = {}
    BY DEF ToSet
  <2> QED
    BY <2>1, <2>2 DEF TablesInv, HandlerMatches
<1> QED
  BY <1>1, <1>2 DEF is_vect_desc_usable

LEMMA AllocShared ==
  ASSUME TablesInv, NEW h \in Handles, NEW q \in Requests, esp_intr_alloc(h, q),
         "SHARED" \in q.flags
  PROVE  TablesInv'
<1>0. PICK i : i = get_available_int(q)
  OBVIOUS
<1> DEFINE iram == IF "IRAM" \in q.flags THEN {"INIRAM"} ELSE {}
           new == [int |-> i, source |-> q.source, shared |-> TRUE, iram |-> iram # {},
                   on |-> "INTRDISABLED" \notin q.flags, fn |-> q.fn]
<1>1. h \notin DOMAIN handle /\ i # None
  BY <1>0 DEF esp_intr_alloc
<1>2. i \in Ints /\ is_vect_desc_usable(i, q)
  BY <1>0, <1>1, AvailableIsUsable
<1>3. handle' = [k \in DOMAIN handle \union {h} |-> IF k = h THEN new ELSE handle[k]]
  BY <1>0, Zenon DEF esp_intr_alloc
<1>4. vd' = [vd EXCEPT ![i] =
             [known |-> TRUE, source |-> vd[i].source, svds |-> <<h>> \o vd[i].svds,
              flags |-> ((vd[i].flags \union {"SHARED"}) \ {"INIRAM"}) \union iram]]
  BY <1>0, Zenon DEF esp_intr_alloc
<1>5. handler' = [handler EXCEPT ![i] = "shared_intr_isr"]
  BY <1>0 DEF esp_intr_alloc
<1>6. nonIram' = IF iram # {} THEN nonIram \ {i} ELSE nonIram \union {i}
  BY <1>0 DEF esp_intr_alloc
<1>7. /\ "NONSHARED" \notin vd[i].flags /\ \A k \in Users(i) : handle[k].shared
      /\ "SHARED" \notin vd[i].flags => Users(i) = {} /\ vd[i].svds = <<>>
      /\ "SHARED" \in vd[i].flags => ("INIRAM" \in vd[i].flags <=> "IRAM" \in q.flags)
  BY <1>2, UsableIsFree
<1>8. new \in HandleType
  BY <1>2, RequestsAssumption DEF HandleType, Fns
<1>9. vd[i] \in DescType /\ vd[i].svds \in Seq(Handles) /\ h \notin ToSet(vd[i].svds)
  <2>1. vd[i] \in DescType
    BY <1>2 DEF TablesInv, TablesType
  <2> QED
    BY <1>1, <1>2, <2>1 DEF TablesInv, OneOwner, Users, DescType
<1> DEFINE chain == <<h>> \o vd[i].svds
<1>10. /\ chain \in Seq(Handles) /\ chain # <<>>
       /\ ToSet(chain) = {h} \cup ToSet(vd[i].svds) /\ IsInjective(chain)
  BY <1>2, <1>9, Linked DEF TablesInv, OneOwner
<1>11. vd'[i] \in DescType /\ vd'[i].svds = chain
       /\ vd'[i].flags = ((vd[i].flags \union {"SHARED"}) \ {"INIRAM"}) \union iram
  BY <1>2, <1>4, <1>9, <1>10 DEF DescType, Flags, TablesInv, TablesType
<1>12. \A j \in Ints : j # i => vd'[j] = vd[j] /\ handler'[j] = handler[j]
  BY <1>4, <1>5 DEF TablesInv, TablesType
<1>13. \A j \in Ints : Users(j)' = IF j = i THEN Users(i) \cup {h} ELSE Users(j)
  BY <1>1, <1>3 DEF Users
<1>14. handle'[h] = new /\ \A k \in DOMAIN handle : handle'[k] = handle[k]
  BY <1>1, <1>3
<1> HIDE DEF iram, new, chain
<1>15. TablesType'
  BY <1>2, <1>3, <1>4, <1>5, <1>6, <1>8, <1>11, <1>12 DEF TablesInv, TablesType
<1>16. OneOwner'
  <2> SUFFICES ASSUME NEW j \in Ints
      PROVE  /\ "NONSHARED" \in vd'[j].flags <=> \E k \in Users(j)' : ~handle'[k].shared
             /\ "NONSHARED" \in vd'[j].flags => \A k, l \in Users(j)' : l = k
             /\ "SHARED" \in vd'[j].flags <=> vd'[j].svds # <<>>
             /\ ToSet(vd'[j].svds) = {k \in Users(j)' : handle'[k].shared}
             /\ IsInjective(vd'[j].svds)
    BY DEF OneOwner, Users
  <2>1. CASE j # i
    BY <2>1, <1>12, <1>13, <1>14 DEF TablesInv, OneOwner, Users
  <2>2. CASE j = i
    <3>1. handle'[h].shared
      BY <1>14 DEF new
    <3>2. "NONSHARED" \notin vd'[i].flags /\ "SHARED" \in vd'[i].flags
      BY <1>7, <1>11 DEF iram
    <3>3. ToSet(vd[i].svds) = Users(i)
      BY <1>2, <1>7 DEF TablesInv, OneOwner
    <3>4. \A k \in Users(i)' : handle'[k].shared
      BY <1>2, <1>7, <1>13, <1>14, <3>1 DEF Users
    <3> QED
      BY <2>2, <1>2, <1>10, <1>11, <1>13, <3>2, <3>3, <3>4
  <2> QED
    BY <2>1, <2>2
<1>17. HandlerMatches'
  <2>1. handler'[i] = "shared_intr_isr" /\ handle'[h].shared
    BY <1>2, <1>5, <1>14 DEF TablesInv, TablesType, new
  <2> SUFFICES ASSUME NEW j \in Ints
      PROVE  /\ vd'[j].svds # <<>> => handler'[j] = "shared_intr_isr"
             /\ \A k \in Users(j)' : ~handle'[k].shared => handler'[j] = handle'[k].fn
             /\ Users(j)' = {} => handler'[j] = None
    BY DEF HandlerMatches, Users
  <2>2. CASE j # i
    BY <2>2, <1>12, <1>13, <1>14 DEF TablesInv, HandlerMatches, Users
  <2>3. CASE j = i
    BY <2>1, <2>3, <1>7, <1>13, <1>14 DEF Users
  <2> QED
    BY <2>2, <2>3
<1>18. "INIRAM" \in vd'[i].flags <=> iram # {}
  BY <1>11 DEF iram
<1>19. \A k \in Users(i) : handle[k].iram <=> iram # {}
  BY <1>7 DEF TablesInv, IramFlag, Users, iram
<1>20. handle'[h].int = i /\ (handle'[h].iram <=> iram # {})
  <2>1. new.int = i /\ new.iram = (iram # {})
    BY DEF new
  <2>2. (iram # {}) \in BOOLEAN
    OBVIOUS
  <2> QED
    BY <1>14, <2>1, <2>2, Zenon
<1>21. IramFlag'
  <2> SUFFICES ASSUME NEW k \in DOMAIN handle'
      PROVE  handle'[k].iram <=> "INIRAM" \in vd'[handle'[k].int].flags
    BY DEF IramFlag
  <2>1. CASE k = h
    BY <2>1, <1>18, <1>20
  <2>2. CASE k # h /\ k \in Users(i)
    BY <2>2, <1>14, <1>18, <1>19 DEF Users
  <2>3. CASE k # h /\ k \notin Users(i)
    BY <2>3, <1>3, <1>12, <1>14 DEF TablesInv, TablesType, HandleType, IramFlag, Users
  <2> QED
    BY <2>1, <2>2, <2>3
<1>22. IramMask'
  <2>1. ASSUME NEW k \in DOMAIN handle' PROVE handle'[k].int \in nonIram' <=> ~handle'[k].iram
    <3>1. CASE k = h
      BY <3>1, <1>6, <1>14, <1>20
    <3>2. CASE k # h /\ k \in Users(i)
      BY <3>2, <1>6, <1>14, <1>19 DEF Users
    <3>3. CASE k # h /\ k \notin Users(i)
      BY <3>3, <1>3, <1>6, <1>14 DEF TablesInv, IramMask, Users
    <3> QED
      BY <3>1, <3>2, <3>3
  <2>2. ASSUME NEW j \in nonIram' PROVE Users(j)' # {}
    BY <2>2, <1>2, <1>6, <1>13 DEF TablesInv, TablesType, IramMask
  <2> QED
    BY <2>1, <2>2 DEF IramMask, Users
<1> QED
  BY <1>15, <1>16, <1>17, <1>21, <1>22 DEF TablesInv

LEMMA AllocUnshared ==
  ASSUME TablesInv, NEW h \in Handles, NEW q \in Requests, esp_intr_alloc(h, q),
         "SHARED" \notin q.flags
  PROVE  TablesInv'
<1>0. PICK i : i = get_available_int(q)
  OBVIOUS
<1> DEFINE iram == IF "IRAM" \in q.flags THEN {"INIRAM"} ELSE {}
           new == [int |-> i, source |-> q.source, shared |-> "SHARED" \in q.flags, iram |-> iram # {},
                   on |-> "INTRDISABLED" \notin q.flags, fn |-> q.fn]
<1>1. h \notin DOMAIN handle /\ i # None
  BY <1>0 DEF esp_intr_alloc
<1>2. i \in Ints /\ is_vect_desc_usable(i, q)
  BY <1>0, <1>1, AvailableIsUsable
<1>3. handle' = [k \in DOMAIN handle \union {h} |-> IF k = h THEN new ELSE handle[k]]
  BY <1>0, Zenon DEF esp_intr_alloc
<1>4. vd' = [vd EXCEPT ![i] = [known |-> TRUE, source |-> q.source, svds |-> vd[i].svds,
                               flags |-> {"NONSHARED"} \union iram]]
  BY <1>0 DEF esp_intr_alloc
<1>5. handler' = [handler EXCEPT ![i] = IF q.fn # None THEN q.fn ELSE handler[i]]
  BY <1>0 DEF esp_intr_alloc
<1>6. nonIram' = IF iram # {} THEN nonIram \ {i} ELSE nonIram \union {i}
  BY <1>0 DEF esp_intr_alloc
<1>7. Users(i) = {} /\ vd[i].svds = <<>> /\ handler[i] = None
  BY <1>2, UsableIsFree
<1>8. new \in HandleType
  BY <1>2, RequestsAssumption DEF HandleType, Fns
<1>9. vd'[i] \in DescType /\ vd'[i].svds = <<>> /\ vd'[i].flags = {"NONSHARED"} \cup iram
  BY <1>2, <1>4, <1>7, RequestsAssumption DEF DescType, Flags, TablesInv, TablesType
<1>10. \A j \in Ints : j # i => vd'[j] = vd[j] /\ handler'[j] = handler[j]
  BY <1>4, <1>5 DEF TablesInv, TablesType
<1>11. \A j \in Ints : Users(j)' = IF j = i THEN {h} ELSE Users(j)
  BY <1>1, <1>3, <1>7 DEF Users
<1>12. handle'[h] = new /\ \A k \in DOMAIN handle : handle'[k] = handle[k]
  BY <1>1, <1>3
<1>13. /\ handle'[h].int = i /\ handle'[h].shared = FALSE /\ handle'[h].fn = q.fn
       /\ (handle'[h].iram <=> iram # {})
  <2>1. new.int = i /\ new.iram = (iram # {}) /\ new.shared = ("SHARED" \in q.flags) /\ new.fn = q.fn
    OBVIOUS
  <2>2. (iram # {}) \in BOOLEAN /\ ("SHARED" \in q.flags) = FALSE
    OBVIOUS
  <2> QED
    BY <1>12, <2>1, <2>2, Zenon
<1> HIDE DEF iram, new
<1>14. TablesType'
  BY <1>2, <1>3, <1>4, <1>5, <1>6, <1>8, <1>9, <1>10 DEF TablesInv, TablesType, Fns
<1>15. OneOwner'
  <2> SUFFICES ASSUME NEW j \in Ints
      PROVE  /\ "NONSHARED" \in vd'[j].flags <=> \E k \in Users(j)' : ~handle'[k].shared
             /\ "NONSHARED" \in vd'[j].flags => \A k, l \in Users(j)' : l = k
             /\ "SHARED" \in vd'[j].flags <=> vd'[j].svds # <<>>
             /\ ToSet(vd'[j].svds) = {k \in Users(j)' : handle'[k].shared}
             /\ IsInjective(vd'[j].svds)
    BY DEF OneOwner, Users
  <2>1. CASE j # i
    BY <2>1, <1>10, <1>11, <1>12 DEF TablesInv, OneOwner, Users
  <2>2. CASE j = i
    <3>1. ToSet(<<>>) = {} /\ IsInjective(<<>>)
      BY DEF ToSet, IsInjective
    <3>2. "NONSHARED" \in vd'[i].flags /\ "SHARED" \notin vd'[i].flags
      BY <1>9 DEF iram
    <3> QED
      BY <2>2, <1>2, <1>9, <1>11, <1>13, <3>1, <3>2
  <2> QED
    BY <2>1, <2>2
<1>16. HandlerMatches'
  <2> SUFFICES ASSUME NEW j \in Ints
      PROVE  /\ vd'[j].svds # <<>> => handler'[j] = "shared_intr_isr"
             /\ \A k \in Users(j)' : ~handle'[k].shared => handler'[j] = handle'[k].fn
             /\ Users(j)' = {} => handler'[j] = None
    BY DEF HandlerMatches, Users
  <2>1. CASE j # i
    BY <2>1, <1>10, <1>11, <1>12 DEF TablesInv, HandlerMatches, Users
  <2>2. CASE j = i
    <3>1. handler'[i] = q.fn
      BY <1>2, <1>5, <1>7 DEF TablesInv, TablesType
    <3> QED
      BY <2>2, <1>2, <1>9, <1>11, <1>13, <3>1
  <2> QED
    BY <2>1, <2>2
<1>17. IramFlag'
  <2>1. "INIRAM" \in vd'[i].flags <=> iram # {}
    BY <1>9 DEF iram
  <2> SUFFICES ASSUME NEW k \in DOMAIN handle'
      PROVE  handle'[k].iram <=> "INIRAM" \in vd'[handle'[k].int].flags
    BY DEF IramFlag
  <2>2. CASE k = h
    BY <2>1, <2>2, <1>13
  <2>3. CASE k # h
    BY <2>3, <1>3, <1>7, <1>10, <1>12 DEF TablesInv, TablesType, HandleType, IramFlag, Users
  <2> QED
    BY <2>2, <2>3
<1>18. IramMask'
  <2>1. ASSUME NEW k \in DOMAIN handle' PROVE handle'[k].int \in nonIram' <=> ~handle'[k].iram
    <3>1. CASE k = h
      BY <3>1, <1>6, <1>13
    <3>2. CASE k # h
      BY <3>2, <1>3, <1>6, <1>7, <1>12 DEF TablesInv, IramMask, Users
    <3> QED
      BY <3>1, <3>2
  <2>2. ASSUME NEW j \in nonIram' PROVE Users(j)' # {}
    BY <2>2, <1>2, <1>6, <1>11 DEF TablesInv, TablesType, IramMask
  <2> QED
    BY <2>1, <2>2 DEF IramMask, Users
<1> QED
  BY <1>14, <1>15, <1>16, <1>17, <1>18 DEF TablesInv

\* esp_intr_enable and esp_intr_disable change nothing but whether a handle is enabled.
LEMMA SwitchKeeps ==
  ASSUME TablesInv, NEW h \in DOMAIN handle, NEW b \in BOOLEAN,
         handle' = [handle EXCEPT ![h].on = b], UNCHANGED <<vd, handler, nonIram>>
  PROVE  TablesInv'
<1>1. handle \in [DOMAIN handle -> HandleType]
  BY DEF TablesInv, TablesType
<1>2. DOMAIN handle' = DOMAIN handle /\ handle' \in [DOMAIN handle' -> HandleType]
  BY <1>1 DEF HandleType
<1>3. \A k \in DOMAIN handle :
        /\ handle'[k].int = handle[k].int /\ handle'[k].shared = handle[k].shared
        /\ handle'[k].fn = handle[k].fn /\ handle'[k].iram = handle[k].iram
  BY <1>1 DEF HandleType
<1>4. \A j : Users(j)' = Users(j)
  BY <1>2, <1>3 DEF Users
<1>5. TablesType'
  BY <1>2 DEF TablesInv, TablesType
<1>6. OneOwner'
  BY <1>3, <1>4 DEF TablesInv, OneOwner, Users
<1>7. HandlerMatches'
  BY <1>3, <1>4 DEF TablesInv, HandlerMatches, Users
<1>8. IramFlag' /\ IramMask'
  BY <1>2, <1>3, <1>4 DEF TablesInv, IramFlag, IramMask
<1> QED
  BY <1>5, <1>6, <1>7, <1>8 DEF TablesInv

LEMMA FreeKeeps ==
  ASSUME TablesInv, NEW h \in Handles, esp_intr_free(h)
  PROVE  TablesInv'
<1>0. PICK i : i = handle[h].int
  OBVIOUS
<1>1. PICK left : left = IF "SHARED" \in vd[i].flags THEN Unlink(vd[i].svds, h) ELSE vd[i].svds
  OBVIOUS
<1> DEFINE kill == "NONSHARED" \in vd[i].flags \/ left = <<>>
<1>2. h \in DOMAIN handle /\ handle' = [k \in DOMAIN handle \ {h} |-> handle[k]]
  BY DEF esp_intr_free
<1>3. vd' = [vd EXCEPT ![i] = [vd[i] EXCEPT !.svds = left, !.flags = IF kill THEN {} ELSE vd[i].flags]]
  BY <1>0, <1>1 DEF esp_intr_free
<1>4. handler' = IF kill THEN [handler EXCEPT ![i] = None] ELSE handler
  BY <1>0, <1>1 DEF esp_intr_free
<1>5. nonIram' = IF kill THEN nonIram \ {i} ELSE nonIram
  BY <1>0, <1>1 DEF esp_intr_free
<1>6. i \in Ints /\ vd[i] \in DescType /\ vd \in [Ints -> DescType]
  BY <1>0, <1>2 DEF TablesInv, TablesType, HandleType
<1>7. h \in Users(i)
  BY <1>0, <1>2 DEF Users
\* An unshared interrupt has this owner alone; the owners of a shared one are its chain.
<1>8. /\ "NONSHARED" \in vd[i].flags =>
           Users(i) = {h} /\ "SHARED" \notin vd[i].flags /\ vd[i].svds = <<>>
      /\ "NONSHARED" \notin vd[i].flags =>
           "SHARED" \in vd[i].flags /\ ToSet(vd[i].svds) = Users(i) /\ \A k \in Users(i) : handle[k].shared
  <2>1. ASSUME "NONSHARED" \in vd[i].flags
        PROVE  Users(i) = {h} /\ "SHARED" \notin vd[i].flags /\ vd[i].svds = <<>>
    <3>1. Users(i) = {h} /\ ~handle[h].shared
      BY <1>6, <1>7, <2>1 DEF TablesInv, OneOwner
    <3>2. ToSet(vd[i].svds) = {}
      BY <1>6, <3>1 DEF TablesInv, OneOwner
    <3>3. vd[i].svds = <<>>
      <4>1. vd[i].svds \in Seq(Handles)
        BY <1>6 DEF DescType
      <4>2. \A t \in Seq(Handles) : t # <<>> => 1 \in DOMAIN t
        OBVIOUS
      <4> QED
        BY <3>2, <4>1, <4>2 DEF ToSet
    <3> QED
      BY <1>6, <3>1, <3>3 DEF TablesInv, OneOwner
  <2>2. ASSUME "NONSHARED" \notin vd[i].flags
        PROVE  "SHARED" \in vd[i].flags /\ ToSet(vd[i].svds) = Users(i) /\ \A k \in Users(i) : handle[k].shared
    <3>1. \A k \in Users(i) : handle[k].shared
      BY <1>6, <2>2 DEF TablesInv, OneOwner
    <3>2. ToSet(vd[i].svds) = Users(i)
      BY <1>6, <3>1 DEF TablesInv, OneOwner
    <3>3. vd[i].svds # <<>>
      BY <1>7, <3>2 DEF ToSet
    <3> QED
      BY <1>6, <3>1, <3>2, <3>3 DEF TablesInv, OneOwner
  <2> QED
    BY <2>1, <2>2
<1>9. left \in Seq(Handles) /\ ToSet(left) = ToSet(vd[i].svds) \ {h} /\ IsInjective(left)
  <2>1. vd[i].svds \in Seq(Handles) /\ IsInjective(vd[i].svds)
    BY <1>6 DEF DescType, TablesInv, OneOwner
  <2>2. CASE "SHARED" \in vd[i].flags
    BY <1>1, <2>1, <2>2, Unlinked
  <2>3. CASE "SHARED" \notin vd[i].flags
    BY <1>1, <1>8, <2>1, <2>3 DEF ToSet
  <2> QED
    BY <2>2, <2>3
<1>10. left = <<>> <=> ToSet(left) = {}
  BY <1>9 DEF ToSet
\* The interrupt is released exactly when nobody is left.
<1>11. kill <=> Users(i) \ {h} = {}
  BY <1>8, <1>9, <1>10
<1>12. vd'[i] \in DescType /\ vd'[i].svds = left /\ vd'[i].flags = IF kill THEN {} ELSE vd[i].flags
  BY <1>3, <1>6, <1>9 DEF DescType
<1>13. \A j \in Ints : j # i => vd'[j] = vd[j] /\ handler'[j] = handler[j]
  BY <1>3, <1>4, <1>6 DEF TablesInv, TablesType
<1>14. \A j \in Ints : Users(j)' = IF j = i THEN Users(i) \ {h} ELSE Users(j)
  BY <1>0, <1>2 DEF Users
<1>15. \A k \in DOMAIN handle' : handle'[k] = handle[k] /\ k \in DOMAIN handle /\ k # h
  BY <1>2
<1> HIDE DEF kill
<1>16. TablesType'
  <2>1. vd' \in [Ints -> DescType]
    BY <1>3, <1>6, <1>12, <1>13
  <2>2. handle' \in [DOMAIN handle' -> HandleType] /\ DOMAIN handle' \subseteq Handles
    BY <1>2, <1>15 DEF TablesInv, TablesType
  <2> QED
    BY <1>4, <1>5, <2>1, <2>2 DEF TablesInv, TablesType
<1>17. OneOwner'
  <2> SUFFICES ASSUME NEW j \in Ints
      PROVE  /\ "NONSHARED" \in vd'[j].flags <=> \E k \in Users(j)' : ~handle'[k].shared
             /\ "NONSHARED" \in vd'[j].flags => \A k, l \in Users(j)' : l = k
             /\ "SHARED" \in vd'[j].flags <=> vd'[j].svds # <<>>
             /\ ToSet(vd'[j].svds) = {k \in Users(j)' : handle'[k].shared}
             /\ IsInjective(vd'[j].svds)
    BY DEF OneOwner, Users
  <2>0. \A k \in Users(j)' : handle'[k] = handle[k]
    BY <1>15 DEF Users
  <2>1. CASE j # i
    <3>1. Users(j)' = Users(j) /\ vd'[j] = vd[j]
      BY <2>1, <1>13, <1>14
    <3> QED
      BY <2>0, <3>1 DEF TablesInv, OneOwner
  <2>2. CASE j = i /\ kill
    <3>1. Users(i)' = {} /\ vd'[i].flags = {} /\ vd'[i].svds = left /\ IsInjective(left)
      BY <2>2, <1>6, <1>9, <1>11, <1>12, <1>14
    <3>2. ToSet(left) = {} /\ left = <<>>
      BY <2>2, <1>8, <1>9, <1>10, <1>11 DEF kill, ToSet
    <3> QED
      BY <2>2, <3>1, <3>2
  <2>3. CASE j = i /\ ~kill
    <3>1. "NONSHARED" \notin vd[i].flags /\ left # <<>>
      BY <2>3 DEF kill
    <3>2. Users(i)' = Users(i) \ {h} /\ vd'[i].flags = vd[i].flags /\ vd'[i].svds = left
      BY <2>3, <1>6, <1>12, <1>14
    <3>3. "SHARED" \in vd[i].flags /\ ToSet(left) = Users(i)' /\ \A k \in Users(i)' : handle'[k].shared
      BY <2>0, <2>3, <3>1, <3>2, <1>8, <1>9
    <3> QED
      BY <2>3, <3>1, <3>2, <3>3, <1>9
  <2> QED
    BY <2>1, <2>2, <2>3
<1>18. HandlerMatches'
  <2> SUFFICES ASSUME NEW j \in Ints
      PROVE  /\ vd'[j].svds # <<>> => handler'[j] = "shared_intr_isr"
             /\ \A k \in Users(j)' : ~handle'[k].shared => handler'[j] = handle'[k].fn
             /\ Users(j)' = {} => handler'[j] = None
    BY DEF HandlerMatches, Users
  <2>0. \A k \in Users(j)' : handle'[k] = handle[k]
    BY <1>15 DEF Users
  <2>1. CASE j # i
    <3>1. Users(j)' = Users(j) /\ vd'[j] = vd[j] /\ handler'[j] = handler[j]
      BY <2>1, <1>13, <1>14
    <3> QED
      BY <2>0, <3>1 DEF TablesInv, HandlerMatches
  <2>2. CASE j = i /\ kill
    <3>1. Users(i)' = {} /\ handler'[i] = None /\ vd'[i].svds = left
      BY <2>2, <1>4, <1>6, <1>11, <1>12, <1>14 DEF TablesInv, TablesType
    <3>2. left = <<>>
      BY <2>2, <1>8, <1>9, <1>10, <1>11 DEF kill, ToSet
    <3> QED
      BY <2>2, <3>1, <3>2
  <2>3. CASE j = i /\ ~kill
    <3>1. handler'[i] = handler[i] /\ vd[i].svds # <<>> /\ Users(i)' # {}
          /\ \A k \in Users(i)' : handle'[k].shared
      BY <2>0, <2>3, <1>4, <1>6, <1>8, <1>11, <1>14 DEF TablesInv, OneOwner, kill
    <3> QED
      BY <2>3, <3>1 DEF TablesInv, HandlerMatches
  <2> QED
    BY <2>1, <2>2, <2>3
<1>19. ASSUME NEW k \in DOMAIN handle' PROVE kill => handle'[k].int # i
  BY <1>11, <1>15 DEF Users
<1>20. IramFlag'
  <2> SUFFICES ASSUME NEW k \in DOMAIN handle'
      PROVE  handle'[k].iram <=> "INIRAM" \in vd'[handle'[k].int].flags
    BY DEF IramFlag
  <2>1. vd'[handle'[k].int].flags = vd[handle'[k].int].flags
    BY <1>12, <1>13, <1>15, <1>19 DEF TablesInv, TablesType, HandleType
  <2> QED
    BY <2>1, <1>15 DEF TablesInv, IramFlag
<1>21. IramMask'
  <2>1. ASSUME NEW k \in DOMAIN handle' PROVE handle'[k].int \in nonIram' <=> ~handle'[k].iram
    BY <1>5, <1>15, <1>19 DEF TablesInv, IramMask
  <2>2. ASSUME NEW j \in nonIram' PROVE Users(j)' # {}
    BY <2>2, <1>5, <1>11, <1>14 DEF TablesInv, TablesType, IramMask
  <2> QED
    BY <2>1, <2>2 DEF IramMask, Users
<1> QED
  BY <1>16, <1>17, <1>18, <1>20, <1>21 DEF TablesInv

LEMMA TablesStep == TablesInv /\ [Next]_vars => TablesInv'
<1> SUFFICES ASSUME TablesInv, [Next]_vars PROVE TablesInv'
  OBVIOUS
<1>1. ASSUME NEW h \in Handles, NEW q \in Requests, esp_intr_alloc(h, q) PROVE TablesInv'
  BY <1>1, AllocShared, AllocUnshared
<1>2. ASSUME NEW h \in Handles, esp_intr_enable(h) \/ esp_intr_disable(h) PROVE TablesInv'
  <2>1. h \in DOMAIN handle /\ UNCHANGED <<vd, handler, nonIram>>
    BY <1>2 DEF esp_intr_enable, esp_intr_disable
  <2>2. \E b \in BOOLEAN : handle' = [handle EXCEPT ![h].on = b]
    BY <1>2 DEF esp_intr_enable, esp_intr_disable
  <2> QED
    BY <2>1, <2>2, SwitchKeeps
<1>3. ASSUME NEW h \in Handles, esp_intr_free(h) PROVE TablesInv'
  BY <1>3, FreeKeeps
<1>4. CASE UNCHANGED soft
  BY <1>4 DEF soft, TablesInv, TablesType, OneOwner, HandlerMatches, IramFlag, IramMask, Users
<1> QED
  BY <1>1, <1>2, <1>3, <1>4
    DEF Next, Calls, vars, maskupdate, catcher, driver_app, Signal, EndDelta

LEMMA TablesAlways == Spec => []TablesInv
  BY TablesInit, TablesStep, PTL DEF Spec

(***************************************************************************)
(* The tables and the masks                                                *)
(***************************************************************************)
\* After any sequence of esp_intr_alloc, esp_intr_enable, esp_intr_disable and
\* esp_intr_free the vector descriptors list exactly the handles in use, an unshared
\* interrupt has one, and the handler table holds what they asked for.
THEOREM OwnersAreKnown == Spec => []OwnersKnown
<1>1. TablesInv => OwnersKnown
  BY DEF TablesInv, OwnersKnown
<1> QED
  BY <1>1, TablesAlways, PTL

\* non_iram_int_mask names exactly the interrupts in use whose handlers are not in
\* IRAM, and when time moves no interrupt is pending that is masked or whose line is low.
THEOREM MasksAlwaysAgree == Spec => []MasksAgree
<1>1. TablesInv => IramMask
  BY DEF TablesInv
<1>2. IramMask /\ MaskHolds => MasksAgree
  BY DEF MasksAgree
<1> QED
  BY <1>1, <1>2, TablesAlways, MaskAlwaysHolds, PTL

(***************************************************************************)
(* The routing of the sources                                              *)
(***************************************************************************)
\* Every source is asked for either always shared or never, and source 0 never
\* shared.  The routing needs both: esp_intr_free leaves the source of an unshared
\* owner in the vector, and a vector that was only shared has source 0, so that
\* find_desc_for_source may take a freed vector for that of a source which has
\* another one.
OneWay ==
  /\ \A p, q \in Requests : p.source = q.source => ("SHARED" \in p.flags <=> "SHARED" \in q.flags)
  /\ \A q \in Requests : "SHARED" \in q.flags => q.source # 0

SharedSources == {q.source : q \in {r \in Requests : "SHARED" \in r.flags}}
OwnSources    == {q.source : q \in {r \in Requests : "SHARED" \notin r.flags}}

\* A handle has a source of its kind, and the vector of an unshared one has its source.
Sourced ==
  \A h \in DOMAIN handle :
    IF handle[h].shared THEN handle[h].source \in SharedSources
    ELSE /\ handle[h].source \in OwnSources
         /\ vd[handle[h].int].source = handle[h].source

\* All handles of a source have one interrupt, and an unshared source has one handle.
OneInt ==
  \A h, k \in DOMAIN handle : handle[h].source = handle[k].source =>
    handle[h].int = handle[k].int /\ (handle[h].shared \/ h = k)

\* The inductive invariant
RouteInv ==
  /\ TablesInv
  /\ table \in [Muxed -> Lines \cup {-1}]
  /\ \A i \in Ints : vd[i].source \in OwnSources \cup {0}
  /\ \A h \in DOMAIN handle : vd[handle[h].int].known
  /\ Sourced /\ OneInt /\ Routed

LEMMA Numbers == (\A i \in Ints : i \in Int) /\ \A s \in Muxed : s \in Int /\ ~(s < 0)
<1>1. \A i \in Ints : i \in 0..31
  BY IntsAssumption, Zenon
<1>2. \A i \in 0..31 : i \in Int
  OBVIOUS
<1>3. \A s \in Muxed : s \in Int /\ s >= 0
  BY SourcesAssumption, Zenon DEF Muxed
<1>4. \A s \in Int : s >= 0 => ~(s < 0)
  OBVIOUS
<1> QED
  BY <1>1, <1>2, <1>3, <1>4, Zenon

LEMMA RouteInit == Init => RouteInv
<1> SUFFICES ASSUME Init PROVE RouteInv
  OBVIOUS
<1>1. handle = <<>> /\ DOMAIN handle = {}
  BY DEF Init
<1>2. table \in [Muxed -> Lines \cup {-1}] /\ \A s \in Muxed : table[s] = -1
  BY DEF Init
<1>3. \A i \in Ints : vd[i].source \in OwnSources \cup {0}
  BY DEF Init, Unused
<1>4. Routed
  BY <1>1, <1>2 DEF Routed
<1> QED
  BY <1>1, <1>2, <1>3, <1>4, TablesInit DEF RouteInv, Sourced, OneInt

\* A shared source belongs to no unshared request and to no freed vector.
LEMMA KindsDiffer ==
  ASSUME OneWay, NEW s \in SharedSources
  PROVE  s \notin OwnSources /\ s # 0 /\ s \in Sources
  BY RequestsAssumption DEF OneWay, SharedSources, OwnSources

\* The handles of a source are the chain of their interrupt, or one unshared handle.
LEMMA Chained ==
  ASSUME TablesInv, OneInt, NEW h \in DOMAIN handle, NEW k \in DOMAIN handle,
         handle[k].source = handle[h].source
  PROVE  IF handle[h].shared
         THEN k \in ToSet(vd[handle[h].int].svds) ELSE k = h
<1>1. handle[h].int = handle[k].int /\ (handle[h].shared \/ h = k) /\ (handle[k].shared \/ h = k)
  BY DEF OneInt
<1>2. handle[h].int \in Ints
  BY DEF TablesInv, TablesType, HandleType
<1> QED
  BY <1>1, <1>2 DEF TablesInv, OneOwner, Users

\* A new handle of a source that has handles gets the interrupt that they have.
LEMMA SameInterrupt ==
  ASSUME RouteInv, OneWay, NEW q \in Requests, Asked(q), get_available_int(q) # None,
         NEW k \in DOMAIN handle, handle[k].source = q.source
  PROVE  get_available_int(q) = handle[k].int /\ "SHARED" \in q.flags /\ handle[k].shared
<1> DEFINE i == handle[k].int
           s == q.source
<1>1. "SHARED" \in q.flags /\ s \in SharedSources
  BY DEF Asked, SharedSources
<1>2. s \notin OwnSources /\ s # 0
  BY <1>1, KindsDiffer
<1>3. handle[k].shared
  BY <1>2 DEF RouteInv, Sourced
<1>4. i \in Ints /\ k \in ToSet(vd[i].svds) /\ "SHARED" \in vd[i].flags
  <2>1. i \in Ints /\ k \in Users(i)
    BY DEF RouteInv, TablesInv, TablesType, HandleType, Users
  <2>2. k \in ToSet(vd[i].svds)
    BY <1>3, <2>1 DEF RouteInv, TablesInv, OneOwner
  <2> QED
    BY <2>1, <2>2 DEF RouteInv, TablesInv, OneOwner, ToSet
<1>5. Matches(i, s)
  BY <1>4 DEF Matches, RouteInv
<1>6. ASSUME NEW j \in Ints, Matches(j, s) PROVE j = i
  <2>1. "SHARED" \in vd[j].flags
    BY <1>2, <1>6 DEF Matches, RouteInv
  <2>2. PICK l \in ToSet(vd[j].svds) : handle[l].source = s
    BY <1>6, <2>1 DEF Matches
  <2>3. l \in DOMAIN handle /\ handle[l].int = j
    BY <2>2 DEF RouteInv, TablesInv, OneOwner, Users
  <2> QED
    BY <2>2, <2>3 DEF RouteInv, OneInt
<1>7. {j \in Ints : Matches(j, s)} = {i}
  BY <1>4, <1>5, <1>6
<1>8. Min({i}) = i
  <2>1. i \in Int
    BY <1>4, Numbers
  <2> QED
    BY <2>1 DEF Min
<1>9. get_available_int(q) = Min({j \in Ints : Matches(j, s)})
  BY <1>7 DEF get_available_int
<1> QED
  BY <1>1, <1>3, <1>7, <1>8, <1>9

\* Alone asks every other handle of the source.
LEMMA AloneIsAlone ==
  ASSUME TablesInv, OneInt, NEW h \in DOMAIN handle, handle[h].shared => Alone(h, handle[h].int, handle[h].source)
  PROVE  \A k \in DOMAIN handle : handle[k].source = handle[h].source /\ k # h => ~handle[k].on
<1> TAKE k \in DOMAIN handle
<1> HAVE handle[k].source = handle[h].source /\ k # h
<1>1. handle[h].shared /\ k \in ToSet(vd[handle[h].int].svds)
  BY Chained
<1> QED
  BY <1>1 DEF Alone

LEMMA RouteAlloc ==
  ASSUME RouteInv, OneWay, NEW h \in Handles, NEW q \in Requests, Asked(q), esp_intr_alloc(h, q)
  PROVE  RouteInv'
<1>0. PICK i : i = get_available_int(q)
  OBVIOUS
<1> DEFINE s == q.source
           shared == "SHARED" \in q.flags
           off == "INTRDISABLED" \in q.flags
           iram == IF "IRAM" \in q.flags THEN {"INIRAM"} ELSE {}
           new == [int |-> i, source |-> s, shared |-> shared, iram |-> iram # {},
                   on |-> ~off, fn |-> q.fn]
<1>1. h \notin DOMAIN handle /\ i # None
  BY <1>0 DEF esp_intr_alloc
<1>2. i \in Ints /\ s \in Sources /\ (shared => s \in SharedSources) /\ (~shared => s \in OwnSources)
  BY <1>0, <1>1, AvailableIsUsable, RequestsAssumption DEF SharedSources, OwnSources
<1>3. handle' = [k \in DOMAIN handle \union {h} |-> IF k = h THEN new ELSE handle[k]]
  BY <1>0, Zenon DEF esp_intr_alloc
<1>4. table' = IF s < 0 THEN table
               ELSE [table EXCEPT ![s] = IF off /\ (shared => Alone(h, i, s))
                                         THEN INT_MUX_DISABLED_INTNO ELSE i]
  BY <1>0, Zenon DEF esp_intr_alloc
<1>5. TablesInv'
  BY AllocShared, AllocUnshared DEF RouteInv
<1>6. \A k \in DOMAIN handle : handle[k].source = s => handle[k].int = i /\ shared /\ handle[k].shared
  BY <1>0, <1>1, SameInterrupt
<1>7. /\ vd'[i].known /\ vd'[i].source = IF shared THEN vd[i].source ELSE s
      /\ \A j \in Ints : j # i => vd'[j] = vd[j]
  <2>1. vd \in [Ints -> DescType]
    BY DEF RouteInv, TablesInv, TablesType
  <2>2. CASE shared
    <3>1. vd' = [vd EXCEPT ![i] =
             [known |-> TRUE, source |-> vd[i].source, svds |-> <<h>> \o vd[i].svds,
              flags |-> ((vd[i].flags \union {"SHARED"}) \ {"INIRAM"}) \union iram]]
      BY <1>0, <2>2, Zenon DEF esp_intr_alloc
    <3> QED
      BY <1>2, <2>1, <2>2, <3>1
  <2>3. CASE ~shared
    <3>1. vd' = [vd EXCEPT ![i] = [known |-> TRUE, source |-> s, svds |-> vd[i].svds,
                                   flags |-> {"NONSHARED"} \union iram]]
      BY <1>0, <2>3 DEF esp_intr_alloc
    <3> QED
      BY <1>2, <2>1, <2>3, <3>1
  <2> QED
    BY <2>2, <2>3
<1>8. /\ handle'[h].int = i /\ handle'[h].source = s
      /\ (handle'[h].shared <=> shared) /\ (handle'[h].on <=> ~off)
      /\ DOMAIN handle' = DOMAIN handle \cup {h}
      /\ \A k \in DOMAIN handle : handle'[k] = handle[k] /\ k # h
  <2>1. new.int = i /\ new.source = s /\ new.shared = shared /\ new.on = ~off
    OBVIOUS
  <2>2. handle'[h] = new /\ DOMAIN handle' = DOMAIN handle \cup {h}
        /\ \A k \in DOMAIN handle : handle'[k] = handle[k] /\ k # h
    BY <1>1, <1>3
  <2> HIDE DEF new
  <2> QED
    BY <2>1, <2>2, Zenon
<1> HIDE DEF new, iram
\* An unshared request gets an interrupt that nobody has.
<1>9. ~shared => \A k \in DOMAIN handle : handle[k].int # i
  BY <1>0, <1>1, AvailableIsUsable, UsableIsFree DEF RouteInv, Users
<1>10. \A k \in DOMAIN handle : handle[k].int \in Ints
  BY DEF RouteInv, TablesInv, TablesType, HandleType
<1>11. \A j \in Ints : vd'[j].source \in OwnSources \cup {0}
  BY <1>2, <1>7 DEF RouteInv
<1>12. \A k \in DOMAIN handle' : vd'[handle'[k].int].known
  BY <1>7, <1>8, <1>10 DEF RouteInv
<1>13. Sourced'
  <2> SUFFICES ASSUME NEW k \in DOMAIN handle'
      PROVE  IF handle'[k].shared THEN handle'[k].source \in SharedSources
             ELSE /\ handle'[k].source \in OwnSources
                  /\ vd'[handle'[k].int].source = handle'[k].source
    BY DEF Sourced, SharedSources, OwnSources
  <2>1. CASE k = h
    BY <2>1, <1>2, <1>7, <1>8
  <2>2. CASE k # h /\ handle[k].int # i
    BY <2>2, <1>7, <1>8, <1>10 DEF RouteInv, Sourced
  <2>3. CASE k # h /\ handle[k].int = i
    BY <2>3, <1>7, <1>8, <1>9 DEF RouteInv, Sourced
  <2> QED
    BY <2>1, <2>2, <2>3
<1>14. OneInt'
  <2> SUFFICES ASSUME NEW k \in DOMAIN handle', NEW l \in DOMAIN handle',
                      handle'[k].source = handle'[l].source
      PROVE  handle'[k].int = handle'[l].int /\ (handle'[k].shared \/ k = l)
    BY DEF OneInt
  <2> QED
    BY <1>6, <1>8 DEF RouteInv, OneInt
<1>15. table' \in [Muxed -> Lines \cup {-1}] /\ \A r \in Muxed : r # s => table'[r] = table[r]
  BY <1>2, <1>4 DEF RouteInv, Lines
<1>16. s \in Muxed => table'[s] = IF off /\ (shared => Alone(h, i, s)) THEN INT_MUX_DISABLED_INTNO ELSE i
  <2>1. s \in Muxed => ~(s < 0)
    BY Numbers
  <2>2. table \in [Muxed -> Lines \cup {-1}]
    BY DEF RouteInv
  <2> QED
    BY <1>4, <2>1, <2>2
<1>17. off /\ (shared => Alone(h, i, s)) => \A k \in DOMAIN handle : handle[k].source = s => ~handle[k].on
  <2> SUFFICES ASSUME off, shared => Alone(h, i, s), NEW k \in DOMAIN handle, handle[k].source = s
      PROVE  ~handle[k].on
    OBVIOUS
  <2>1. k \in ToSet(vd[i].svds) /\ k # h /\ shared
    BY <1>1, <1>6, Chained DEF RouteInv
  <2> QED
    BY <2>1 DEF Alone
<1>18. Routed'
  <2> SUFFICES ASSUME NEW r \in Muxed
      PROVE  LET on == {k \in DOMAIN handle' : handle'[k].source = r /\ handle'[k].on}
             IN  /\ \A k \in on : table'[r] = handle'[k].int
                 /\ on = {} => table'[r] \in {-1, INT_MUX_DISABLED_INTNO}
    BY DEF Routed, Muxed
  <2>1. CASE r # s
    BY <2>1, <1>8, <1>15 DEF RouteInv, Routed
  <2>2. CASE r = s /\ off /\ (shared => Alone(h, i, s))
    BY <2>2, <1>8, <1>16, <1>17
  <2>3. CASE r = s /\ ~off
    BY <2>3, <1>6, <1>8, <1>16
  <2>4. CASE r = s /\ off /\ ~(shared => Alone(h, i, s))
    <3>1. table'[r] = i /\ \A k \in DOMAIN handle : handle[k].source = s => handle[k].int = i
      BY <2>4, <1>6, <1>16
    <3>2. PICK k \in ToSet(vd[i].svds) \ {h} : handle[k].source = s /\ handle[k].on
      BY <2>4 DEF Alone
    <3>3. k \in DOMAIN handle
      BY <1>2, <3>2 DEF RouteInv, TablesInv, OneOwner, Users
    <3> QED
      BY <2>4, <3>1, <3>2, <3>3, <1>8
  <2> QED
    BY <2>1, <2>2, <2>3, <2>4
<1> QED
  BY <1>5, <1>11, <1>12, <1>13, <1>14, <1>15, <1>18 DEF RouteInv, OwnSources, Muxed, Lines

\* SourceOf finds the source a handle was allocated for.
LEMMA SourceFound == RouteInv => \A h \in DOMAIN handle : SourceOf(h) = handle[h].source
  BY DEF RouteInv, Sourced, SourceOf

\* What Disconnect does to the table: no other source is touched, and that of the
\* handle is cut off only if none of its other handles is enabled.
LEMMA Disconnected ==
  ASSUME RouteInv, NEW h \in DOMAIN handle, Disconnect(h)
  PROVE  LET s == handle[h].source
         IN  /\ table' \in [Muxed -> Lines \cup {-1}]
             /\ \A r \in Muxed : r # s => table'[r] = table[r]
             /\ s \in Muxed =>
                  \/ /\ table'[s] = INT_MUX_DISABLED_INTNO
                     /\ \A k \in DOMAIN handle : handle[k].source = s /\ k # h => ~handle[k].on
                  \/ /\ table'[s] = table[s]
                     /\ \E k \in DOMAIN handle : handle[k].source = s /\ k # h /\ handle[k].on
<1> DEFINE s == handle[h].source
           i == handle[h].int
           cut == handle[h].shared => Alone(h, i, s)
<1>1. SourceOf(h) = s
  BY SourceFound
<1>2. table' = IF ~(s < 0) /\ cut THEN [table EXCEPT ![s] = INT_MUX_DISABLED_INTNO] ELSE table
  BY <1>1 DEF Disconnect
<1>3. table \in [Muxed -> Lines \cup {-1}] /\ INT_MUX_DISABLED_INTNO \in Lines
  BY DEF RouteInv, Lines
<1>4. s \in Muxed => ~(s < 0)
  BY Numbers
<1>5. cut => \A k \in DOMAIN handle : handle[k].source = s /\ k # h => ~handle[k].on
  BY AloneIsAlone DEF RouteInv
<1>6. ~cut => \E k \in DOMAIN handle : handle[k].source = s /\ k # h /\ handle[k].on
  <2> SUFFICES ASSUME ~cut PROVE \E k \in DOMAIN handle : handle[k].source = s /\ k # h /\ handle[k].on
    OBVIOUS
  <2>1. PICK k \in ToSet(vd[i].svds) \ {h} : handle[k].source = s /\ handle[k].on
    BY DEF Alone
  <2>2. i \in Ints
    BY DEF RouteInv, TablesInv, TablesType, HandleType
  <2>3. k \in DOMAIN handle
    BY <2>1, <2>2 DEF RouteInv, TablesInv, OneOwner, Users
  <2> QED
    BY <2>1, <2>3
<1> HIDE DEF s, cut
<1>7. table' \in [Muxed -> Lines \cup {-1}] /\ \A r \in Muxed : r # s => table'[r] = table[r]
  BY <1>2, <1>3
<1>8. s \in Muxed => table'[s] = IF cut THEN INT_MUX_DISABLED_INTNO ELSE table[s]
  BY <1>2, <1>3, <1>4
<1> QED
  BY <1>5, <1>6, <1>7, <1>8 DEF s

LEMMA RouteDisable == ASSUME RouteInv, NEW h \in Handles, esp_intr_disable(h) PROVE RouteInv'
<1> DEFINE s == handle[h].source
<1>1. /\ h \in DOMAIN handle /\ handle' = [handle EXCEPT ![h].on = FALSE]
      /\ Disconnect(h) /\ UNCHANGED <<vd, handler, nonIram>>
  BY DEF esp_intr_disable
<1>2. TablesInv'
  BY <1>1, SwitchKeeps DEF RouteInv
<1>3. /\ DOMAIN handle' = DOMAIN handle /\ ~handle'[h].on
      /\ \A k \in DOMAIN handle :
           /\ handle'[k].int = handle[k].int /\ handle'[k].shared = handle[k].shared
           /\ handle'[k].source = handle[k].source /\ (k # h => handle'[k].on = handle[k].on)
  BY <1>1 DEF RouteInv, TablesInv, TablesType, HandleType
<1>4. Sourced' /\ OneInt'
  BY <1>1, <1>3 DEF RouteInv, Sourced, OneInt, SharedSources, OwnSources
<1>5. Routed'
  <2> SUFFICES ASSUME NEW r \in Muxed
      PROVE  LET on == {k \in DOMAIN handle' : handle'[k].source = r /\ handle'[k].on}
             IN  /\ \A k \in on : table'[r] = handle'[k].int
                 /\ on = {} => table'[r] \in {-1, INT_MUX_DISABLED_INTNO}
    BY DEF Routed, Muxed
  <2>1. CASE r # s
    BY <1>1, <1>3, <2>1, Disconnected DEF RouteInv, Routed
  <2>2. CASE r = s
    BY <1>1, <1>3, <2>2, Disconnected DEF RouteInv, Routed
  <2> QED
    BY <2>1, <2>2
<1> QED
  BY <1>1, <1>2, <1>3, <1>4, <1>5, Disconnected DEF RouteInv, OwnSources, Muxed, Lines

LEMMA RouteEnable == ASSUME RouteInv, NEW h \in Handles, esp_intr_enable(h) PROVE RouteInv'
<1> DEFINE s == handle[h].source
           i == handle[h].int
<1>1. /\ h \in DOMAIN handle /\ handle' = [handle EXCEPT ![h].on = TRUE]
      /\ UNCHANGED <<vd, handler, nonIram>>
  BY DEF esp_intr_enable
<1>2. TablesInv'
  BY <1>1, SwitchKeeps DEF RouteInv
<1>3. /\ DOMAIN handle' = DOMAIN handle /\ handle'[h].on
      /\ \A k \in DOMAIN handle :
           /\ handle'[k].int = handle[k].int /\ handle'[k].shared = handle[k].shared
           /\ handle'[k].source = handle[k].source /\ (k # h => handle'[k].on = handle[k].on)
  BY <1>1 DEF RouteInv, TablesInv, TablesType, HandleType
<1>4. Sourced' /\ OneInt'
  BY <1>1, <1>3 DEF RouteInv, Sourced, OneInt, SharedSources, OwnSources
<1>5. table' = IF s < 0 THEN table ELSE [table EXCEPT ![s] = i]
  BY <1>1, SourceFound DEF esp_intr_enable
<1>6. table \in [Muxed -> Lines \cup {-1}] /\ i \in Lines
  BY <1>1 DEF RouteInv, Lines, TablesInv, TablesType, HandleType
<1>7. table' \in [Muxed -> Lines \cup {-1}] /\ \A r \in Muxed : r # s => table'[r] = table[r]
  BY <1>5, <1>6
<1>8. s \in Muxed => table'[s] = i
  BY <1>5, <1>6, Numbers
<1>9. \A k \in DOMAIN handle : handle[k].source = s => handle[k].int = i
  BY <1>1 DEF RouteInv, OneInt
<1>10. Routed'
  <2> SUFFICES ASSUME NEW r \in Muxed
      PROVE  LET on == {k \in DOMAIN handle' : handle'[k].source = r /\ handle'[k].on}
             IN  /\ \A k \in on : table'[r] = handle'[k].int
                 /\ on = {} => table'[r] \in {-1, INT_MUX_DISABLED_INTNO}
    BY DEF Routed, Muxed
  <2>1. CASE r # s
    BY <1>1, <1>3, <1>7, <2>1 DEF RouteInv, Routed
  <2>2. CASE r = s
    BY <1>1, <1>3, <1>8, <1>9, <2>2
  <2> QED
    BY <2>1, <2>2
<1> QED
  BY <1>1, <1>2, <1>3, <1>4, <1>7, <1>10 DEF RouteInv, OwnSources, Muxed, Lines

LEMMA RouteFree == ASSUME RouteInv, NEW h \in Handles, esp_intr_free(h) PROVE RouteInv'
<1> DEFINE s == handle[h].source
           i == handle[h].int
<1>1. h \in DOMAIN handle /\ handle' = [k \in DOMAIN handle \ {h} |-> handle[k]] /\ Disconnect(h)
  BY DEF esp_intr_free
<1>2. TablesInv'
  BY FreeKeeps DEF RouteInv
<1>3. DOMAIN handle' = DOMAIN handle \ {h} /\ \A k \in DOMAIN handle' : handle'[k] = handle[k]
  BY <1>1
<1>4. vd \in [Ints -> DescType] /\ \A k \in DOMAIN handle : handle[k].int \in Ints
  BY DEF RouteInv, TablesInv, TablesType, HandleType
<1>5. \A j \in Ints : vd'[j].source = vd[j].source /\ vd'[j].known = vd[j].known
  <2>1. \E left, flags : vd' = [vd EXCEPT ![i] = [vd[i] EXCEPT !.svds = left, !.flags = flags]]
    BY DEF esp_intr_free
  <2>2. PICK left, flags : vd' = [vd EXCEPT ![i] = [vd[i] EXCEPT !.svds = left, !.flags = flags]]
    BY <2>1
  <2> QED
    BY <1>1, <1>4, <2>2 DEF DescType
<1>6. Sourced' /\ OneInt'
  BY <1>3, <1>4, <1>5 DEF RouteInv, Sourced, OneInt, SharedSources, OwnSources
<1>7. Routed'
  <2> SUFFICES ASSUME NEW r \in Muxed
      PROVE  LET on == {k \in DOMAIN handle' : handle'[k].source = r /\ handle'[k].on}
             IN  /\ \A k \in on : table'[r] = handle'[k].int
                 /\ on = {} => table'[r] \in {-1, INT_MUX_DISABLED_INTNO}
    BY DEF Routed, Muxed
  <2>0. /\ r # s => table'[r] = table[r]
        /\ r = s =>
             \/ /\ table'[r] = INT_MUX_DISABLED_INTNO
                /\ \A k \in DOMAIN handle : handle[k].source = r /\ k # h => ~handle[k].on
             \/ /\ table'[r] = table[r]
                /\ \E k \in DOMAIN handle : handle[k].source = r /\ k # h /\ handle[k].on
    BY <1>1, Disconnected
  <2>1. CASE r # s
    BY <1>3, <2>0, <2>1 DEF RouteInv, Routed
  <2>2. CASE r = s
    BY <1>3, <2>0, <2>2 DEF RouteInv, Routed
  <2> QED
    BY <2>1, <2>2
<1> QED
  BY <1>1, <1>2, <1>3, <1>4, <1>5, <1>6, <1>7, Disconnected DEF RouteInv, OwnSources, Muxed, Lines

LEMMA RouteStep == OneWay /\ RouteInv /\ [Next]_vars => RouteInv'
<1> SUFFICES ASSUME OneWay, RouteInv, [Next]_vars PROVE RouteInv'
  OBVIOUS
<1>1. CASE Calls
  BY <1>1, RouteAlloc, RouteEnable, RouteDisable, RouteFree DEF Calls
<1>2. CASE UNCHANGED soft
  <2>1. TablesInv'
    BY <1>2 DEF RouteInv, soft, TablesInv, TablesType, OneOwner, HandlerMatches, IramFlag, IramMask, Users
  <2> QED
    BY <1>2, <2>1 DEF soft, RouteInv, Sourced, OneInt, Routed, OwnSources, SharedSources, Muxed, Lines
<1> QED
  BY <1>1, <1>2 DEF Next, vars, maskupdate, catcher, driver_app, Signal, EndDelta

\* If every source is always or never shared, and source 0 never, the interrupt matrix
\* routes a source to the interrupt of each of its enabled handles after any sequence of
\* esp_intr_alloc, esp_intr_enable, esp_intr_disable and esp_intr_free, and to none once
\* they are all disabled or freed.
THEOREM AlwaysRouted == OneWay /\ Spec => []Routed
<1>1. RouteInv => Routed
  BY DEF RouteInv
<1>2. OneWay => OneWay'
  BY DEF OneWay
<1> QED
  BY <1>1, <1>2, RouteInit, RouteStep, PTL DEF Spec

(***************************************************************************)
(* The search for an interrupt                                             *)
(***************************************************************************)
\* A set of naturals that is not empty has a least element.
LEMMA LeastNat ==
  ASSUME NEW T, T \subseteq Nat, T # {}
  PROVE  \E x \in T : \A y \in T : x <= y
<1> DEFINE R == {ss \in Nat \X Nat : ss[1] < ss[2]}
<1>1. IsWellFoundedOn(R, Nat)
  BY NatLessThanWellFounded DEF OpToRel
<1>2. PICK x \in T : \A y \in T : ~(<<y, x>> \in R)
  <2> HIDE DEF R
  <2> QED
    BY <1>1, WFMin
<1>3. ASSUME NEW y \in T PROVE x <= y
  <2>1. <<y, x>> \notin R /\ y \in Nat /\ x \in Nat
    BY <1>2
  <2>2. ~(y < x)
    BY <2>1
  <2> QED
    BY <2>1, <2>2
<1> QED
  BY <1>3

LEMMA MinIn ==
  ASSUME NEW T, T \subseteq Ints, T # {}
  PROVE  Min(T) \in T
<1>1. T \subseteq Nat
  BY IntsAssumption
<1>2. PICK x \in T : \A y \in T : x <= y
  BY <1>1, LeastNat
<1> QED
  BY <1>2 DEF Min

\* The equation of the loop over the interrupts below n.
LoopTo(n, z, U, g) ==
  [k \in 0..n |-> IF k = 0 THEN z ELSE IF k - 1 \in U THEN Better(g[k - 1], k - 1) ELSE g[k - 1]]

LEMMA LoopExists ==
  ASSUME NEW n \in Nat, NEW z, NEW U
  PROVE  \E g : g = LoopTo(n, z, U, g)
<1> DEFINE Loop(g, k) == IF k = 0 THEN z ELSE IF k - 1 \in U THEN Better(g[k - 1], k - 1) ELSE g[k - 1]
           Good(m) == \E g : g = [k \in 0..m |-> Loop(g, k)]
           T == {m \in Nat : ~Good(m)}
<1>1. Good(0)
  <2> DEFINE e == [k \in 0..0 |-> z]
  <2>1. e = [k \in 0..0 |-> Loop(e, k)]
    OBVIOUS
  <2> QED
    BY <2>1
<1>2. ASSUME NEW m \in Nat, Good(m) PROVE Good(m + 1)
  <2>1. PICK g : g = [k \in 0..m |-> Loop(g, k)]
    BY <1>2
  <2> DEFINE h == [k \in 0..(m + 1) |-> Loop(g, k)]
  <2>2. \A k \in 0..m : h[k] = g[k]
    BY <2>1
  <2>3. ASSUME NEW k \in 0..(m + 1), k # 0 PROVE h[k - 1] = g[k - 1]
    <3>1. k - 1 \in 0..m
      BY <2>3
    <3> HIDE DEF h
    <3> QED
      BY <2>2, <3>1
  <2>4. \A k \in 0..(m + 1) : Loop(g, k) = Loop(h, k)
    <3> HIDE DEF h
    <3> QED
      BY <2>3
  <2>5. h = [k \in 0..(m + 1) |-> Loop(h, k)]
    <3> HIDE DEF Loop
    <3> QED
      BY <2>4
  <2> HIDE DEF h, Loop
  <2> QED
    BY <2>5
<1> HIDE DEF Good
<1>3. T = {}
  <2> SUFFICES ASSUME T # {} PROVE FALSE
    OBVIOUS
  <2>1. PICK m \in T : \A j \in T : m <= j
    BY LeastNat
  <2>2. m \in Nat /\ ~Good(m) /\ m # 0
    BY <1>1, <2>1
  <2>3. m - 1 \in Nat /\ m - 1 \notin T
    BY <2>1, <2>2
  <2>4. Good(m - 1)
    BY <2>3
  <2>5. Good((m - 1) + 1)
    BY <1>2, <2>3, <2>4
  <2> QED
    BY <2>2, <2>5
<1>4. Good(n)
  BY <1>3
<1> QED
  BY <1>4 DEF Good, LoopTo

\* What the loop computes, turn by turn.
LEMMA LoopTurns ==
  ASSUME NEW U
  PROVE  \E best : /\ BestShared(U) = best[32].int
                   /\ best[0] = [int |-> None, count |-> Cardinality(Handles) + 1, level |-> 9]
                   /\ \A n \in 0..31 : best[n + 1] = IF n \in U THEN Better(best[n], n) ELSE best[n]
<1> DEFINE z == [int |-> None, count |-> Cardinality(Handles) + 1, level |-> 9]
           P(g) == g = [n \in 0..32 |-> IF n = 0 THEN z
                                        ELSE IF n - 1 \in U THEN Better(g[n - 1], n - 1) ELSE g[n - 1]]
           best == CHOOSE g : P(g)
<1>1. BestShared(U) = best[32].int
  BY DEF BestShared
<1> HIDE DEF z
<1>2. \E g : P(g)
  <2>1. 32 \in Nat
    OBVIOUS
  <2>2. PICK g : g = LoopTo(32, z, U, g)
    BY <2>1, LoopExists, Zenon
  <2>3. P(g)
    BY <2>2, Zenon DEF LoopTo
  <2> HIDE DEF P
  <2> QED
    BY <2>3
<1> HIDE DEF P
<1>3. P(best)
  BY <1>2
<1> HIDE DEF best
<1>4. \A n \in 0..32 : best[n] = IF n = 0 THEN z
                                 ELSE IF n - 1 \in U THEN Better(best[n - 1], n - 1) ELSE best[n - 1]
  BY <1>3 DEF P
<1>5. best[0] = z
  BY <1>4
<1>6. ASSUME NEW n \in 0..31 PROVE best[n + 1] = IF n \in U THEN Better(best[n], n) ELSE best[n]
  <2>1. n + 1 \in 0..32 /\ n + 1 # 0 /\ (n + 1) - 1 = n
    OBVIOUS
  <2> QED
    BY <1>4, <2>1
<1> QED
  BY <1>1, <1>5, <1>6 DEF z

\* An interrupt that the loop has taken it keeps or gives up for another one.
LEMMA BetterKeeps ==
  ASSUME NEW b, NEW U, NEW n \in U, U \subseteq Ints,
         \/ b.int \in U
         \/ b = [int |-> None, count |-> Cardinality(Handles) + 1, level |-> 9]
  PROVE  Better(b, n).int \in U
<1>1. n \in 0..31 /\ n # None
  BY IntsAssumption, NoneAssumption
<1>2. Level(n) \in 1..7
  BY <1>1 DEF Level
<1>3. CASE "SHARED" \in vd[n].flags
  <2>1. CASE b.int \in U
    BY <1>3, <2>1 DEF Better
  <2>2. CASE b = [int |-> None, count |-> Cardinality(Handles) + 1, level |-> 9]
    <3>1. Level(n) < b.level
      BY <1>2, <2>2
    <3>2. Better(b, n) = [int |-> n, count |-> Len(vd[n].svds), level |-> Level(n)]
      BY <1>3, <3>1, Zenon DEF Better
    <3> QED
      BY <3>2
  <2> QED
    BY <2>1, <2>2
<1>4. CASE "SHARED" \notin vd[n].flags
  <2>1. CASE b.int = None
    <3>1. b = [int |-> None, count |-> Cardinality(Handles) + 1, level |-> 9]
      BY <2>1, NoneAssumption
    <3>2. Better(b, n) = [b EXCEPT !.int = n, !.level = Level(n)]
      BY <1>4, <2>1, Zenon DEF Better
    <3> QED
      BY <3>1, <3>2
  <2>2. CASE b.int # None
    <3>1. b.int \in U
      BY <2>2
    <3>2. Better(b, n) = b
      BY <1>4, <2>2, Zenon DEF Better
    <3> QED
      BY <3>1, <3>2
  <2> QED
    BY <2>1, <2>2
<1> QED
  BY <1>3, <1>4

\* The loop for a shared request finds one of the interrupts that are usable.
LEMMA BestIn ==
  ASSUME NEW U, U \subseteq Ints, U # {}
  PROVE  BestShared(U) \in U
<1> DEFINE z == [int |-> None, count |-> Cardinality(Handles) + 1, level |-> 9]
<1>1. PICK best : /\ BestShared(U) = best[32].int
                  /\ best[0] = z
                  /\ \A n \in 0..31 : best[n + 1] = IF n \in U THEN Better(best[n], n) ELSE best[n]
  BY LoopTurns, Zenon
<1> HIDE DEF z
<1> DEFINE Found(n) == best[n].int \in U \/ (best[n] = z /\ \A i \in U : i >= n)
           T == {n \in 0..32 : ~Found(n)}
<1>2. U \subseteq 0..31
  BY IntsAssumption
<1>3. Found(0)
  BY <1>1, <1>2
<1>4. ASSUME NEW n \in 0..31, Found(n) PROVE Found(n + 1)
  <2>1. CASE n \in U
    <3>1. Better(best[n], n).int \in U
      BY <1>4, <2>1, BetterKeeps, Zenon DEF z
    <3> QED
      BY <1>1, <2>1, <3>1
  <2>2. CASE n \notin U
    <3>1. best[n + 1] = best[n]
      BY <1>1, <2>2
    <3>2. (\A i \in U : i >= n) => \A i \in U : i >= n + 1
      BY <1>2, <2>2
    <3> QED
      BY <1>4, <3>1, <3>2
  <2> QED
    BY <2>1, <2>2
<1>5. T = {}
  <2> SUFFICES ASSUME T # {} PROVE FALSE
    OBVIOUS
  <2> HIDE DEF Found
  <2>1. PICK m \in T : \A j \in T : m <= j
    <3>1. T \subseteq Nat
      OBVIOUS
    <3> QED
      BY <3>1, LeastNat
  <2>2. m \in 1..32 /\ ~Found(m)
    BY <1>3, <2>1
  <2>3. m - 1 \in 0..31 /\ m - 1 \notin T
    BY <2>1, <2>2
  <2>4. Found(m - 1)
    BY <2>3
  <2>5. Found((m - 1) + 1)
    BY <1>4, <2>3, <2>4
  <2>6. (m - 1) + 1 = m
    BY <2>2
  <2> QED
    BY <2>2, <2>5, <2>6
<1>6. Found(32)
  <2> HIDE DEF Found
  <2> QED
    BY <1>5
<1>7. ~ \A i \in U : i >= 32
  <2>1. PICK i \in U : TRUE
    OBVIOUS
  <2>2. i \in 0..31
    BY <1>2
  <2>3. ~(i >= 32)
    BY <2>2
  <2> QED
    BY <2>1, <2>3
<1> QED
  BY <1>1, <1>6, <1>7

\* An unshared request finds one of the lowest level.
LEMMA LowestIn ==
  ASSUME NEW U, U \subseteq Ints, U # {}
  PROVE  LET lowest == {i \in U : \A j \in U : Level(i) <= Level(j)} IN lowest # {} /\ Min(lowest) \in U
<1> DEFINE lowest == {i \in U : \A j \in U : Level(i) <= Level(j)}
           T == {Level(i) : i \in U}
<1>1. \A i \in U : Level(i) \in Nat
  <2> SUFFICES ASSUME NEW i \in U PROVE Level(i) \in Nat
    OBVIOUS
  <2>1. i \in 0..31
    BY IntsAssumption
  <2> QED
    BY <2>1 DEF Level
<1>2. T \subseteq Nat /\ T # {}
  BY <1>1
<1>3. PICK l \in T : \A k \in T : l <= k
  BY <1>2, LeastNat, Zenon
<1>4. PICK i \in U : l = Level(i)
  BY <1>3
<1>5. lowest # {}
  <2>1. \A j \in U : Level(j) \in T
    OBVIOUS
  <2>2. i \in lowest
    BY <1>3, <1>4, <2>1
  <2> QED
    BY <2>2
<1>6. lowest \subseteq Ints /\ lowest \subseteq U
  OBVIOUS
<1> HIDE DEF lowest
<1>7. Min(lowest) \in lowest
  BY <1>5, <1>6, MinIn, Zenon
<1> QED
  BY <1>5, <1>6, <1>7 DEF lowest

(***************************************************************************)
(* Free interrupts are found                                               *)
(***************************************************************************)
\* The requests for a source that is not shared ask for the same levels and the same
\* kind of interrupt, and none is for source 0.  Both are needed: a freed vector keeps
\* the source of its last unshared owner, or source 0, and is then the only candidate for
\* that source, whether it fits the next request or not.
OneKind ==
  /\ \A p, q \in Requests : p.source = q.source /\ "SHARED" \notin q.flags =>
       Levels(p) = Levels(q) /\ ("EDGE" \in p.flags <=> "EDGE" \in q.flags)
  /\ \A q \in Requests : q.source # 0

\* A source that a vector keeps is that of a request which the interrupt fits.
KeptFits ==
  \A i \in Ints : vd[i].source # 0 =>
    \E q \in Requests :
      "SHARED" \notin q.flags /\ q.source = vd[i].source /\ Fits(i, q) /\ Forced(q.source) \in {None, i}

LEMMA KeptInit == Init => KeptFits
<1> SUFFICES ASSUME Init, NEW i \in Ints PROVE vd[i].source = 0
  BY DEF KeptFits
<1>1. vd[i] = Unused
  BY DEF Init
<1> QED
  BY <1>1 DEF Unused

LEMMA KeptAlloc ==
  ASSUME RouteInv, KeptFits, NEW h \in Handles, NEW q \in Requests, esp_intr_alloc(h, q)
  PROVE  KeptFits'
<1>1. PICK i : i = get_available_int(q)
  OBVIOUS
<1>2. i # None
  BY <1>1 DEF esp_intr_alloc
<1>3. i \in Ints /\ Fits(i, q) /\ Forced(q.source) \in {None, i}
  BY <1>1, <1>2 DEF get_available_int, is_vect_desc_usable
<1> DEFINE d == IF "SHARED" \in q.flags
                THEN [known |-> TRUE, source |-> vd[i].source, svds |-> <<h>> \o vd[i].svds,
                      flags |-> ((vd[i].flags \union {"SHARED"}) \ {"INIRAM"})
                                \union (IF "IRAM" \in q.flags THEN {"INIRAM"} ELSE {})]
                ELSE [known |-> TRUE, source |-> q.source, svds |-> vd[i].svds,
                      flags |-> {"NONSHARED"} \union (IF "IRAM" \in q.flags THEN {"INIRAM"} ELSE {})]
<1>4. vd' = [vd EXCEPT ![i] = d]
  BY <1>1, Zenon DEF esp_intr_alloc
<1>5. d.source = IF "SHARED" \in q.flags THEN vd[i].source ELSE q.source
  OBVIOUS
<1>6. DOMAIN vd = Ints
  BY DEF RouteInv, TablesInv, TablesType
<1> HIDE DEF d
<1> SUFFICES ASSUME NEW j \in Ints, vd'[j].source # 0
             PROVE  \E r \in Requests :
                      "SHARED" \notin r.flags /\ r.source = vd'[j].source /\ Fits(j, r) /\ Forced(r.source) \in {None, j}
  BY DEF KeptFits, Fits, Levels
<1>7. CASE j = i /\ "SHARED" \notin q.flags
  BY <1>3, <1>4, <1>5, <1>6, <1>7
<1>8. CASE j # i \/ "SHARED" \in q.flags
  <2>1. vd'[j].source = vd[j].source
    BY <1>3, <1>4, <1>5, <1>6, <1>8
  <2> QED
    BY <2>1 DEF KeptFits
<1> QED
  BY <1>7, <1>8

LEMMA KeptFree ==
  ASSUME RouteInv, KeptFits, NEW h \in Handles, esp_intr_free(h)
  PROVE  KeptFits'
<1> DEFINE i == handle[h].int
<1>1. PICK left, flags : vd' = [vd EXCEPT ![i] = [vd[i] EXCEPT !.svds = left, !.flags = flags]]
  BY DEF esp_intr_free
<1>2. vd \in [Ints -> DescType]
  BY DEF RouteInv, TablesInv, TablesType
<1>3. \A j \in Ints : vd'[j].source = vd[j].source
  BY <1>1, <1>2 DEF DescType
<1> SUFFICES ASSUME NEW j \in Ints, vd'[j].source # 0
             PROVE  \E r \in Requests :
                      "SHARED" \notin r.flags /\ r.source = vd'[j].source /\ Fits(j, r) /\ Forced(r.source) \in {None, j}
  BY DEF KeptFits, Fits, Levels
<1> QED
  BY <1>3 DEF KeptFits

LEMMA KeptStep == RouteInv /\ KeptFits /\ [Next]_vars => KeptFits'
<1> SUFFICES ASSUME RouteInv, KeptFits, [Next]_vars PROVE KeptFits'
  OBVIOUS
<1>1. ASSUME UNCHANGED vd PROVE KeptFits'
  <2>1. vd' = vd
    BY <1>1
  <2> QED
    BY <2>1, Zenon DEF KeptFits, Fits, Levels
<1>2. CASE Calls
  BY <1>1, <1>2, KeptAlloc, KeptFree DEF Calls, esp_intr_enable, esp_intr_disable
<1> QED
  BY <1>1, <1>2 DEF Next, vars, soft, maskupdate, catcher, driver_app, Signal, EndDelta

\* An interrupt that nobody uses is usable for every request that it fits.
LEMMA FreeIsUsable ==
  ASSUME TablesInv, NEW i \in Ints, NEW q, Fits(i, q), Users(i) = {}
  PROVE  is_vect_desc_usable(i, q)
<1>1. "NONSHARED" \notin vd[i].flags /\ handler[i] = None
  BY DEF TablesInv, OneOwner, HandlerMatches
<1>2. ToSet(vd[i].svds) = {}
  BY DEF TablesInv, OneOwner
<1>3. vd[i].svds \in Seq(Handles)
  BY DEF TablesInv, TablesType, DescType
<1>4. vd[i].svds = <<>>
  <2> SUFFICES ASSUME vd[i].svds # <<>> PROVE FALSE
    OBVIOUS
  <2>1. 1 \in DOMAIN vd[i].svds
    BY <1>3
  <2>2. vd[i].svds[1] \in ToSet(vd[i].svds)
    BY <2>1 DEF ToSet
  <2> QED
    BY <1>2, <2>2
<1>5. "SHARED" \notin vd[i].flags
  BY <1>4 DEF TablesInv, OneOwner
<1> QED
  BY <1>1, <1>5 DEF is_vect_desc_usable

LEMMA FreeIsFound ==
  ASSUME TablesInv, NEW q \in Requests, NEW i \in Ints, Suits(i, q), Users(i) = {},
         \A j \in Ints : Matches(j, q.source) => Suits(j, q) /\ Users(j) = {}
  PROVE  get_available_int(q) # None
<1> DEFINE s        == q.source
           existing == {j \in Ints : Matches(j, s)}
           usable   == {j \in Ints : is_vect_desc_usable(j, q)}
           lowest   == {j \in usable : \A k \in usable : Level(j) <= Level(k)}
           candidate ==
             IF existing # {} THEN Min(existing)
             ELSE IF Forced(s) # None THEN Forced(s)
             ELSE IF "SHARED" \in q.flags THEN BestShared(usable)
             ELSE IF lowest = {} THEN None ELSE Min(lowest)
<1>1. get_available_int(q) = IF candidate \in usable /\ Forced(s) \in {None, candidate} THEN candidate ELSE None
  BY Zenon DEF get_available_int
<1>2. Fits(i, q) /\ Forced(s) \in {None, i}
  BY DEF Suits
<1>3. i \in usable
  BY <1>2, FreeIsUsable
<1>4. usable \subseteq Ints /\ usable # {} /\ existing \subseteq Ints
  BY <1>3
<1>5. \A j \in existing : j \in usable /\ Forced(s) \in {None, j}
  <2> SUFFICES ASSUME NEW j \in existing PROVE j \in usable /\ Forced(s) \in {None, j}
    OBVIOUS
  <2>1. Fits(j, q) /\ Users(j) = {} /\ Forced(s) \in {None, j}
    BY DEF Suits
  <2> QED
    BY <2>1, FreeIsUsable
<1>6. lowest # {} /\ Min(lowest) \in usable
  <2> HIDE DEF usable
  <2> QED
    BY <1>4, LowestIn, Zenon
<1>7. BestShared(usable) \in usable
  BY <1>4, BestIn, Zenon
<1> HIDE DEF existing, usable, lowest
<1>8. candidate \in usable /\ Forced(s) \in {None, candidate}
  <2>1. CASE existing # {}
    BY <1>4, <1>5, <2>1, MinIn
  <2>2. CASE existing = {} /\ Forced(s) # None
    BY <1>2, <1>3, <2>2
  <2>3. CASE existing = {} /\ Forced(s) = None
    BY <1>6, <1>7, <2>3
  <2> QED
    BY <2>1, <2>2, <2>3
<1>9. candidate # None
  BY <1>4, <1>8, NoneAssumption
<1> QED
  BY <1>1, <1>8, <1>9

\* The vector of an unshared handle has its source.
VectorSource == \A h \in DOMAIN handle : ~handle[h].shared => vd[handle[h].int].source = handle[h].source

LEMMA VectorAlloc ==
  ASSUME TablesInv, VectorSource, NEW h \in Handles, NEW q \in Requests, esp_intr_alloc(h, q)
  PROVE  VectorSource'
<1>1. PICK i : i = get_available_int(q)
  OBVIOUS
<1>2. i # None
  BY <1>1 DEF esp_intr_alloc
<1>3. i \in Ints /\ is_vect_desc_usable(i, q)
  BY <1>1, <1>2 DEF get_available_int
<1> DEFINE d == IF "SHARED" \in q.flags
                THEN [known |-> TRUE, source |-> vd[i].source, svds |-> <<h>> \o vd[i].svds,
                      flags |-> ((vd[i].flags \union {"SHARED"}) \ {"INIRAM"})
                                \union (IF "IRAM" \in q.flags THEN {"INIRAM"} ELSE {})]
                ELSE [known |-> TRUE, source |-> q.source, svds |-> vd[i].svds,
                      flags |-> {"NONSHARED"} \union (IF "IRAM" \in q.flags THEN {"INIRAM"} ELSE {})]
           new == [int |-> i, source |-> q.source, shared |-> "SHARED" \in q.flags,
                   iram |-> (IF "IRAM" \in q.flags THEN {"INIRAM"} ELSE {}) # {},
                   on |-> "INTRDISABLED" \notin q.flags, fn |-> q.fn]
<1>4. /\ vd' = [vd EXCEPT ![i] = d]
      /\ handle' = [k \in DOMAIN handle \union {h} |-> IF k = h THEN new ELSE handle[k]]
  BY <1>1, Zenon DEF esp_intr_alloc
<1>5. d.source = IF "SHARED" \in q.flags THEN vd[i].source ELSE q.source
  OBVIOUS
<1>6. new.int = i /\ new.source = q.source /\ (new.shared <=> "SHARED" \in q.flags)
  OBVIOUS
<1>7. DOMAIN vd = Ints
  BY DEF TablesInv, TablesType
<1>8. \A k \in Users(i) : handle[k].shared
  BY <1>3 DEF is_vect_desc_usable, TablesInv, OneOwner
<1> HIDE DEF d, new
<1> SUFFICES ASSUME NEW k \in DOMAIN handle', ~handle'[k].shared
             PROVE  vd'[handle'[k].int].source = handle'[k].source
  BY DEF VectorSource
<1>9. CASE k = h
  <2>1. handle'[k] = new
    BY <1>4, <1>9
  <2>2. vd'[i] = d
    BY <1>3, <1>4, <1>7
  <2> QED
    BY <1>5, <1>6, <2>1, <2>2
<1>10. CASE k # h
  <2>1. k \in DOMAIN handle /\ handle'[k] = handle[k]
    BY <1>4, <1>10
  <2>2. handle[k].int # i
    BY <1>8, <2>1 DEF Users
  <2>3. handle[k].int \in Ints
    BY <2>1 DEF TablesInv, TablesType, HandleType
  <2>4. vd'[handle[k].int] = vd[handle[k].int]
    BY <1>4, <1>7, <2>2, <2>3
  <2> QED
    BY <2>1, <2>4 DEF VectorSource
<1> QED
  BY <1>9, <1>10

LEMMA VectorFree ==
  ASSUME TablesInv, VectorSource, NEW h \in Handles, esp_intr_free(h)
  PROVE  VectorSource'
<1> DEFINE i == handle[h].int
<1>1. PICK left, flags : vd' = [vd EXCEPT ![i] = [vd[i] EXCEPT !.svds = left, !.flags = flags]]
  BY DEF esp_intr_free
<1>2. vd \in [Ints -> DescType]
  BY DEF TablesInv, TablesType
<1>3. \A j \in Ints : vd'[j].source = vd[j].source
  BY <1>1, <1>2 DEF DescType
<1>4. handle' = [k \in DOMAIN handle \ {h} |-> handle[k]]
  BY DEF esp_intr_free
<1> SUFFICES ASSUME NEW k \in DOMAIN handle', ~handle'[k].shared
             PROVE  vd'[handle'[k].int].source = handle'[k].source
  BY DEF VectorSource
<1>5. k \in DOMAIN handle /\ handle'[k] = handle[k]
  BY <1>4
<1>6. handle[k].int \in Ints
  BY <1>5 DEF TablesInv, TablesType, HandleType
<1> QED
  BY <1>3, <1>5, <1>6 DEF VectorSource

\* esp_intr_enable and esp_intr_disable
LEMMA VectorSwitch ==
  ASSUME TablesInv, VectorSource, NEW h, esp_intr_enable(h) \/ esp_intr_disable(h)
  PROVE  VectorSource'
<1>1. /\ vd' = vd /\ h \in DOMAIN handle
      /\ \E on : handle' = [handle EXCEPT ![h].on = on]
  BY Zenon DEF esp_intr_enable, esp_intr_disable
<1>2. PICK on : handle' = [handle EXCEPT ![h].on = on]
  BY <1>1
<1>3. handle \in [DOMAIN handle -> HandleType]
  BY DEF TablesInv, TablesType
<1>4. DOMAIN handle' = DOMAIN handle
  BY <1>2, <1>3
<1>5. \A k \in DOMAIN handle :
        handle'[k].int = handle[k].int /\ handle'[k].source = handle[k].source
        /\ handle'[k].shared = handle[k].shared
  BY <1>2, <1>3 DEF HandleType
<1> QED
  BY <1>1, <1>4, <1>5, Zenon DEF VectorSource

LEMMA VectorStep == TablesInv /\ VectorSource /\ [Next]_vars => VectorSource'
<1> SUFFICES ASSUME TablesInv, VectorSource, [Next]_vars PROVE VectorSource'
  OBVIOUS
<1>1. CASE UNCHANGED <<vd, handle>>
  <2>1. vd' = vd /\ handle' = handle
    BY <1>1
  <2> QED
    BY <2>1, Zenon DEF VectorSource
<1>2. CASE Calls
  BY <1>2, VectorAlloc, VectorFree, VectorSwitch DEF Calls
<1> QED
  BY <1>1, <1>2 DEF Next, vars, soft, maskupdate, catcher, driver_app, Signal, EndDelta

\* What find_desc_for_source stops at for a source without handles is free.
LEMMA MatchIsFree ==
  ASSUME TablesInv, VectorSource, NEW q, NEW i \in Ints, Matches(i, q.source),
         \A h \in DOMAIN handle : handle[h].source # q.source
  PROVE  vd[i].source = q.source /\ Users(i) = {}
<1>1. ToSet(vd[i].svds) = {h \in Users(i) : handle[h].shared} /\ ("SHARED" \in vd[i].flags <=> vd[i].svds # <<>>)
  BY DEF TablesInv, OneOwner
<1>2. "SHARED" \notin vd[i].flags /\ vd[i].source = q.source
  BY <1>1 DEF Matches, Users
<1>3. ToSet(<<>>) = {}
  BY DEF ToSet
<1>4. \A h \in Users(i) : ~handle[h].shared
  BY <1>1, <1>2, <1>3
<1>5. Users(i) = {}
  BY <1>2, <1>4 DEF VectorSource, Users
<1> QED
  BY <1>2, <1>5

\* Whatever was allocated and freed before, esp_intr_alloc finds an interrupt for a
\* source that has none whenever one suits that nobody uses, unless a vector that has
\* kept the source does not suit (get_available_int and esp_intr_free): for any requests.
THEOREM FreeAreFoundUnlessStale == Spec => []FoundUnlessStale
<1>1. Init => VectorSource
  BY DEF Init, VectorSource
<1>2. TablesInv /\ VectorSource => FoundUnlessStale
  <2> SUFFICES ASSUME TablesInv, VectorSource, NEW q \in Requests, CanHave(q),
                      \A i \in Ints : Matches(i, q.source) => Suits(i, q)
               PROVE  get_available_int(q) # None
    BY DEF FoundUnlessStale
  <2>1. PICK i \in Ints : Suits(i, q) /\ Users(i) = {}
    BY DEF CanHave
  <2>2. ASSUME NEW j \in Ints, Matches(j, q.source) PROVE Suits(j, q) /\ Users(j) = {}
    BY <2>2, MatchIsFree DEF CanHave
  <2> QED
    BY <2>1, <2>2, FreeIsFound
<1> QED
  BY <1>1, <1>2, VectorStep, TablesAlways, PTL DEF Spec

LEMMA KeptSuits ==
  ASSUME RouteInv, KeptFits, OneKind, NEW q \in Requests, NEW i \in Ints, Matches(i, q.source),
         \A h \in DOMAIN handle : handle[h].source # q.source
  PROVE  Suits(i, q)
<1>1. VectorSource
  BY DEF RouteInv, Sourced, VectorSource
<1>2. vd[i].source = q.source
  BY <1>1, MatchIsFree DEF RouteInv
<1>3. PICK p \in Requests : "SHARED" \notin p.flags /\ p.source = q.source /\ Fits(i, p) /\ Forced(q.source) \in {None, i}
  BY <1>2 DEF KeptFits, OneKind
<1>4. Levels(q) = Levels(p) /\ ("EDGE" \in q.flags <=> "EDGE" \in p.flags)
  BY <1>3 DEF OneKind
<1> QED
  BY <1>3, <1>4 DEF Fits, Suits

\* If every source is always or never shared, is not source 0, and is asked for with the
\* same levels and kind when it is not shared, then esp_intr_alloc finds an interrupt for
\* a source that has none whenever one fits that nobody uses, whatever was allocated and
\* freed before (get_available_int and esp_intr_free).
THEOREM FreeAreFound == ASSUME OneWay, OneKind PROVE Spec => []FoundIfFree
<1>1. RouteInv /\ KeptFits /\ FoundUnlessStale => FoundIfFree
  <2> SUFFICES ASSUME RouteInv, KeptFits, FoundUnlessStale, NEW q \in Requests, CanHave(q)
               PROVE  get_available_int(q) # None
    BY DEF FoundIfFree
  <2>1. ASSUME NEW i \in Ints, Matches(i, q.source) PROVE Suits(i, q)
    BY <2>1, KeptSuits DEF CanHave
  <2> QED
    BY <2>1 DEF FoundUnlessStale
<1>2. OneWay => OneWay'
  BY DEF OneWay
<1>3. OneWay /\ RouteInv /\ [Next]_vars => RouteInv'
  BY RouteStep
<1>4. RouteInv /\ KeptFits /\ [Next]_vars => KeptFits'
  BY KeptStep
<1> QED
  BY <1>1, <1>2, <1>3, <1>4, RouteInit, KeptInit, FreeAreFoundUnlessStale, PTL DEF Spec
============================================================================
