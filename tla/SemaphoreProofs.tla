-------------------------- MODULE SemaphoreProofs --------------------------
(***************************************************************************)
(* Semaphore's safety, for any finite set of tasks and any initial value.  *)
(*                                                                         *)
(* The inductive invariant is TypeOK /\ Conservation /\ NoLostWakeup.      *)
(* Conservation needs the type of st; NoLostWakeup needs nothing but the   *)
(* fact that a wait loop goes back to sleep only on value <= 0, while a    *)
(* give, the only step that raises value, wakes every sleeper.             *)
(***************************************************************************)
EXTENDS Semaphore, FiniteSetTheorems, TLAPS

IInv == TypeOK /\ Conservation /\ NoLostWakeup

\* A step that makes t a holder adds one to the number of holders.
LEMMA HoldersGrow ==
  ASSUME st \in [Tasks -> States], NEW t \in Tasks, st[t] # "held",
         st' = [st EXCEPT ![t] = "held"]
  PROVE  /\ IsFiniteSet(Holders)
         /\ Cardinality(Holders) \in Nat
         /\ Cardinality(Holders') = Cardinality(Holders) + 1
<1>1. Holders \subseteq Tasks BY DEF Holders
<1>2. IsFiniteSet(Holders) BY <1>1, TasksAssumption, FS_Subset
<1>3. Holders' = Holders \union {t} BY DEF Holders, States
<1>4. t \notin Holders BY DEF Holders
<1> QED BY <1>2, <1>3, <1>4, FS_AddElement, FS_CardinalityType

\* A step that takes t out of the holders removes one.
LEMMA HoldersShrink ==
  ASSUME st \in [Tasks -> States], NEW t \in Tasks, st[t] = "held",
         NEW s \in {"idle", "wait", "timed"}, st' = [st EXCEPT ![t] = s]
  PROVE  /\ IsFiniteSet(Holders)
         /\ Cardinality(Holders) \in Nat
         /\ Cardinality(Holders') = Cardinality(Holders) - 1
<1>1. Holders \subseteq Tasks BY DEF Holders
<1>2. IsFiniteSet(Holders) BY <1>1, TasksAssumption, FS_Subset
<1>3. Holders' = Holders \ {t} BY DEF Holders, States
<1>4. t \in Holders BY DEF Holders
<1> QED BY <1>2, <1>3, <1>4, FS_RemoveElement, FS_CardinalityType

\* A step that moves t between two states other than "held" changes nothing.
LEMMA HoldersSame ==
  ASSUME st \in [Tasks -> States], NEW t \in Tasks, st[t] # "held",
         NEW s \in {"idle", "wait", "timed"}, st' = [st EXCEPT ![t] = s]
  PROVE  Holders' = Holders
BY DEF Holders, States

\* One turn of either wait loop preserves the invariant, whether the task has
\* just called xSemaphoreTake or has been woken.
LEMMA LoopTurn ==
  ASSUME IInv, NEW t \in Tasks, st[t] # "held",
         WaitLoop(t) \/ TimedLoop(t), trig' = trig,
         expired' \in [Tasks -> BOOLEAN]
  PROVE  IInv'
<1> USE DEF IInv
<1>1. CASE value > 0 /\ Acquire(t)
  <2>1. TypeOK' BY <1>1 DEF TypeOK, Acquire, States, Results
  <2>2. Cardinality(Holders') = Cardinality(Holders) + 1
    BY <1>1, HoldersGrow DEF Acquire, TypeOK
  <2>3. Cardinality(Holders) \in Nat
    BY <1>1, HoldersGrow DEF Acquire, TypeOK
  <2>4. Conservation'
    BY <1>1, <2>2, <2>3, CountAssumption DEF Acquire, TypeOK, Conservation
  <2>5. NoLostWakeup'
    BY <1>1 DEF Acquire, TypeOK, NoLostWakeup, Asleep, States
  <2> QED BY <2>1, <2>4, <2>5
<1>2. CASE value <= 0 /\ (Sleep(t, "wait") \/ Sleep(t, "timed"))
  <2>1. TypeOK' BY <1>2 DEF TypeOK, Sleep, States, Results
  <2>2. Holders' = Holders BY <1>2, HoldersSame DEF Sleep, TypeOK
  <2>3. Conservation' BY <1>2, <2>2 DEF Sleep, Conservation
  <2>4. NoLostWakeup' BY <1>2 DEF Sleep, TypeOK, NoLostWakeup
  <2> QED BY <2>1, <2>3, <2>4
<1>3. CASE value > 0 /\ Refuse(t)
  <2>1. TypeOK' BY <1>3 DEF TypeOK, Refuse, States, Results
  <2>2. Holders' = Holders BY <1>3, HoldersSame DEF Refuse, TypeOK
  <2>3. Conservation' BY <1>3, <2>2 DEF Refuse, Conservation
  <2>4. NoLostWakeup'
    BY <1>3 DEF Refuse, TypeOK, NoLostWakeup, Asleep, States
  <2> QED BY <2>1, <2>3, <2>4
<1> QED BY <1>1, <1>2, <1>3 DEF WaitLoop, TimedLoop

\* The invariant holds initially: every token is free and nobody sleeps.
LEMMA InitInv == Init => IInv
<1> SUFFICES ASSUME Init PROVE IInv OBVIOUS
<1>1. Holders = {} BY DEF Init, Holders
<1>2. Cardinality(Holders) = 0 BY <1>1, FS_EmptySet
<1>3. TypeOK
  <2>1. value \in Nat BY CountAssumption DEF Init
  <2>2. expired \in [Tasks -> BOOLEAN] /\ trig \in BOOLEAN
    BY Zenon DEF Init
  <2> QED BY <2>1, <2>2 DEF Init, TypeOK, States, Results
<1>4. Conservation BY <1>2, CountAssumption DEF Init, Conservation
<1>5. NoLostWakeup BY DEF Init, NoLostWakeup, Asleep
<1> QED BY <1>3, <1>4, <1>5 DEF IInv

\* Every step of every task, and the end of a delta cycle, preserves it.
LEMMA NextInv == IInv /\ [Next]_vars => IInv'
<1> SUFFICES ASSUME IInv, [Next]_vars PROVE IInv' OBVIOUS
<1> USE DEF IInv
<1>1. ASSUME NEW t \in Tasks, Take(t) PROVE IInv'
  BY <1>1, LoopTurn DEF Take, TypeOK
<1>2. ASSUME NEW t \in Tasks, TakeTimed(t) PROVE IInv'
  BY <1>2, LoopTurn DEF TakeTimed, TypeOK
<1>3. ASSUME NEW t \in Tasks, Resume(t) PROVE IInv'
  BY <1>3, LoopTurn DEF Resume, TypeOK
<1>4. ASSUME NEW t \in Tasks, Timeout(t) PROVE IInv'
  <2>1. TypeOK' BY <1>4 DEF Timeout, TypeOK
  <2>2. Conservation' BY <1>4 DEF Timeout, Conservation, Holders
  <2>3. NoLostWakeup' BY <1>4 DEF Timeout, NoLostWakeup, Asleep
  <2> QED BY <2>1, <2>2, <2>3
<1>5. ASSUME NEW t \in Tasks, Give(t) PROVE IInv'
  <2>1. TypeOK' BY <1>5 DEF Give, TypeOK, States, Asleep
  <2>2. /\ Cardinality(Holders') = Cardinality(Holders) - 1
        /\ Cardinality(Holders) \in Nat
    BY <1>5, HoldersShrink DEF Give, TypeOK
  <2>3. Conservation'
    BY <1>5, <2>2, CountAssumption DEF Give, TypeOK, Conservation
  <2>4. NoLostWakeup' BY <1>5 DEF Give, TypeOK, NoLostWakeup, Asleep, States
  <2> QED BY <2>1, <2>3, <2>4
<1>6. CASE EndDelta
  BY <1>6 DEF EndDelta, TypeOK, Conservation, NoLostWakeup, Holders, Asleep
<1>7. CASE UNCHANGED vars
  BY <1>7 DEF vars, TypeOK, Conservation, NoLostWakeup, Holders, Asleep
<1> QED BY <1>1, <1>2, <1>3, <1>4, <1>5, <1>6, <1>7 DEF Next

\* The inductive invariant holds in every reachable state.
THEOREM Invariant == Spec => []IInv
BY InitInv, NextInv, PTL DEF Spec

\* TypeOK holds in every reachable state.
THEOREM TypeCorrect == Spec => []TypeOK
BY Invariant, PTL DEF IInv

\* No interleaving of blocking and timed takes, timeouts and gives loses or
\* makes a token, for any number of tasks.
THEOREM TokensConserved == Spec => []Conservation
BY Invariant, PTL DEF IInv

\* No interleaving leaves a task asleep next to a free token without having
\* been woken.
THEOREM WakeupsNotLost == Spec => []NoLostWakeup
BY Invariant, PTL DEF IInv
============================================================================
