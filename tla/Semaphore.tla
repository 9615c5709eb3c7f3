----------------------------- MODULE Semaphore -----------------------------
(***************************************************************************)
(* The counting semaphore the FreeRTOS layer of the model is built on:     *)
(* gn_semaphore (src/modules/gn_semaphore.h), a subclass of SystemC's      *)
(* sc_semaphore with a timed wait, and xSemaphoreTake / xSemaphoreGive     *)
(* (src/esp32sdk/freertos/semphr.cpp) on top of it.                        *)
(*                                                                         *)
(* SystemC runs one process at a time and switches only where a process    *)
(* waits, so every piece of code between two waits is one action.  post()  *)
(* notifies m_free immediately: every process that sleeps on it becomes    *)
(* runnable, and m_free.triggered() stays true until the delta cycle ends. *)
(*                                                                         *)
(* A token that a task took is given back exactly once.  Who calls Give    *)
(* (the task itself, or an interrupt handler, as in the LEDC fade service) *)
(* makes no difference to the semaphore.                                   *)
(***************************************************************************)
EXTENDS Integers, FiniteSets

CONSTANTS Tasks,      \* the FreeRTOS tasks (SystemC processes)
          Count       \* the initial value; 1 wherever the SDK makes a lock

ASSUME TasksAssumption == IsFiniteSet(Tasks)
ASSUME CountAssumption == Count \in Nat

VARIABLES value,      \* sc_semaphore::m_value
          st,         \* where each task is with respect to the semaphore
          runnable,   \* sleeping tasks that m_free or a timeout has woken
          trig,       \* m_free.triggered() in the current delta cycle
          expired,    \* did a timeout of the task's current take expire?
          ret         \* what the task's last xSemaphoreTake returned

vars == <<value, st, runnable, trig, expired, ret>>

States  == {"idle", "wait", "timed", "held"}
Results == {"none", "pdTRUE", "pdFALSE"}

Asleep  == {t \in Tasks : st[t] \in {"wait", "timed"}}
Holders == {t \in Tasks : st[t] = "held"}

Init ==
  /\ value = Count
  /\ st = [t \in Tasks |-> "idle"]
  /\ runnable = {}
  /\ trig = FALSE
  /\ expired = [t \in Tasks |-> FALSE]
  /\ ret = [t \in Tasks |-> "none"]

----------------------------------------------------------------------------
(* The three ways out of one turn of a wait loop.                          *)

\* The loop ends and a token is taken: --m_value, return 0.
Acquire(t) ==
  /\ value' = value - 1
  /\ st' = [st EXCEPT ![t] = "held"]
  /\ ret' = [ret EXCEPT ![t] = "pdTRUE"]
  /\ runnable' = runnable \ {t}

\* The semaphore is in use: the process sleeps again.
Sleep(t, how) ==
  /\ st' = [st EXCEPT ![t] = how]
  /\ runnable' = runnable \ {t}
  /\ UNCHANGED <<value, ret>>

\* The timed wait finds m_free not triggered in this delta: return -1.
Refuse(t) ==
  /\ st' = [st EXCEPT ![t] = "idle"]
  /\ ret' = [ret EXCEPT ![t] = "pdFALSE"]
  /\ runnable' = runnable \ {t}
  /\ UNCHANGED value

\* Mutant: the loop is an `if': a task that was woken takes a token without
\* looking whether there still is one.
WaitLoop_NoRetest(t) ==
  \/ (value > 0 \/ st[t] = "wait") /\ Acquire(t)
  \/ value <= 0 /\ st[t] # "wait" /\ Sleep(t, "wait")

\* One turn of sc_semaphore::wait().
WaitLoop(t) ==
  \/ value > 0  /\ Acquire(t)
  \/ value <= 0 /\ Sleep(t, "wait")

\* One turn of gn_semaphore::wait(timeout), and what follows its loop.
TimedLoop(t) ==
  \/ value <= 0 /\ Sleep(t, "timed")
  \/ value > 0 /\ trig /\ Acquire(t)
  \/ value > 0 /\ ~trig /\ Refuse(t)

----------------------------------------------------------------------------
(* The operations.                                                         *)

\* xSemaphoreTake with a negative block time (portMAX_DELAY becomes -1).
Take(t) ==
  /\ st[t] = "idle"
  /\ expired' = [expired EXCEPT ![t] = FALSE]
  /\ WaitLoop(t)
  /\ UNCHANGED trig

\* xSemaphoreTake with a block time of zero or more.
TakeTimed(t) ==
  /\ st[t] = "idle"
  /\ expired' = [expired EXCEPT ![t] = FALSE]
  /\ TimedLoop(t)
  /\ UNCHANGED trig

\* A woken process is dispatched and takes the next turn of its loop.
Resume(t) ==
  /\ t \in runnable
  /\ \/ st[t] = "wait"  /\ WaitLoop(t)
     \/ st[t] = "timed" /\ TimedLoop(t)
  /\ UNCHANGED <<trig, expired>>

\* The timeout of wait(timeout, m_free) fires.  Time only advances once the
\* delta cycle that triggered m_free is over.
Timeout(t) ==
  /\ st[t] = "timed" /\ t \notin runnable
  /\ ~trig
  /\ expired' = [expired EXCEPT ![t] = TRUE]
  /\ runnable' = runnable \union {t}
  /\ UNCHANGED <<value, st, trig, ret>>

\* Mutant: the token goes back but nobody is notified.
Give_NoNotify(t) ==
  /\ st[t] = "held"
  /\ value' = value + 1
  /\ st' = [st EXCEPT ![t] = "idle"]
  /\ UNCHANGED <<trig, runnable, expired, ret>>

\* xSemaphoreGive: post() increments the value and notifies m_free.
Give(t) ==
  /\ st[t] = "held"
  /\ value' = value + 1
  /\ st' = [st EXCEPT ![t] = "idle"]
  /\ trig' = TRUE
  /\ runnable' = runnable \union Asleep
  /\ UNCHANGED <<expired, ret>>

\* The delta cycle ends: nothing is left to run, triggered() falls.
EndDelta ==
  /\ trig /\ runnable = {}
  /\ trig' = FALSE
  /\ UNCHANGED <<value, st, runnable, expired, ret>>

Next ==
  \/ EndDelta
  \/ \E t \in Tasks : Take(t) \/ TakeTimed(t) \/ Resume(t) \/ Timeout(t) \/ Give(t)

\* The SystemC scheduler dispatches every runnable process, ends every delta
\* cycle and lets time pass; nothing makes a task take or give.
Fairness ==
  /\ WF_vars(EndDelta)
  /\ \A t \in Tasks : WF_vars(Resume(t)) /\ WF_vars(Timeout(t))

Spec == Init /\ [][Next]_vars /\ Fairness

----------------------------------------------------------------------------
(* Properties.                                                             *)

\* Every variable has the type of the field it stands for; m_value is signed,
\* and the wait loops never take it below zero.
TypeOK ==
  /\ value \in Nat
  /\ st \in [Tasks -> States]
  /\ runnable \in SUBSET Tasks
  /\ trig \in BOOLEAN
  /\ expired \in [Tasks -> BOOLEAN]
  /\ ret \in [Tasks -> Results]

\* Tokens are neither lost nor made, and none is taken that is not there,
\* whichever mix of blocking and timed takes, wake-ups and gives happens: a
\* give wakes every sleeper, and all but one of them find m_value at zero
\* again.  With Count = 1 at most one task holds the token, the mutual
\* exclusion that the SPI, LEDC and MQTT locks rely on.
Conservation == value >= 0 /\ value + Cardinality(Holders) = Count

\* No lost wake-up: while a token is free, every task asleep in either wait
\* loop has been woken (post() notifies all of them, and a loop sleeps again
\* only when it found the semaphore in use).
NoLostWakeup == value > 0 => Asleep \subseteq runnable

\* A free token and a sleeping task do not coexist for ever: the token is
\* taken, or no one sleeps any more.
FreeTokenIsUsed == (value > 0 /\ Asleep # {}) ~> (value = 0 \/ Asleep = {})

\* "We now return pdTRUE or pdFALSE indicating if it timedout or not."
\* (semphr.cpp): pdFALSE means that the take timed out.  The code does not keep to it
\* and no run checks it; TLC refutes it in a few steps.
FalseMeansTimeout == \A t \in Tasks : ret[t] = "pdFALSE" => expired[t]
============================================================================
