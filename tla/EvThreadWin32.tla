---------------------------- MODULE EvThreadWin32 ----------------------------
(***************************************************************************)
(* evthread_win32.c: a condition variable made of a manual-reset event, a  *)
(* critical section and three counters.  A thread registers, releases the  *)
(* lock of the caller, and sleeps on the event; the event stays set while  *)
(* somebody is to be woken, so threads that are not concerned wake too and *)
(* tell by the generation that they have to sleep again.                   *)
(*                                                                         *)
(* Each critical section on cond->lock is a step.  The generation is used  *)
(* only to compare it with generation_at_start; `newer` is the outcome.    *)
(***************************************************************************)
EXTENDS Naturals, FiniteSets

CONSTANTS
  Thread,
  Broadcasts,   \* the values of the argument `broadcast` that callers use
  Timed,        \* the threads that wait with a timeout
  NoThread,
  MaxToWake     \* bound of n_to_wake: a signal increments it without a waiter

CondAssumption ==
  /\ Broadcasts \subseteq BOOLEAN
  /\ Timed \subseteq Thread
  /\ NoThread \notin Thread
  /\ MaxToWake \in Nat

VARIABLES
  holder,      \* the owner of the caller's lock
  event,       \* the state of the Windows event object
  n_waiting,
  n_to_wake,
  newer,       \* generation # generation_at_start, for each thread
  pc           \* where each thread is

condVars == <<event, n_waiting, n_to_wake, newer>>
vars == <<holder, event, n_waiting, n_to_wake, newer, pc>>

Places == { "out",          \* without the lock
            "in",           \* with the lock
            "registered",   \* counted, still with the lock
            "asleep",       \* in WaitForSingleObject
            "object",       \* which has returned WAIT_OBJECT_0
            "timeout",      \* or WAIT_TIMEOUT
            "done",         \* out of the loop, without the lock
            "locked" }      \* with the lock again

Registered == { t \in Thread : pc[t] \in {"registered", "asleep", "object", "timeout"} }

Init ==
  /\ holder = NoThread
  /\ event = FALSE
  /\ n_waiting = 0
  /\ n_to_wake = 0
  /\ newer = [t \in Thread |-> FALSE]
  /\ pc = [t \in Thread |-> "out"]

Go(t, from, to) == pc[t] = from /\ pc' = [pc EXCEPT ![t] = to]

EnterCriticalSection(t, from, to) ==
  /\ Go(t, from, to)
  /\ holder = NoThread
  /\ holder' = t

LeaveCriticalSection(t, from, to) ==
  /\ Go(t, from, to)
  /\ holder' = NoThread

Lock(t) == EnterCriticalSection(t, "out", "in") /\ UNCHANGED condVars
Unlock(t) == LeaveCriticalSection(t, "in", "out") /\ UNCHANGED condVars

\* evthread_win32_cond_signal, with the lock of the caller (EVTHREAD_COND_BROADCAST is
\* used under th_base_lock).
evthread_win32_cond_signal(t, broadcast) ==
  /\ pc[t] = "in"
  /\ broadcast \/ n_to_wake < MaxToWake
  /\ n_to_wake' = IF broadcast THEN n_waiting ELSE n_to_wake + 1
  /\ newer' = [u \in Thread |-> newer[u] \/ u \in Registered]
  /\ event' = TRUE
  /\ UNCHANGED <<holder, n_waiting, pc>>

\* evthread_win32_cond_wait as far as it holds the lock.
WaitRegister(t) ==
  /\ Go(t, "in", "registered")
  /\ n_waiting' = n_waiting + 1
  /\ newer' = [newer EXCEPT ![t] = FALSE]
  /\ UNCHANGED <<holder, event, n_to_wake>>

WaitUnlock(t) == LeaveCriticalSection(t, "registered", "asleep") /\ UNCHANGED condVars

WaitObject(t) ==
  /\ event
  /\ Go(t, "asleep", "object")
  /\ UNCHANGED <<holder, condVars>>

WaitTimeout(t) ==
  /\ t \in Timed
  /\ Go(t, "asleep", "timeout")
  /\ UNCHANGED <<holder, condVars>>

\* Fault: the generation is not compared.
AnybodyWoken(t) == n_to_wake > 0

\* n_to_wake && generation != generation_at_start
Woken(t) == n_to_wake > 0 /\ newer[t]

\* "There is nobody else who should wake up; reset the event."
ResetInLoop == event /\ n_to_wake # 0

\* The critical section in the loop of evthread_win32_cond_wait.
WaitClaim(t) ==
  /\ pc[t] \in {"object", "timeout"}
  /\ \/ /\ Woken(t)
        /\ n_to_wake' = n_to_wake - 1
        /\ n_waiting' = n_waiting - 1
        /\ pc' = [pc EXCEPT ![t] = "done"]
        /\ UNCHANGED event
     \/ /\ ~Woken(t)
        /\ pc[t] = "timeout" \/ t \in Timed     \* the time is over
        /\ n_waiting' = n_waiting - 1
        /\ pc' = [pc EXCEPT ![t] = "done"]
        /\ UNCHANGED <<n_to_wake, event>>
     \/ /\ ~Woken(t)
        /\ pc[t] = "object"
        /\ pc' = [pc EXCEPT ![t] = "asleep"]
        /\ event' = ResetInLoop
        /\ UNCHANGED <<n_to_wake, n_waiting>>
  /\ UNCHANGED <<holder, newer>>

WaitLock(t) == EnterCriticalSection(t, "done", "locked") /\ UNCHANGED condVars

\* Fault: the last section resets the event without a look at the counter.
ReturnResets(t) ==
  /\ Go(t, "locked", "in")
  /\ event' = FALSE
  /\ UNCHANGED <<holder, n_waiting, n_to_wake, newer>>

\* The last critical section of evthread_win32_cond_wait.
WaitReturn(t) ==
  /\ Go(t, "locked", "in")
  /\ event' = (event /\ n_waiting # 0)
  /\ UNCHANGED <<holder, n_waiting, n_to_wake, newer>>

\* The steps of a call of evthread_win32_cond_wait after the thread has gone to sleep.
Waking(t) == WaitObject(t) \/ WaitClaim(t) \/ WaitLock(t) \/ WaitReturn(t)

Next ==
  \E t \in Thread :
    \/ Lock(t) \/ Unlock(t)
    \/ WaitRegister(t) \/ WaitUnlock(t) \/ WaitTimeout(t)
    \/ Waking(t)
    \/ \E b \in Broadcasts : evthread_win32_cond_signal(t, b)

Spec == Init /\ [][Next]_vars

\* A thread that can run does so; one that waits for the lock gets it if it becomes
\* free again and again; the owner of the lock gives it back.
Fairness ==
  \A t \in Thread :
    /\ WF_vars(WaitUnlock(t) \/ WaitObject(t) \/ WaitClaim(t) \/ WaitReturn(t) \/ Unlock(t))
    /\ SF_vars(WaitLock(t))

FairSpec == Spec /\ Fairness

-----------------------------------------------------------------------------
TypeOK ==
  /\ holder \in Thread \cup {NoThread}
  /\ event \in BOOLEAN
  /\ n_waiting \in Nat
  /\ n_to_wake \in Nat
  /\ newer \in [Thread -> BOOLEAN]
  /\ pc \in [Thread -> Places]

\* n_waiting counts the threads in the loop, and no thread that is to be woken finds the
\* event reset: the resets of other threads, inside and after the loop, lose no wakeup.
EventStaysSet ==
  /\ n_waiting = Cardinality(Registered)
  /\ (n_to_wake > 0 /\ \E t \in Registered : newer[t]) => event

\* The condition variable of CondVar: a thread is a waiter until a broadcast, or until
\* it gives up.
Abstract ==
  INSTANCE CondVar WITH
    waiters <- { t \in Registered : ~newer[t] },
    runnable <- { t \in Registered : newer[t] } \cup { t \in Thread : pc[t] \in {"done", "locked"} }

ImplementsCondVar == Abstract!Spec

\* A thread that was waiting when a broadcast was made leaves the call.
BroadcastWakes ==
  \A t \in Thread : t \in Registered /\ newer[t] ~> pc[t] = "in"
=============================================================================
