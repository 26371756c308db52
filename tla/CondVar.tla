------------------------------- MODULE CondVar -------------------------------
(***************************************************************************)
(* What event.c expects of a condition variable (event2/thread.h, struct   *)
(* evthread_condition_callbacks): a thread that holds the lock waits, which *)
(* gives the lock back and makes it a waiter in one step; a broadcast makes *)
(* every waiter runnable, and nothing else does but its timeout; a thread   *)
(* leaves the call with the lock.                                           *)
(***************************************************************************)
CONSTANTS Thread,
          Timed      \* the threads that wait with a timeout

VARIABLES waiters,   \* the threads that wait for a broadcast
          runnable   \* the threads that are to leave the call

condVars == <<waiters, runnable>>

Init == waiters = {} /\ runnable = {}

Wait(t) ==
  /\ t \notin waiters \cup runnable
  /\ waiters' = waiters \cup {t}
  /\ UNCHANGED runnable

Broadcast ==
  /\ waiters' = {}
  /\ runnable' = runnable \cup waiters

TimeOut(t) ==
  /\ t \in waiters \cap Timed
  /\ waiters' = waiters \ {t}
  /\ runnable' = runnable \cup {t}

Return(t) ==
  /\ t \in runnable
  /\ runnable' = runnable \ {t}
  /\ UNCHANGED waiters

Next == Broadcast \/ \E t \in Thread : Wait(t) \/ TimeOut(t) \/ Return(t)

Spec == Init /\ [][Next]_condVars
=============================================================================
