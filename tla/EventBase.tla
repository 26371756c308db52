----------------------------- MODULE EventBase -----------------------------
(***************************************************************************)
(* event.c: one struct event_base, the thread that runs event_base_loop on *)
(* it, and the application threads and callbacks that call its API.        *)
(*                                                                         *)
(* Everything is protected by th_base_lock, which the loop releases while  *)
(* it waits in the backend and while it runs a callback.  The actions are  *)
(* the critical sections: an API call of a thread is one action, split in  *)
(* two where it waits on current_event_cond; the loop is split into the    *)
(* steps of its own loops, and LockFree says at which of them the lock is  *)
(* not held, so that others can run.  An API call of a callback is the     *)
(* same action, taken by LoopThread while it runs the callback.            *)
(*                                                                         *)
(* Not in this module: common timeout queues, event priorities changed at  *)
(* run time, several events on one fd (evmap.c), the internals of the      *)
(* backend, allocation failures, the creation and release of the base.     *)
(***************************************************************************)
EXTENDS EventQueues

CONSTANTS
  Thread,          \* application threads that do not run the loop
  LoopThread,      \* the thread that calls event_base_loop
  NoThread, NoCallback,
  Kind,            \* "io", "signal" or "timer": the ev_events of every event
  Persist,         \* events with EV_PERSIST
  EvFinalize,      \* events with EV_FINALIZE
  NotifyEv,        \* base->th_notify
  ExitEv,          \* the struct event_once of a pending event_base_loopexit
  Delays,          \* the timevals the application passes to event_add
  ThreadApi,       \* the functions the threads call
  CallbackApi,     \* the functions the loop thread calls, in callbacks
  LoopFlags,       \* the flags arguments event_base_loop is called with
  MAX_DEFERREDS_QUEUED,
  MaxDispatchCallbacks,       \* max_dispatch_callbacks
  MaxDispatchTime,            \* max_dispatch_time, -1 when there is no limit
  LimitCallbacksAfterPrio,    \* limit_callbacks_after_prio
  NoCacheTime,                \* EVENT_BASE_FLAG_NO_CACHE_TIME
  MaxTime,         \* bound of the model: the clock stops there
  MaxCalls,        \* bound of the model on the ncalls of event_active
  MaxVirtual       \* bound of the model on virtual_event_count

Actor == Thread \cup {LoopThread}
UserEvent == Event \ {NotifyEv, ExitEv}

ASSUME BaseAssumption ==
  /\ IsFiniteSet(Thread)
  /\ LoopThread \notin Thread
  /\ NoThread \notin Actor
  /\ NoCallback \notin Callback
  /\ Kind \in [Event -> {"io", "signal", "timer"}]
  /\ Persist \subseteq Event
  /\ EvFinalize \subseteq Event
  /\ NotifyEv \in Event /\ Kind[NotifyEv] = "io" /\ NotifyEv \in Persist
  /\ Internal = {NotifyEv} /\ Priority[NotifyEv] = 0
  /\ ExitEv \in Event /\ Kind[ExitEv] = "timer" /\ ExitEv \notin Persist
  /\ Delays \subseteq Nat
  /\ LoopFlags \subseteq SUBSET {"ONCE", "NONBLOCK", "NO_EXIT_ON_EMPTY"}
  /\ MAX_DEFERREDS_QUEUED \in Nat
  /\ MaxDispatchCallbacks \in Nat \ {0}
  /\ MaxDispatchTime \in Nat \cup {-1}
  /\ LimitCallbacksAfterPrio \in Nat
  /\ NoCacheTime \in BOOLEAN
  /\ MaxTime \in Nat /\ MaxCalls \in Nat \ {0} /\ MaxVirtual \in Nat

NoTimeval == -1    \* a null struct timeval pointer, or an unset time
Timeval == Nat \cup {NoTimeval}

VARIABLES
  q,       \* the queues and flags, see EventQueues
  ev,      \* the other mutable fields of the callbacks
  base,    \* the other mutable fields of the event_base
  loop,    \* where the loop thread is in event_base_loop, and its locals
  th,      \* where every application thread is, and its locals
  clock,   \* the monotonic clock
  hist     \* what the application has asked for (no part of the program)

vars == <<q, ev, base, loop, th, clock, hist>>

Closure == {"event", "persist", "signal", "self", "finalize", "cb_finalize"}
Result == {"EV_READ", "EV_SIGNAL", "EV_TIMEOUT", "EV_FINALIZE"}

\* pncalls: ev_pncalls is not NULL.
CallbackFields ==
  [ closure : Closure, res : SUBSET Result, timeout : Nat, io_timeout : Nat,
    ncalls : Nat, pncalls : BOOLEAN ]

\* notify_readable: there is a byte in th_notify_fd[0].
BaseFields ==
  [ running_loop : BOOLEAN, th_owner_id : Actor \cup {NoThread},
    event_gotterm : BOOLEAN, event_break : BOOLEAN, event_continue : BOOLEAN,
    event_running_priority : Priorities \cup {-1},
    n_deferreds_queued : Nat, virtual_event_count : Nat,
    current_event : Callback \cup {NoCallback}, current_event_waiters : Nat,
    is_notify_pending : BOOLEAN, notify_readable : BOOLEAN,
    tv_cache : Timeval ]

\* out         not in event_base_loop
\* top         at the head of the while loop
\* later       in event_queue_make_later_events_active
\* select      in the backend, without the lock
\* selected    the backend has its result and acquires the lock
\* activate    activating the events the backend found ready
\* timeouts    in timeout_process
\* process     about to call event_process_active
\* queue       in event_process_active_single_queue, about to take a callback
\* count       event_signal_closure, without the lock, about to count a call
\* callback    running the callback, without the lock
\* drain       in the callback of th_notify, after the recv
\* return      no (more) user code to run, before the lock is acquired again
\* after       the lock acquired again after the callback
LoopPc == {"out", "top", "later", "select", "selected", "activate", "timeouts",
           "process", "queue", "count", "callback", "drain", "return", "after"}

LoopLocals ==
  [ pc : LoopPc, flags : SUBSET {"ONCE", "NONBLOCK", "NO_EXIT_ON_EMPTY"},
    tv : Timeval,                \* the wait of the backend; in select, its end
    polled : SUBSET Event,       \* the fd sets the backend has copied
    ready : SUBSET Event,        \* what is left of the result of the backend
    count : 0 .. MaxDispatchCallbacks,   \* no need to count any further
    endtime : Timeval,
    running : Callback \cup {NoCallback},   \* evcb
    finalizer : BOOLEAN,         \* evcb_closure is a finalizer
    ncalls : Nat ]               \* ncalls of event_signal_closure

ThreadLocals ==
  [ pc : {"idle", "wait", "woken", "deleted"},
    op : {"none", "add", "del", "active", "finalize"},
    ev : Callback \cup {NoCallback}, tv : Timeval, n : Nat ]

Idle == [pc |-> "idle", op |-> "none", ev |-> NoCallback, tv |-> NoTimeval, n |-> 0]

History ==
  [ armed : [Callback -> BOOLEAN],
    asked : [Event -> {"no", "forever", "timed"}],
    finalized : [Callback -> {"no", "asked", "done", "twice"}],
    late : 0 .. 2 ]

-----------------------------------------------------------------------------
(* The lock, time and the wakeup of the loop.                              *)

LockFree ==
  loop.pc \in {"out", "select", "selected", "count", "callback", "drain", "return"}

\* The loop thread runs code of the application that may call the API.  (A
\* finalizer must not, says event.h.)
InUserCallback ==
  /\ loop.pc = "callback" /\ ~loop.finalizer
  /\ loop.running \in UserEvent \cup Deferred

\* Actor a is free to call the API function f.
CanCall(a, f) ==
  /\ LockFree
  /\ IF a = LoopThread
       THEN f \in CallbackApi /\ (InUserCallback \/ loop.pc = "out")
       ELSE f \in ThreadApi /\ th[a].pc = "idle"

EVBASE_IN_THREAD(a) == base.th_owner_id = a
\* Fault: the test of the thread is inverted.
NeedNotifyInverted(b, a) == b.running_loop /\ b.th_owner_id = a

EVBASE_NEED_NOTIFY(b, a) == b.running_loop /\ b.th_owner_id # a

\* gettime: the cached time if there is one.
gettime(b) == IF b.tv_cache # NoTimeval THEN b.tv_cache ELSE clock
clear_time_cache(b) == [b EXCEPT !.tv_cache = NoTimeval]
update_time_cache(b) ==
  [b EXCEPT !.tv_cache = IF NoCacheTime THEN NoTimeval ELSE clock]

\* Wakes the loop up if the caller is not its thread.
evthread_notify_base(b, a) ==
  IF EVBASE_NEED_NOTIFY(b, a) /\ ~b.is_notify_pending
    THEN [b EXCEPT !.is_notify_pending = TRUE, !.notify_readable = TRUE]
    ELSE b

N_ACTIVE_CALLBACKS == q.event_count_active
event_haveevents == base.virtual_event_count > 0 \/ q.event_count > 0

Earliest(S, v) == { e \in S : \A f \in S : v[e].timeout <= v[f].timeout }

Min2(i, j) == IF i < j THEN i ELSE j
Max2(i, j) == IF i < j THEN j ELSE i

\* The loop thread is not in event_base_loop.
Outside ==
  [ pc |-> "out", flags |-> {}, tv |-> NoTimeval, polled |-> {}, ready |-> {},
    count |-> 0, endtime |-> NoTimeval, running |-> NoCallback, finalizer |-> FALSE,
    ncalls |-> 0 ]

Init ==
  /\ q = event_queue_insert_inserted(EmptyQueues, NotifyEv)
  /\ ev = [ c \in Callback |->
              [ closure    |-> IF c \in Deferred THEN "self"
                               ELSE IF Kind[c] = "signal" THEN "signal"
                               ELSE IF c \in Persist THEN "persist" ELSE "event",
                res        |-> {},
                timeout    |-> 0,
                io_timeout |-> 0,
                ncalls     |-> 0,
                pncalls    |-> FALSE ] ]
  /\ base = [ running_loop |-> FALSE, th_owner_id |-> NoThread,
              event_gotterm |-> FALSE, event_break |-> FALSE,
              event_continue |-> FALSE, event_running_priority |-> -1,
              n_deferreds_queued |-> 0, virtual_event_count |-> 0,
              current_event |-> NoCallback, current_event_waiters |-> 0,
              is_notify_pending |-> FALSE, notify_readable |-> FALSE,
              tv_cache |-> NoTimeval ]
  /\ loop = Outside
  /\ th = [t \in Thread |-> Idle]
  /\ clock = 0
  /\ hist = [ armed |-> [c \in Callback |-> FALSE],
              asked |-> [e \in Event |-> "no"],
              finalized |-> [c \in Callback |-> "no"],
              late |-> 0 ]

-----------------------------------------------------------------------------
(* The "nolock" functions: their effect on each part of the state.         *)

\* Faults: the event is left on an active queue, or in the backend.
DelKeepsActive(s, e) ==
  LET s1 == IF "TIMEOUT" \in s.flags[e] THEN event_queue_remove_timeout(s, e) ELSE s
  IN  IF "INSERTED" \in s.flags[e] THEN event_queue_remove_inserted(s1, e) ELSE s1

DelKeepsInserted(s, e) ==
  LET s1 == IF "TIMEOUT" \in s.flags[e] THEN event_queue_remove_timeout(s, e) ELSE s
  IN  IF "ACTIVE" \in s.flags[e] THEN event_queue_remove_active(s1, e) ELSE s1

\* event_del_nolock_, on the queues.
event_del_nolock_(s, e) ==
  LET s1 == IF "TIMEOUT" \in s.flags[e] THEN event_queue_remove_timeout(s, e) ELSE s
      s2 == IF "ACTIVE" \in s.flags[e] THEN event_queue_remove_active(s1, e)
            ELSE IF "ACTIVE_LATER" \in s.flags[e]
                   THEN event_queue_remove_active_later(s1, e)
            ELSE s1
  IN  IF "INSERTED" \in s.flags[e] THEN event_queue_remove_inserted(s2, e) ELSE s2

\* Fault: the calls that are left are made all the same.
AbortNothing(e) == {loop}

\* "See if we are just active executing this event in a loop": *ev_pncalls = 0.
\* ev_pncalls points to the local of event_signal_closure; after the closure
\* has returned the store hits that place of the stack or another one.  A thread that
\* does not wait may store while the closure counts a call without the lock: before the
\* test of while, after the decrement, or between its load and its store, which loses it.
AbortLoop(e) ==
  LET Left(n) == [loop EXCEPT !.ncalls = n]
  IN  IF Kind[e] # "signal" \/ ev[e].ncalls = 0 \/ ~ev[e].pncalls THEN {loop}
      ELSE IF loop.pc = "count" THEN {Left(0), Left(Min2(1, loop.ncalls)), loop}
      ELSE IF loop.pc = "callback" /\ loop.running = e THEN {Left(0)}
      ELSE {Left(0), loop}

\* evmap reports a change of the backend's interest when an event is taken out.
DelNotifies(e, b, a) ==
  IF "INSERTED" \in q.flags[e] THEN evthread_notify_base(b, a) ELSE b

\* event_add_nolock_, on the queues.
Inserts(s, e) ==
  /\ Kind[e] # "timer"
  /\ s.flags[e] \cap {"INSERTED", "ACTIVE", "ACTIVE_LATER"} = {}

event_add_nolock_(s, e, tv) ==
  LET s1 == IF Inserts(s, e) THEN event_queue_insert_inserted(s, e) ELSE s
      s2 == IF "TIMEOUT" \in s.flags[e] THEN event_queue_remove_timeout(s1, e) ELSE s1
      s3 == IF "ACTIVE" \in s.flags[e] /\ "EV_TIMEOUT" \in ev[e].res
              THEN event_queue_remove_active(s2, e)
              ELSE s2
  IN  IF tv = NoTimeval THEN s1 ELSE event_queue_insert_timeout(s3, e)

\* event_add_nolock_, on the event, at time now.
AddFields(e, tv, absolute, now) ==
  IF tv = NoTimeval THEN ev
  ELSE [ev EXCEPT
          ![e].timeout = IF absolute THEN tv ELSE now + tv,
          ![e].io_timeout = IF ev[e].closure = "persist" /\ ~absolute THEN tv ELSE @]

\* Fault: a new earliest timeout does not wake the loop.
AddNotifiesFds(s, e, tv, v, b, a) ==
  IF Inserts(s, e) THEN evthread_notify_base(b, a) ELSE b

\* The new timeout e is on top of the heap (above equal ones only if it was
\* first), or the top is in the past.
AddNotifies(s, e, tv, v, b, a) ==
  LET others == s.timeheap \ {e}
      first  == \A f \in others : v[e].timeout < v[f].timeout
      past   == \E f \in s.timeheap \cup {e} : v[f].timeout < gettime(b)
  IN  IF Inserts(s, e) \/ (tv # NoTimeval /\ (first \/ past))
        THEN evthread_notify_base(b, a)
        ELSE b

\* event_callback_activate_nolock_, on the queues.
event_callback_activate_nolock_(s, c) ==
  event_queue_insert_active(
    IF "ACTIVE_LATER" \in s.flags[c] THEN event_queue_remove_active_later(s, c) ELSE s,
    c)

CanActivate(s, c) == s.flags[c] \cap {"ACTIVE", "FINALIZING"} = {}

\* event_active_nolock_, its parts before and after it may wait.
ActiveResult(s, e, res) ==
  IF s.flags[e] \cap {"ACTIVE", "ACTIVE_LATER"} # {}
    THEN [ev EXCEPT ![e].res = @ \cup res]
    ELSE [ev EXCEPT ![e].res = res]

\* Fault: the loop goes on with the queues of lower priority.
ActiveDoesNotContinue(b, e) == b

ActiveContinue(b, e) ==
  [b EXCEPT !.event_continue = @ \/ Priority[e] < b.event_running_priority]

ActiveCalls(v, e, ncalls) ==
  IF Kind[e] = "signal" THEN [v EXCEPT ![e].ncalls = ncalls, ![e].pncalls = FALSE] ELSE v

\* Actor a would disturb the callback of e that the loop is running.
Running(a, e) == base.current_event = e /\ ~EVBASE_IN_THREAD(a)

\* EVTHREAD_COND_WAIT(base->current_event_cond, base->th_base_lock)
CondWait(t, op, e, tv, n) ==
  th' = [th EXCEPT ![t] = [pc |-> "wait", op |-> op, ev |-> e, tv |-> tv, n |-> n]]

\* Fault: the waiter is not counted.
WaitingUncounted(b) == b

Waiting(b) == [b EXCEPT !.current_event_waiters = @ + 1]

-----------------------------------------------------------------------------
(* The API.                                                                *)

Asked(e, tv) ==
  [hist EXCEPT !.armed[e] = TRUE,
               !.asked[e] = IF tv # NoTimeval THEN "timed"
                            ELSE IF @ = "no" THEN "forever" ELSE @]

\* The part of event_add_nolock_ after the wait.
AddNow(a, e, tv) ==
  LET v == AddFields(e, tv, FALSE, gettime(base))
  IN  /\ ev' = v
      /\ q' = event_add_nolock_(q, e, tv)
      /\ base' = AddNotifies(q, e, tv, v, base, a)
      /\ loop' \in IF tv # NoTimeval /\ "ACTIVE" \in q.flags[e] /\ "EV_TIMEOUT" \in ev[e].res
                     THEN AbortLoop(e) ELSE {loop}
      /\ hist' = Asked(e, tv)

event_add(a, e, tv) ==
  /\ CanCall(a, "event_add")
  /\ "FINALIZING" \notin q.flags[e]
  /\ IF Kind[e] = "signal" /\ Running(a, e)
       THEN /\ CondWait(a, "add", e, tv, 0)
            /\ base' = Waiting(base)
            /\ UNCHANGED <<q, ev, loop, hist>>
       ELSE AddNow(a, e, tv) /\ UNCHANGED th
  /\ UNCHANGED clock

\* event_remove_timer.  The timeval it clears is ev_io_timeout, which shares a union
\* with ev_ncalls of a signal event (a cleared ev_pncalls would make no difference).
event_remove_timer(a, e) ==
  /\ CanCall(a, "event_remove_timer")
  /\ "TIMEOUT" \in q.flags[e]
  /\ q' = event_queue_remove_timeout(q, e)
  /\ ev' = IF Kind[e] = "signal" THEN [ev EXCEPT ![e].ncalls = 0]
           ELSE [ev EXCEPT ![e].io_timeout = 0]
  /\ hist' = [hist EXCEPT !.asked[e] = "forever"]
  /\ UNCHANGED <<base, loop, th, clock>>

\* The part of event_del_nolock_ after the wait.
DelNow(a, e) ==
  /\ q' = event_del_nolock_(q, e)
  /\ base' = DelNotifies(e, base, a)
  /\ loop' \in AbortLoop(e)
  /\ hist' = [hist EXCEPT !.armed[e] = FALSE, !.asked[e] = "no"]
  /\ UNCHANGED ev

\* A thread that has returned from an event_del that may block.
Deleted(t, e) == [th EXCEPT ![t] = [Idle EXCEPT !.pc = "deleted", !.ev = e]]

\* event_del, event_del_block and event_del_noblock, by the name f.
event_del(a, e, f) ==
  /\ CanCall(a, f)
  /\ "FINALIZING" \notin q.flags[e]
  /\ IF f # "event_del_noblock" /\ Running(a, e)
        /\ (f = "event_del_block" \/ e \notin EvFinalize)
       THEN /\ CondWait(a, "del", e, NoTimeval, 0)
            /\ base' = Waiting(base)
            /\ UNCHANGED <<q, ev, loop, hist>>
       ELSE /\ DelNow(a, e)
            /\ th' = IF a \in Thread /\ f # "event_del_noblock" /\ e \notin EvFinalize
                       THEN Deleted(a, e) ELSE th
  /\ UNCHANGED clock

\* The part of event_active_nolock_ after the wait.
ActivateNow(a, e, ncalls, v, b) ==
  /\ ev' = ActiveCalls(v, e, ncalls)
  /\ q' = IF CanActivate(q, e) THEN event_callback_activate_nolock_(q, e) ELSE q
  /\ base' = IF CanActivate(q, e) THEN evthread_notify_base(b, a) ELSE b
  /\ hist' = [hist EXCEPT !.armed[e] = TRUE]

\* Fault: event_active does not wait for the running callback of a signal event.
ActiveWithoutWait(a, e, ncalls) ==
  LET v == ActiveResult(q, e, IF Kind[e] = "signal" THEN {"EV_SIGNAL"} ELSE {"EV_READ"})
  IN  /\ CanCall(a, "event_active")
      /\ "FINALIZING" \notin q.flags[e]
      /\ IF "ACTIVE" \in q.flags[e]
           THEN ev' = v /\ UNCHANGED <<q, base, hist>>
           ELSE ActivateNow(a, e, ncalls, v, ActiveContinue(base, e))
      /\ UNCHANGED <<loop, th, clock>>

\* event_active
event_active(a, e, ncalls) ==
  LET v == ActiveResult(q, e, IF Kind[e] = "signal" THEN {"EV_SIGNAL"} ELSE {"EV_READ"})
      b == ActiveContinue(base, e)
  IN  /\ CanCall(a, "event_active")
      /\ "FINALIZING" \notin q.flags[e]
      /\ IF "ACTIVE" \in q.flags[e]
           THEN ev' = v /\ UNCHANGED <<q, base, th, hist>>
           ELSE IF Kind[e] = "signal" /\ Running(a, e)
           THEN /\ CondWait(a, "active", e, NoTimeval, ncalls)
                /\ ev' = v
                /\ base' = Waiting(b)
                /\ UNCHANGED <<q, hist>>
           ELSE ActivateNow(a, e, ncalls, v, b) /\ UNCHANGED th
      /\ UNCHANGED <<loop, clock>>

\* event_active_later_: not for an event that is being finalized.
event_active_later_(a, e) ==
  /\ CanCall(a, "event_active_later_")
  /\ "FINALIZING" \notin q.flags[e]
  /\ ev' = ActiveResult(q, e, {"EV_READ"})
  /\ q' = event_queue_insert_active_later(q, e)
  /\ base' = IF q' # q THEN evthread_notify_base(base, a) ELSE base
  /\ hist' = [hist EXCEPT !.armed[e] = TRUE]
  /\ UNCHANGED <<loop, th, clock>>

\* Fault: the event is marked first, and is then no longer activated.
FinalizeNowMarksFirst(a, e, s, v, b) ==
  /\ ev' = ActiveCalls(v, e, 1)
  /\ q' = SetFinalizing(s, e)
  /\ base' = b

\* The part of event_finalize_nolock_ after the wait.
FinalizeNow(a, e, s, v, b) ==
  /\ ev' = ActiveCalls(v, e, 1)
  /\ q' = SetFinalizing(
            IF CanActivate(s, e) THEN event_callback_activate_nolock_(s, e) ELSE s, e)
  /\ base' = IF CanActivate(s, e) THEN evthread_notify_base(b, a) ELSE b

\* event_finalize; event_active_nolock_, which it calls, may wait.
event_finalize(a, e) ==
  LET s == event_del_nolock_(q, e)
      v == [ev EXCEPT ![e].closure = "finalize", ![e].res = {"EV_FINALIZE"}]
      b == ActiveContinue(DelNotifies(e, base, a), e)
  IN  /\ CanCall(a, "event_finalize")
      /\ hist.finalized[e] = "no"
      /\ IF Kind[e] = "signal" /\ Running(a, e)
           THEN /\ CondWait(a, "finalize", e, NoTimeval, 1)
                /\ q' = s
                /\ ev' = v
                /\ base' = Waiting(b)
           ELSE FinalizeNow(a, e, s, v, b) /\ UNCHANGED th
      /\ loop' \in AbortLoop(e)
      /\ hist' = [hist EXCEPT !.finalized[e] = "asked", !.asked[e] = "no"]
      /\ UNCHANGED clock

\* Fault: the callbacks of an iteration are not counted.
ScheduleUncounted(a, c) ==
  /\ CanCall(a, "event_deferred_cb_schedule_")
  /\ "FINALIZING" \notin q.flags[c]
  /\ q' = IF base.n_deferreds_queued > MAX_DEFERREDS_QUEUED
            THEN event_queue_insert_active_later(q, c)
            ELSE event_callback_activate_nolock_(q, c)
  /\ base' = IF q' # q THEN evthread_notify_base(base, a) ELSE base
  /\ hist' = [hist EXCEPT !.armed[c] = TRUE]
  /\ UNCHANGED <<ev, loop, th, clock>>

\* event_deferred_cb_schedule_: not for a callback that is being finalized, to which
\* its owner has given up the last reference (bufferevent_decref_and_unlock_).
event_deferred_cb_schedule_(a, c) ==
  LET later == base.n_deferreds_queued > MAX_DEFERREDS_QUEUED
      fresh == q.flags[c] \cap {"ACTIVE", "ACTIVE_LATER"} = {}
      b == IF fresh /\ ~later THEN [base EXCEPT !.n_deferreds_queued = @ + 1] ELSE base
  IN  /\ CanCall(a, "event_deferred_cb_schedule_")
      /\ "FINALIZING" \notin q.flags[c]
      /\ q' = IF later THEN event_queue_insert_active_later(q, c)
               ELSE event_callback_activate_nolock_(q, c)
      /\ base' = IF q' # q THEN evthread_notify_base(b, a) ELSE b
      /\ hist' = [hist EXCEPT !.armed[c] = TRUE]
      /\ UNCHANGED <<ev, loop, th, clock>>

\* event_callback_cancel_nolock_ of a deferred callback, on the queues.
Cancelled(s, c) ==
  IF "ACTIVE" \in s.flags[c] THEN event_queue_remove_active(s, c)
  ELSE IF "ACTIVE_LATER" \in s.flags[c] THEN event_queue_remove_active_later(s, c)
  ELSE s

\* event_deferred_cb_cancel_
event_deferred_cb_cancel_(a, c) ==
  /\ CanCall(a, "event_deferred_cb_cancel_")
  /\ "FINALIZING" \notin q.flags[c]
  /\ q' = Cancelled(q, c)
  /\ hist' = [hist EXCEPT !.armed[c] = FALSE]
  /\ UNCHANGED <<ev, base, loop, th, clock>>

\* event_callback_finalize_ of a deferred callback.
event_callback_finalize_(a, c) ==
  /\ CanCall(a, "event_callback_finalize_")
  /\ hist.finalized[c] = "no"
  /\ ev' = [ev EXCEPT ![c].closure = "cb_finalize"]
  /\ q' = SetFinalizing(event_callback_activate_nolock_(Cancelled(q, c), c), c)
  /\ base' = evthread_notify_base(base, a)
  /\ hist' = [hist EXCEPT !.finalized[c] = "asked"]
  /\ UNCHANGED <<loop, th, clock>>

\* Fault: the loop is not woken.
LoopbreakSilent(a) ==
  /\ CanCall(a, "event_base_loopbreak")
  /\ base' = [base EXCEPT !.event_break = TRUE]
  /\ UNCHANGED <<q, ev, loop, th, clock, hist>>

event_base_loopbreak(a) ==
  /\ CanCall(a, "event_base_loopbreak")
  /\ base' = evthread_notify_base([base EXCEPT !.event_break = TRUE], a)
  /\ UNCHANGED <<q, ev, loop, th, clock, hist>>

event_base_loopcontinue(a) ==
  /\ CanCall(a, "event_base_loopcontinue")
  /\ base' = evthread_notify_base([base EXCEPT !.event_continue = TRUE], a)
  /\ UNCHANGED <<q, ev, loop, th, clock, hist>>

\* event_base_loopexit: event_base_once of loopexit_cb, active at once when
\* there is no time to wait.
event_base_loopexit(a, tv) ==
  /\ CanCall(a, "event_base_loopexit")
  /\ q.flags[ExitEv] = {} /\ loop.running # ExitEv
  /\ IF tv \in {NoTimeval, 0}
       THEN ActivateNow(a, ExitEv, 1, ActiveResult(q, ExitEv, {"EV_TIMEOUT"}),
                        ActiveContinue(base, ExitEv))
       ELSE LET v == AddFields(ExitEv, tv, FALSE, gettime(base))
            IN  /\ ev' = v
                /\ q' = event_add_nolock_(q, ExitEv, tv)
                /\ base' = AddNotifies(q, ExitEv, tv, v, base, a)
                /\ hist' = Asked(ExitEv, tv)
  /\ UNCHANGED <<loop, th, clock>>

event_base_add_virtual_(a) ==
  /\ CanCall(a, "event_base_add_virtual_")
  /\ base.virtual_event_count < MaxVirtual
  /\ base' = [base EXCEPT !.virtual_event_count = @ + 1]
  /\ UNCHANGED <<q, ev, loop, th, clock, hist>>

\* Fault: the loop is not woken.
DelVirtualSilent(a) ==
  /\ CanCall(a, "event_base_del_virtual_")
  /\ base.virtual_event_count > 0
  /\ base' = [base EXCEPT !.virtual_event_count = @ - 1]
  /\ UNCHANGED <<q, ev, loop, th, clock, hist>>

event_base_del_virtual_(a) ==
  LET b == [base EXCEPT !.virtual_event_count = @ - 1]
  IN  /\ CanCall(a, "event_base_del_virtual_")
      /\ base.virtual_event_count > 0
      /\ base' = IF b.virtual_event_count = 0 THEN evthread_notify_base(b, a) ELSE b
      /\ UNCHANGED <<q, ev, loop, th, clock, hist>>

\* A woken thread has the lock again and goes on after its EVTHREAD_COND_WAIT,
\* which stands in no loop: nothing is tested again.
ThreadResume(t) ==
  LET e == th[t].ev
  IN  /\ th[t].pc = "woken" /\ LockFree
      /\ \/ th[t].op = "del" /\ DelNow(t, e) /\ th' = Deleted(t, e)
         \/ /\ th[t].op = "add" /\ AddNow(t, e, th[t].tv)
            /\ th' = [th EXCEPT ![t] = Idle]
         \/ /\ th[t].op = "active" /\ ActivateNow(t, e, th[t].n, ev, base)
            /\ th' = [th EXCEPT ![t] = Idle]
            /\ UNCHANGED loop
         \/ /\ th[t].op = "finalize" /\ FinalizeNow(t, e, q, ev, base)
            /\ th' = [th EXCEPT ![t] = Idle]
            /\ UNCHANGED <<loop, hist>>
      /\ UNCHANGED clock

\* The thread makes use of the guarantee of event_del and goes on.
ThreadIdle(t) ==
  /\ th[t].pc = "deleted"
  /\ th' = [th EXCEPT ![t] = Idle]
  /\ UNCHANGED <<q, ev, base, loop, clock, hist>>

-----------------------------------------------------------------------------
(* event_base_loop.                                                        *)

LoopEnter ==
  /\ loop.pc = "out" /\ ~base.running_loop
  /\ loop' \in { [loop EXCEPT !.pc = "top", !.flags = f] : f \in LoopFlags }
  /\ base' = [clear_time_cache(base) EXCEPT
                !.running_loop = TRUE, !.th_owner_id = LoopThread,
                !.event_gotterm = FALSE, !.event_break = FALSE]
  /\ hist' = [hist EXCEPT !.late = 0]
  /\ UNCHANGED <<q, ev, th, clock>>

\* The label done of event_base_loop.
LoopExit(b) ==
  /\ loop' = Outside
  /\ base' = [clear_time_cache(b) EXCEPT !.running_loop = FALSE]

\* timeout_next: how long the backend is to wait.
timeout_next ==
  IF q.timeheap = {} THEN NoTimeval
  ELSE LET top == CHOOSE e \in Earliest(q.timeheap, ev) : TRUE
       IN  Max2(0, ev[top].timeout - gettime(base))

\* Fault: event_base_loop leaves event_break to the dispatch of the callbacks.
LoopTopIgnoresBreak ==
  LET b == [base EXCEPT !.event_continue = FALSE, !.n_deferreds_queued = 0]
      tv == IF N_ACTIVE_CALLBACKS = 0 THEN timeout_next ELSE 0
  IN  /\ loop.pc = "top"
      /\ IF base.event_gotterm \/ (~event_haveevents /\ N_ACTIVE_CALLBACKS = 0)
           THEN LoopExit(b)
         ELSE base' = b /\ loop' = [loop EXCEPT !.pc = "later", !.tv = tv]
      /\ UNCHANGED <<q, ev, th, clock, hist>>

LoopTop ==
  /\ loop.pc = "top"
  /\ LET b == [base EXCEPT !.event_continue = FALSE, !.n_deferreds_queued = 0]
         tv == IF N_ACTIVE_CALLBACKS = 0 /\ "NONBLOCK" \notin loop.flags
                 THEN timeout_next ELSE 0
         empty == /\ "NO_EXIT_ON_EMPTY" \notin loop.flags
                  /\ ~event_haveevents /\ N_ACTIVE_CALLBACKS = 0
     IN  IF base.event_gotterm \/ base.event_break \/ empty
           THEN LoopExit(b)
           ELSE /\ base' = b
                /\ loop' = [loop EXCEPT !.pc = "later", !.tv = tv]
  /\ UNCHANGED <<q, ev, th, clock, hist>>

\* event_queue_make_later_events_active
LoopMakeLaterActive ==
  /\ loop.pc = "later" /\ q.active_later_queue # << >>
  /\ q' = MakeLaterActive(q)
  /\ base' = [base EXCEPT !.n_deferreds_queued =
                @ + IF ev[Head(q.active_later_queue)].closure = "self" THEN 1 ELSE 0]
  /\ UNCHANGED <<ev, loop, th, clock, hist>>

\* The backend copies its fd sets and releases the lock.
LoopDispatch ==
  /\ loop.pc = "later" /\ q.active_later_queue = << >>
  /\ base' = clear_time_cache(base)
  /\ loop' = [loop EXCEPT
                !.pc = "select",
                !.tv = IF @ = NoTimeval THEN NoTimeval ELSE clock + @,
                !.polled = { e \in With(q, "INSERTED") : Kind[e] = "io" }]
  /\ UNCHANGED <<q, ev, th, clock, hist>>

NotifyReady == IF base.notify_readable THEN {NotifyEv} \cap loop.polled ELSE {}
Expired == loop.tv # NoTimeval /\ loop.tv <= clock

\* select returns: some of the polled fds are ready, or the time is over.
SelectReturn(ready) ==
  /\ loop.pc = "select"
  /\ ready # {} \/ NotifyReady # {} \/ Expired
  /\ loop' = [loop EXCEPT !.pc = "selected", !.ready = ready \cup NotifyReady,
                          !.polled = {}, !.tv = NoTimeval]
  /\ UNCHANGED <<q, ev, base, th, clock, hist>>

\* select fails, and so does event_base_loop.
SelectFails ==
  /\ loop.pc = "select"
  /\ LoopExit(base)
  /\ UNCHANGED <<q, ev, th, clock, hist>>

LoopRelock ==
  /\ loop.pc = "selected"
  /\ loop' = [loop EXCEPT !.pc = "activate"]
  /\ UNCHANGED <<q, ev, base, th, clock, hist>>

\* evmap_io_active_ of a ready fd: its event, if it is still there.
LoopActivate(e) ==
  /\ loop.pc = "activate" /\ e \in loop.ready
  /\ loop' = [loop EXCEPT !.ready = @ \ {e}]
  /\ IF "INSERTED" \in q.flags[e] /\ "FINALIZING" \notin q.flags[e]
       THEN /\ ev' = ActiveResult(q, e, {"EV_READ"})
            /\ q' = event_callback_activate_nolock_(q, e)
            /\ base' = IF CanActivate(q, e) THEN ActiveContinue(base, e) ELSE base
       ELSE UNCHANGED <<q, ev, base>>
  /\ UNCHANGED <<th, clock, hist>>

LoopUpdateTime ==
  /\ loop.pc = "activate" /\ loop.ready = {}
  /\ base' = update_time_cache(base)
  /\ loop' = [loop EXCEPT !.pc = "timeouts"]
  /\ UNCHANGED <<q, ev, th, clock, hist>>

\* timeout_process: the earliest event, if its time has come, is deleted and
\* activated.
LoopTimeout(e) ==
  LET s == event_del_nolock_(q, e)
      v == ActiveResult(s, e, {"EV_TIMEOUT"})
  IN  /\ loop.pc = "timeouts"
      /\ "FINALIZING" \notin q.flags[e]   \* else the loop spins: it is not removed
      /\ e \in Earliest(q.timeheap, ev) /\ ev[e].timeout <= gettime(base)
      /\ q' = IF CanActivate(s, e) THEN event_callback_activate_nolock_(s, e) ELSE s
      /\ ev' = ActiveCalls(v, e, 1)
      /\ base' = ActiveContinue(base, e)
      /\ loop' \in AbortLoop(e)
      /\ UNCHANGED <<th, clock, hist>>

LoopTimeoutsDone ==
  /\ loop.pc = "timeouts"
  /\ \A e \in Earliest(q.timeheap, ev) : ev[e].timeout > gettime(base)
  /\ loop' = [loop EXCEPT !.pc = "process"]
  /\ UNCHANGED <<q, ev, base, th, clock, hist>>

\* The first non-empty active queue from priority i on; NPriorities if none.
FirstQueue(i) ==
  CHOOSE j \in i .. NPriorities :
    /\ j = NPriorities \/ q.activequeues[j] # << >>
    /\ \A k \in i .. j - 1 : q.activequeues[k] = << >>

\* event_process_active returns n to event_base_loop.
ProcessDone(b, l, n) ==
  LET b1 == [b EXCEPT !.event_running_priority = -1]
  IN  IF "ONCE" \in l.flags /\ N_ACTIVE_CALLBACKS = 0 /\ n # 0
        THEN LoopExit(b1)
        ELSE /\ base' = b1
             /\ loop' = [l EXCEPT !.pc = "top", !.count = 0, !.endtime = NoTimeval]

\* event_process_active turns to the queues from priority i on.
ProcessFrom(b, l, i) ==
  LET j == FirstQueue(i)
  IN  IF j = NPriorities THEN ProcessDone(b, l, 0)
      ELSE /\ base' = [b EXCEPT !.event_running_priority = j]
           /\ loop' = [l EXCEPT !.pc = "queue", !.count = 0]

\* event_process_active_single_queue returns to event_process_active.
QueueDone(b, l) ==
  IF l.count > 0 THEN ProcessDone(b, l, l.count)
  ELSE ProcessFrom(b, l, b.event_running_priority + 1)

LoopProcess ==
  /\ loop.pc = "process"
  /\ LET b == IF MaxDispatchTime = -1 THEN base ELSE update_time_cache(base)
         end == IF MaxDispatchTime = -1 THEN NoTimeval ELSE gettime(b) + MaxDispatchTime
     IN  IF N_ACTIVE_CALLBACKS > 0 THEN ProcessFrom(b, [loop EXCEPT !.endtime = end], 0)
         ELSE IF "NONBLOCK" \in loop.flags THEN LoopExit(base)
         ELSE loop' = [loop EXCEPT !.pc = "top"] /\ UNCHANGED base
  /\ UNCHANGED <<q, ev, th, clock, hist>>

\* The callback at the head of the queue is taken off: an event that is not
\* persistent is deleted.
Taken(c) ==
  IF c \in Event /\ c \notin Persist /\ "FINALIZING" \notin q.flags[c]
    THEN event_del_nolock_(q, c)
    ELSE event_queue_remove_active(q, c)

\* event_persist_closure: when the event is to run next.
RunAt(c, now) ==
  LET from == IF "EV_TIMEOUT" \in ev[c].res THEN ev[c].timeout ELSE now
      at == from + ev[c].io_timeout
  IN  IF at < now THEN now + ev[c].io_timeout ELSE at

Rescheduled(c) == c \in Event /\ ev[c].closure = "persist" /\ ev[c].io_timeout # 0

\* Fault: the call is counted twice.
SignalCallTwice(c, k) == [ev EXCEPT ![c].ncalls = k - 2, ![c].pncalls = @ /\ k > 1]

\* event_signal_closure: k calls are left, and the first of them is to be made.
SignalCall(c, k) == [ev EXCEPT ![c].ncalls = k - 1, ![c].pncalls = @ /\ k > 1]

\* The history at the start of a callback.
Started(c) ==
  LET gone == c \in Event /\ c \notin Persist
  IN  [hist EXCEPT
         !.asked = IF gone THEN [@ EXCEPT ![c] = "no"] ELSE @,
         !.armed = IF gone \/ c \in Deferred THEN [@ EXCEPT ![c] = FALSE] ELSE @,
         !.late  = IF base.event_break THEN Min2(2, @ + 1) ELSE 0 ]

\* event_process_active_single_queue takes the next callback and, after the
\* part of its closure that has the lock, runs it.
LoopRun ==
  /\ loop.pc = "queue" /\ q.activequeues[base.event_running_priority] # << >>
  /\ LET c == Head(q.activequeues[base.event_running_priority])
         signal == ev[c].closure = "signal"
         finalizer == ev[c].closure \in {"finalize", "cb_finalize"}
         k == IF signal THEN ev[c].ncalls ELSE 0
         now == gettime(base)
         count == Min2(loop.count + Counted(c), MaxDispatchCallbacks)
     IN  /\ q' = IF Rescheduled(c) THEN event_add_nolock_(Taken(c), c, RunAt(c, now))
                 ELSE Taken(c)
         /\ ev' = IF Rescheduled(c) THEN AddFields(c, RunAt(c, now), TRUE, now)
                  ELSE IF k > 0 THEN [ev EXCEPT ![c].pncalls = TRUE] ELSE ev
         /\ base' = [base EXCEPT
                      !.current_event =
                        IF finalizer THEN NoCallback ELSE c,
                      !.current_event_waiters = 0]
         /\ loop' = [loop EXCEPT
                      !.pc = IF ~signal THEN "callback"
                             ELSE IF k > 0 THEN "count" ELSE "return",
                      !.count = count, !.running = c, !.finalizer = finalizer,
                      !.ncalls = k]
         /\ hist' = Started(c)
  /\ UNCHANGED <<th, clock>>

\* The queue is empty.
LoopQueueEmpty ==
  /\ loop.pc = "queue" /\ q.activequeues[base.event_running_priority] = << >>
  /\ QueueDone(base, loop)
  /\ UNCHANGED <<q, ev, th, clock, hist>>

\* event_signal_closure, without the lock: a call is counted and then made.
SignalCount ==
  /\ loop.pc = "count"
  /\ IF loop.ncalls = 0
       THEN loop' = [loop EXCEPT !.pc = "return"] /\ UNCHANGED ev
       ELSE /\ ev' = SignalCall(loop.running, loop.ncalls)
            /\ loop' = [loop EXCEPT !.pc = "callback", !.ncalls = @ - 1]
  /\ UNCHANGED <<q, base, th, clock, hist>>

\* event_signal_closure after a call: event_break is tested with the lock.
SignalAgain ==
  /\ loop.pc = "callback" /\ loop.ncalls > 0 /\ ~base.event_break
  /\ loop' = [loop EXCEPT !.pc = "count"]
  /\ UNCHANGED <<q, ev, base, th, clock, hist>>

\* Fault: the notification is acknowledged before the byte is read.
NotifyDrainAcknowledges ==
  /\ loop.pc = "callback" /\ loop.running = NotifyEv
  /\ base' = [base EXCEPT !.notify_readable = FALSE, !.is_notify_pending = FALSE]
  /\ loop' = [loop EXCEPT !.pc = "drain"]
  /\ UNCHANGED <<q, ev, th, clock, hist>>

\* evthread_notify_drain_default, the callback of th_notify.
NotifyDrain ==
  /\ loop.pc = "callback" /\ loop.running = NotifyEv
  /\ base' = [base EXCEPT !.notify_readable = FALSE]
  /\ loop' = [loop EXCEPT !.pc = "drain"]
  /\ UNCHANGED <<q, ev, th, clock, hist>>

NotifyDrained ==
  /\ loop.pc = "drain"
  /\ base' = [base EXCEPT !.is_notify_pending = FALSE]
  /\ loop' = [loop EXCEPT !.pc = "return"]
  /\ UNCHANGED <<q, ev, th, clock, hist>>

Woken(S) ==
  [t \in Thread |-> IF t \in S THEN [th[t] EXCEPT !.pc = "woken"] ELSE th[t]]

CondWaiters == { t \in Thread : th[t].pc = "wait" }

\* Fault: one of the waiters is woken.
EVTHREAD_COND_SIGNAL == Woken({ CHOOSE t \in CondWaiters : TRUE })

EVTHREAD_COND_BROADCAST == Woken(CondWaiters)

\* The callback has returned: the lock is acquired again, and the threads that
\* waited for the end of the callback are woken.
LoopReturn ==
  /\ \/ loop.pc = "return"
     \/ /\ loop.pc = "callback" /\ loop.running # NotifyEv
        /\ loop.ncalls = 0 \/ base.event_break
  /\ LET c == loop.running
     IN  /\ base' = [base EXCEPT
                      !.current_event = NoCallback,
                      !.current_event_waiters = 0,
                      !.event_gotterm = @ \/ c = ExitEv]     \* loopexit_cb
         /\ th' = IF base.current_event_waiters = 0 THEN th
                  ELSE EVTHREAD_COND_BROADCAST
         /\ ev' = IF loop.ncalls > 0 THEN [ev EXCEPT ![c].pncalls = FALSE] ELSE ev
         /\ hist' = IF ~loop.finalizer THEN hist
                    ELSE [hist EXCEPT !.finalized[c] = IF @ = "asked" THEN "done" ELSE "twice"]
         /\ loop' = [loop EXCEPT !.pc = "after", !.running = NoCallback,
                                 !.finalizer = FALSE, !.ncalls = 0]
  /\ UNCHANGED <<q, clock>>

\* Fault: event_break is tested in event_base_loop only.
LoopAfterIgnoresBreak ==
  LET limited == base.event_running_priority >= LimitCallbacksAfterPrio
  IN  /\ loop.pc = "after"
      /\ IF limited /\ loop.count = MaxDispatchCallbacks
           THEN ProcessDone(base, loop, loop.count)
         ELSE IF base.event_continue THEN QueueDone(base, loop)
         ELSE base' = base /\ loop' = [loop EXCEPT !.pc = "queue"]
      /\ UNCHANGED <<q, ev, th, clock, hist>>

\* event_process_active_single_queue after a callback.
LoopAfter ==
  LET limited == base.event_running_priority >= LimitCallbacksAfterPrio
      timed == limited /\ loop.count > 0 /\ loop.endtime # NoTimeval
      b == IF timed THEN update_time_cache(base) ELSE base
  IN  /\ loop.pc = "after"
      /\ IF base.event_break THEN ProcessDone(base, loop, -1)
         ELSE IF limited /\ loop.count = MaxDispatchCallbacks
           THEN ProcessDone(base, loop, loop.count)
         ELSE IF timed /\ gettime(b) >= loop.endtime THEN ProcessDone(b, loop, loop.count)
         ELSE IF b.event_continue THEN QueueDone(b, loop)
         ELSE base' = b /\ loop' = [loop EXCEPT !.pc = "queue"]
      /\ UNCHANGED <<q, ev, th, clock, hist>>

-----------------------------------------------------------------------------
Api(a) ==
  \/ \E e \in UserEvent :
       \/ \E tv \in Delays \cup (IF Kind[e] = "timer" THEN {} ELSE {NoTimeval}) :
            event_add(a, e, tv)
       \/ event_remove_timer(a, e)
       \/ \E f \in {"event_del", "event_del_block", "event_del_noblock"} :
            event_del(a, e, f)
       \/ \E n \in 1 .. (IF Kind[e] = "signal" THEN MaxCalls ELSE 1) :
            event_active(a, e, n)
       \/ event_active_later_(a, e)
       \/ event_finalize(a, e)
  \/ \E c \in Deferred :
       \/ event_deferred_cb_schedule_(a, c)
       \/ event_deferred_cb_cancel_(a, c)
       \/ event_callback_finalize_(a, c)
  \/ \E tv \in Delays \cup {NoTimeval} : event_base_loopexit(a, tv)
  \/ event_base_loopbreak(a)
  \/ event_base_loopcontinue(a)
  \/ event_base_add_virtual_(a)
  \/ event_base_del_virtual_(a)

\* The steps of the loop thread that depend on nobody else.
LoopStep ==
  \/ LoopTop \/ LoopMakeLaterActive \/ LoopDispatch
  \/ SelectReturn({})
  \/ LoopRelock \/ LoopUpdateTime \/ LoopTimeoutsDone \/ LoopProcess
  \/ \E e \in Event : LoopActivate(e) \/ LoopTimeout(e)
  \/ LoopRun \/ LoopQueueEmpty \/ SignalCount \/ SignalAgain
  \/ NotifyDrain \/ NotifyDrained \/ LoopReturn \/ LoopAfter

\* Some fds become ready while the backend waits.
FdsReady == \E ready \in SUBSET (loop.polled \ {NotifyEv}) : ready # {} /\ SelectReturn(ready)

\* A critical section is short compared to a tick of the clock.
Tick ==
  /\ LockFree
  /\ clock < MaxTime
  /\ clock' = clock + 1
  /\ UNCHANGED <<q, ev, base, loop, th, hist>>

Next ==
  \/ \E a \in Actor : Api(a)
  \/ \E t \in Thread : ThreadResume(t) \/ ThreadIdle(t)
  \/ LoopEnter \/ LoopStep \/ FdsReady \/ SelectFails
  \/ Tick

Spec == Init /\ [][Next]_vars

-----------------------------------------------------------------------------
TypeOK ==
  /\ q \in Queues
  /\ ev \in [Callback -> CallbackFields]
  /\ base \in BaseFields
  /\ loop \in LoopLocals
  /\ th \in [Thread -> ThreadLocals]
  /\ clock \in Nat
  /\ hist \in History

\* The assertions of event_base_assert_ok_nolock_ hold whenever the lock can be
\* taken, and event_count is the number of registrations that keep the loop going.
QueuesAlwaysOK == QueuesOK(q)

\* A thread waits on current_event_cond only while the loop runs the callback it
\* waits for, and is counted, so that the loop will broadcast: event_del cannot
\* wait for ever, whatever the callback and the other threads do meanwhile.
WaitersServed ==
  /\ base.current_event_waiters = Cardinality({ t \in Thread : th[t].pc = "wait" })
  /\ \A t \in Thread : th[t].pc = "wait" =>
       /\ th[t].ev = base.current_event
       /\ loop.running = th[t].ev
       /\ loop.pc \in {"count", "callback", "drain", "return"}

\* What another thread may have changed since the loop decided to wait.
NewWork ==
  \/ N_ACTIVE_CALLBACKS > 0
  \/ base.event_break
  \/ \E e \in With(q, "INSERTED") : Kind[e] = "io" /\ e \notin loop.polled

\* No lost wakeup: the loop never sleeps on new work, a callback that was activated,
\* a loopbreak or a new fd to poll, without a byte in the notify socket; and only such a
\* byte, or its drain under way, suppresses further notifications.
NoLostWakeup ==
  /\ loop.pc = "select" /\ NewWork => base.notify_readable \/ Expired
  /\ base.is_notify_pending <=> base.notify_readable \/ loop.pc = "drain"

\* The backend does not sleep beyond the time an event asked to be run at.
NoOversleep ==
  loop.pc = "select" =>
    \A e \in q.timeheap :
      \/ base.notify_readable \/ Expired
      \/ loop.tv # NoTimeval /\ loop.tv <= ev[e].timeout

\* event_base_loop returns when there is nothing left to wait for: a deletion or the end
\* of the last virtual event, by another thread, wakes a loop that would sleep for ever.
EmptyLoopWakes ==
  loop.pc = "select" /\ "NO_EXIT_ON_EMPTY" \notin loop.flags /\ loop.tv = NoTimeval
    /\ ~event_haveevents => base.notify_readable

Starts(c) == loop'.running = c /\ loop.running # c

\* After event_del has returned, no callback of the event starts until somebody adds
\* or activates it again, in whatever queue it was when it was deleted.
RunsOnlyIfArmed ==
  [][ \A c \in UserEvent \cup Deferred :
        Starts(c) /\ ~loop'.finalizer => hist.armed[c] ]_vars

\* The comment on event_del_nolock_: when it returns, the callback is not running,
\* unless somebody has made the event pending or active after the deletion.
DelQuiescent ==
  \A t \in Thread :
    th[t].pc = "deleted" /\ ~hist.armed[th[t].ev] => loop.running # th[t].ev

\* event_base_loopbreak: at most one callback is run after it.
BreakAfterOneEvent == hist.late <= 1

\* No event has its callback started while one of a higher priority (a lower number)
\* is active.
PriorityOrder ==
  [][ \A c \in Callback :
        Starts(c) => \A d \in With(q, "ACTIVE") : Priority[c] <= Priority[d] ]_vars

\* A finalizer that was asked for is queued or running until it is done: nothing the
\* other threads and the callbacks do to the event takes it off the queue.
FinalizerWillRun ==
  \A c \in Callback : hist.finalized[c] = "asked" =>
    \/ {"ACTIVE", "FINALIZING"} \subseteq q.flags[c]
    \/ loop.running = c /\ loop.finalizer
    \/ \E t \in Thread : th[t].op = "finalize" /\ th[t].ev = c

\* A finalizer runs once, on a callback that is marked (EVUTIL_ASSERT of
\* event_process_active_single_queue), and when it has, nothing of the event is left in the
\* base: its memory can be released.
FinalizedIsGone ==
  /\ loop.finalizer => "FINALIZING" \in q.flags[loop.running]
  /\ \A c \in Callback :
       /\ hist.finalized[c] = "done" => q.flags[c] = {"FINALIZING"}
       /\ hist.finalized[c] # "twice"

\* An event is in the backend or in the heap only if the application has added it
\* after it was last deleted: a deletion that races with the re-scheduling of the
\* event by event_persist_closure is not undone by it.
PendingOnlyIfAdded ==
  \A e \in UserEvent :
    q.flags[e] \cap {"INSERTED", "TIMEOUT"} # {} => hist.asked[e] # "no"

\* event_add: "If atimeout is NULL, no timeout occurs".
TimeoutOnlyIfAsked ==
  \A e \in UserEvent : "TIMEOUT" \in q.flags[e] => hist.asked[e] = "timed"

\* The calls that event_signal_closure, without the lock, and the API leave to a signal event:
\* an active one has a call to make, as the closure does not overwrite what event_active has
\* stored, and deleting a persistent one ends the loop of its calls.  (event_finalize does not
\* wait for a count under way: the rest of the calls may still be made.)
SignalCallsOK ==
  /\ \A e \in UserEvent :
       ev[e].closure = "signal" /\ "ACTIVE" \in q.flags[e] /\ loop.running # e
         => ev[e].ncalls > 0
  /\ loop.pc \in {"count", "callback"} /\ loop.running \in Persist /\ loop.ncalls > 0
     /\ hist.finalized[loop.running] = "no"
       => hist.armed[loop.running]

-----------------------------------------------------------------------------
(* Liveness.  The loop thread keeps running and callbacks return (LoopStep *)
(* is weakly fair); a thread that waits for th_base_lock gets it if it is  *)
(* free again and again.                                                   *)

Fairness ==
  /\ WF_vars(LoopStep)
  /\ \A t \in Thread : SF_vars(ThreadResume(t))

FairSpec == Spec /\ Fairness

\* A call that waits for a callback returns.
WaitersReturn == \A t \in Thread : th[t].pc = "wait" ~> th[t].pc # "wait" /\ th[t].pc # "woken"

\* A callback that is active is run or cancelled, or the loop is left.
ActiveRuns ==
  \A c \in Callback :
    q.flags[c] \cap {"ACTIVE", "ACTIVE_LATER"} # {} ~>
      \/ q.flags[c] \cap {"ACTIVE", "ACTIVE_LATER"} = {}
      \/ loop.pc = "out"

\* Deferred callbacks that schedule one another do not keep the loop from polling.
DeferredsDoNotStarve == []<>(loop.pc \in {"out", "select"})

\* event_base_loopbreak takes effect, whatever the callbacks activate again.
LoopStops == base.event_break ~> loop.pc = "out"
=============================================================================
