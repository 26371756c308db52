--------------------------- MODULE CommonTimeouts ---------------------------
(***************************************************************************)
(* The two containers for the timeouts of an event_base (event.c): the     *)
(* heap, and for each common timeout a queue of events that ends in the    *)
(* order of their times because all of them wait equally long.  An         *)
(* internal event in the heap stands for the head of each queue.  The heap *)
(* is what TimeoutQueue promises: a set with an earliest element.          *)
(*                                                                         *)
(* Calls and callbacks are steps under th_base_lock.  They go by the time  *)
(* that the loop has cached when the backend returned, unless the base has *)
(* EVENT_BASE_FLAG_NO_CACHE_TIME or the loop is in the backend.  The wait  *)
(* of the loop for the earliest time in the heap is counted from that time *)
(* too, and ends late by as much as it was old.                            *)
(***************************************************************************)
EXTENDS Naturals, Sequences, SequencesExt, FiniteSets

CONSTANTS
  Event, Persist,
  Duration,             \* the durations callers use, plain or common
  MAX_COMMON_TIMEOUTS,
  Never, Awake, Forever,
  MaxTime               \* bound of the clock

CommonAssumption ==
  /\ Persist \subseteq Event /\ Event \cap (1..MAX_COMMON_TIMEOUTS) = {}
  /\ Duration \subseteq Nat \ {0}
  /\ MAX_COMMON_TIMEOUTS \in Nat
  /\ MaxTime \in Nat
  /\ {Never, Awake, Forever} \cap Nat = {} /\ Awake # Forever

VARIABLES
  now,         \* the monotonic clock
  no_cache,    \* EVENT_BASE_FLAG_NO_CACHE_TIME
  tv_cache,    \* the cached time, or Never
  queues,      \* for each common timeout its duration and its events
  heap,        \* the events and the indices of the queues in the heap
  timeout,     \* ev_timeout, of the events and of each queue's timeout_event
  interval,    \* ev_io_timeout: <<duration, index or 0>>
  active,      \* the events and queues activated by their timeouts
  sleep,       \* the time to which the loop sleeps, or Awake or Forever
  lag,         \* how old the time was from which that wait was counted
  notified

clocks == <<now, no_cache, tv_cache>>
wait == <<sleep, lag>>
vars == <<clocks, queues, heap, timeout, interval, active, wait, notified>>

Plain == 0
Index == 1..MAX_COMMON_TIMEOUTS
Timeval == Duration \X (Index \cup {Plain})

Init ==
  /\ now = 0 /\ no_cache \in BOOLEAN /\ tv_cache = Never
  /\ queues = <<>>
  /\ heap = {}
  /\ timeout = [e \in Event \cup Index |-> Never]
  /\ interval = [e \in Event |-> <<0, Plain>>]
  /\ active = {}
  /\ sleep = Awake /\ lag = 0 /\ notified = FALSE

\* The time by which the base goes.
gettime == IF tv_cache = Never THEN now ELSE tv_cache

\* The queue in which an event stands.
QueueOf(e) == { i \in DOMAIN queues : e \in ToSet(queues[i].events) }

Pending == (heap \cap Event) \cup { e \in Event : QueueOf(e) # {} }

\* A timeval is common when it is one that event_base_init_common_timeout has returned.
IsCommon(tv) == tv[2] # Plain
Known(tv) == IsCommon(tv) => tv[2] \in DOMAIN queues /\ queues[tv[2]].duration = tv[1]

-----------------------------------------------------------------------------
(* The containers, as values: st has the fields queues, heap, timeout, active *)
(* and notify.                                                                *)

State == [queues |-> queues, heap |-> heap, timeout |-> timeout, active |-> active,
          notify |-> FALSE]

Become(st) ==
  /\ queues' = st.queues /\ heap' = st.heap
  /\ timeout' = st.timeout /\ active' = st.active

\* A queue without e, which stands in it once at most.
Unlinked(q, e) ==
  IF \E n \in DOMAIN q : q[n] = e THEN RemoveAt(q, CHOOSE n \in DOMAIN q : q[n] = e) ELSE q

event_queue_remove_timeout(st, e) ==
  [st EXCEPT !.heap = @ \ {e},
             !.queues = [i \in DOMAIN st.queues |->
                           [st.queues[i] EXCEPT !.events = Unlinked(@, e)]]]

\* The part of event_add_nolock_ with a plain absolute time: e may be pending, or active
\* by its last timeout.  It may be on top of the heap with others of the same time.
AddPlain(st, e, time) ==
  LET r == event_queue_remove_timeout(st, e)
      s == [r EXCEPT !.heap = @ \cup {e}, !.timeout[e] = time, !.active = @ \ {e}]
  IN [s EXCEPT !.notify = @ \/ (\A f \in s.heap \ {e} : time < s.timeout[f])
                            \/ (\E f \in s.heap : s.timeout[f] < gettime)]

\* Fault: the internal event of a queue in the heap is not moved.
ScheduleOnce(st, i) ==
  IF i \in st.heap THEN st ELSE AddPlain(st, i, st.timeout[Head(st.queues[i].events)])

common_timeout_schedule(st, i) == AddPlain(st, i, st.timeout[Head(st.queues[i].events)])

\* Fault: the event is appended, as "by all logic, we should just be able to".
AppendInOrder(st, i, e) ==
  [st EXCEPT !.queues[i].events = Append(@, e)]

\* The search from the end for the last event that is not later.
insert_common_timeout_inorder(st, i, e) ==
  LET q == st.queues[i].events
      earlier == { n \in DOMAIN q : st.timeout[q[n]] <= st.timeout[e] }
      place == IF earlier = {} THEN 1 ELSE CHOOSE n \in 1..Len(q) + 1 :
                 n - 1 \in earlier /\ \A m \in earlier : m <= n - 1
  IN [st EXCEPT !.queues[i].events = InsertAt(q, place, e)]

AddCommon(st, e, i, time) ==
  LET r == event_queue_remove_timeout(st, e)
      s == insert_common_timeout_inorder(
             [r EXCEPT !.timeout[e] = time, !.active = @ \ {e}], i, e)
  IN IF Head(s.queues[i].events) = e THEN common_timeout_schedule(s, i) ELSE s

AddAt(st, e, tv, time) ==
  IF IsCommon(tv) THEN AddCommon(st, e, tv[2], time) ELSE AddPlain(st, e, time)

-----------------------------------------------------------------------------
(* Calls, made by a callback or, while the loop sleeps, by another thread  *)

Notify(st) == notified' = (notified \/ (st.notify /\ sleep # Awake))

\* A duration that has a queue already gets that one.
event_base_init_common_timeout(d) ==
  /\ Len(queues) < MAX_COMMON_TIMEOUTS
  /\ \A i \in DOMAIN queues : queues[i].duration # d
  /\ queues' = Append(queues, [duration |-> d, events |-> <<>>])
  /\ UNCHANGED <<clocks, heap, timeout, interval, active, wait, notified>>

event_add(e, tv) ==
  /\ Known(tv)
  /\ LET st == AddAt(State, e, tv, gettime + tv[1])
     IN Become(st) /\ Notify(st)
  /\ interval' = IF e \in Persist THEN [interval EXCEPT ![e] = tv] ELSE interval
  /\ UNCHANGED <<clocks, wait>>

\* The internal event of the queue stays as it is.
event_del(e) ==
  /\ e \in Pending \cup active
  /\ Become([event_queue_remove_timeout(State, e) EXCEPT !.active = @ \ {e}])
  /\ UNCHANGED <<clocks, interval, wait, notified>>

\* While the loop runs, in the backend too; before that it changes nothing.
event_base_update_cache_time ==
  /\ ~no_cache /\ (sleep = Awake => tv_cache # Never)
  /\ tv_cache' = now
  /\ UNCHANGED <<now, no_cache, queues, heap, timeout, interval, active, wait, notified>>

-----------------------------------------------------------------------------
(* The loop                                                                *)

\* Fault: the queue is not scheduled for the events that are left.
CallbackForgetsRest(i) ==
  /\ sleep = Awake /\ i \in active
  /\ LET q == queues[i].events
         expired == SelectSeq(q, LAMBDA e : timeout[e] <= gettime)
     IN Become([State EXCEPT !.queues[i].events = SelectSeq(q, LAMBDA e : timeout[e] > gettime),
                             !.active = (@ \ {i}) \cup ToSet(expired)])
  /\ UNCHANGED <<clocks, interval, wait, notified>>

\* Fault: the queue's head is activated without a look at its time.
CallbackTrustsHead(i) ==
  /\ sleep = Awake /\ i \in active
  /\ LET q == queues[i].events
         late == IF q = <<>> THEN <<>> ELSE Tail(q)
         st == [State EXCEPT !.queues[i].events = late,
                             !.active = (@ \ {i}) \cup (IF q = <<>> THEN {} ELSE {Head(q)})]
     IN Become(IF late = <<>> THEN st ELSE common_timeout_schedule(st, i))
  /\ UNCHANGED <<clocks, interval, wait, notified>>

\* The events at the front of the queue that have expired, up to the first that has not.
common_timeout_callback(i) ==
  /\ sleep = Awake /\ i \in active
  /\ LET q == queues[i].events
         n == CHOOSE k \in 0..Len(q) : /\ \A j \in 1..k : timeout[q[j]] <= gettime
                                       /\ k < Len(q) => timeout[q[k + 1]] > gettime
         st == [State EXCEPT !.queues[i].events = SubSeq(q, n + 1, Len(q)),
                             !.active = (@ \ {i}) \cup { q[j] : j \in 1..n }]
     IN Become(IF n = Len(q) THEN st ELSE common_timeout_schedule(st, i))
  /\ UNCHANGED <<clocks, interval, wait, notified>>

\* The time of the next round: an interval after the last one, unless that has passed.
RunAt(e) == IF timeout[e] + interval[e][1] < gettime
            THEN gettime + interval[e][1] ELSE timeout[e] + interval[e][1]

\* An active event is run; event_persist_closure schedules a persistent one again, and
\* keeps it in the same container.
RunEvent(e) ==
  /\ sleep = Awake /\ e \in active \cap Event
  /\ LET st == [State EXCEPT !.active = @ \ {e}]
     IN Become(IF e \in Persist THEN AddAt(st, e, interval[e], RunAt(e)) ELSE st)
  /\ UNCHANGED <<clocks, interval, wait, notified>>

\* timeout_next: no wait while something is active or due, and else as long as from the time
\* of the base to the earliest one in the heap.
timeout_next ==
  LET first == timeout[CHOOSE e \in heap : \A f \in heap : timeout[e] <= timeout[f]]
  IN IF active # {} \/ first <= gettime THEN 0 ELSE first - gettime

\* The loop clears the cached time and calls the backend.
Sleep ==
  /\ sleep = Awake
  /\ sleep' = IF active = {} /\ heap = {} THEN Forever ELSE now + timeout_next
  /\ lag' = now - gettime
  /\ tv_cache' = Never
  /\ UNCHANGED <<now, no_cache, queues, heap, timeout, interval, active, notified>>

\* The backend returns: update_time_cache, and timeout_process.
Wake ==
  /\ sleep # Awake
  /\ notified \/ sleep \in 0..now
  /\ sleep' = Awake /\ lag' = 0 /\ notified' = FALSE
  /\ tv_cache' = IF no_cache THEN Never ELSE now
  /\ LET expired == { e \in heap : timeout[e] <= now }
     IN heap' = heap \ expired /\ active' = active \cup expired
  /\ UNCHANGED <<now, no_cache, queues, timeout, interval>>

Tick ==
  /\ now < MaxTime
  /\ now' = now + 1
  /\ UNCHANGED <<no_cache, tv_cache, queues, heap, timeout, interval, active, wait, notified>>

Next ==
  \/ \E d \in Duration : event_base_init_common_timeout(d)
  \/ \E e \in Event : event_del(e) \/ RunEvent(e) \/ \E tv \in Timeval : event_add(e, tv)
  \/ event_base_update_cache_time \/ Sleep \/ Wake \/ Tick
  \/ \E i \in Index : common_timeout_callback(i)

Spec == Init /\ [][Next]_vars

-----------------------------------------------------------------------------
TypeOK ==
  /\ now \in 0..MaxTime /\ no_cache \in BOOLEAN
  /\ tv_cache \in 0..now \cup {Never} /\ lag \in 0..now
  /\ Len(queues) <= MAX_COMMON_TIMEOUTS
  /\ \A i \in DOMAIN queues : queues[i].duration \in Duration /\ queues[i].events \in Seq(Event)
  /\ heap \subseteq Event \cup DOMAIN queues
  /\ \A e \in heap \cup active \cup Pending : timeout[e] \in Nat
  /\ interval \in [Event -> Timeval \cup {<<0, Plain>>}]
  /\ active \subseteq Event \cup DOMAIN queues
  /\ sleep \in Nat \cup {Awake, Forever} /\ notified \in BOOLEAN

\* Each event stands once, in one container; the queues are in the order of the times,
\* although the times of persistent events count from their last round.
QueuesOrdered ==
  /\ \A e \in Event : Cardinality(QueueOf(e)) + (IF e \in heap THEN 1 ELSE 0) <= 1
  /\ \A i \in DOMAIN queues :
       LET q == queues[i].events
       IN \A m, n \in DOMAIN q : m < n => q[m] # q[n] /\ timeout[q[m]] <= timeout[q[n]]

\* The heap speaks for the queues: the internal event of a queue with events is in the
\* heap, no later than its head, or about to be run.
HeapCoversQueues ==
  \A i \in DOMAIN queues :
    queues[i].events # <<>> =>
      i \in active \/ (i \in heap /\ timeout[i] <= timeout[Head(queues[i].events)])

\* While the loop sleeps without a notification, nothing that is scheduled is earlier than the
\* end of its sleep, neither an event nor one in a queue, but by as much as the time was old
\* from which the loop counted.  Without a cached time it is not late at all.
NoOversleep ==
  /\ sleep # Awake /\ ~notified =>
       \A e \in Pending : sleep # Forever /\ (sleep <= now \/ sleep <= timeout[e] + lag)
  /\ no_cache => lag = 0

\* The queues, their events in the heap and the wait of the loop are right together.
CommonTimeoutsOK == TypeOK /\ QueuesOrdered /\ HeapCoversQueues /\ NoOversleep

Abstract == INSTANCE Timers WITH
  clock <- gettime,
  deadline <- [e \in Event |-> IF e \in Pending THEN timeout[e] ELSE Never],
  fired <- active \cap Event

\* With its queues, the base promises what one with a single set of timers does.
ImplementsTimers == Abstract!Spec
=============================================================================
