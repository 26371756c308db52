---------------------------- MODULE EventQueues ----------------------------
(***************************************************************************)
(* The queues of a struct event_base and the flags of the callbacks on     *)
(* them (event.c, "queue operations").  A callback is a struct event or a  *)
(* bare struct event_callback (a deferred callback).  A state of the       *)
(* queues is a record q:                                                   *)
(*   flags                ev_flags / evcb_flags, without the two constant  *)
(*                        ones: EVLIST_INIT is membership in Event and     *)
(*                        EVLIST_INTERNAL membership in Internal           *)
(*   activequeues         one TAILQ for each priority                      *)
(*   active_later_queue   callbacks activated for the next iteration       *)
(*   timeheap             the events of the min heap (module MinHeap)      *)
(*   event_count          registrations of callbacks that are not internal *)
(*   event_count_active   callbacks on an active queue or the later queue  *)
(* The operators are the static functions of event.c: each gives the state *)
(* after the function, called as its callers do, on a callback for which   *)
(* the EVUTIL_FAILURE_CHECK of the function does not fail.                 *)
(***************************************************************************)
EXTENDS Integers, Sequences, FiniteSets

CONSTANTS
  Event,         \* the structs event assigned to the base
  Deferred,      \* the structs event_callback that are not part of an event
  Internal,      \* events with EVLIST_INTERNAL
  NPriorities,   \* nactivequeues
  Priority       \* ev_pri / evcb_pri of every callback

Callback == Event \cup Deferred

ASSUME QueuesAssumption ==
  /\ IsFiniteSet(Callback)
  /\ Event \cap Deferred = {}
  /\ Internal \subseteq Event
  /\ NPriorities \in Nat \ {0}
  /\ Priority \in [Callback -> 0 .. NPriorities - 1]

Priorities == 0 .. NPriorities - 1
Flag == {"INSERTED", "TIMEOUT", "ACTIVE", "ACTIVE_LATER", "FINALIZING"}

Queues ==
  [ flags              : [Callback -> SUBSET Flag],
    activequeues       : [Priorities -> Seq(Callback)],
    active_later_queue : Seq(Callback),
    timeheap           : SUBSET Event,
    event_count        : Int,
    event_count_active : Int ]

EmptyQueues ==
  [ flags              |-> [c \in Callback |-> {}],
    activequeues       |-> [i \in Priorities |-> << >>],
    active_later_queue |-> << >>,
    timeheap           |-> {},
    event_count        |-> 0,
    event_count_active |-> 0 ]

\* What INCR_EVENT_COUNT adds and DECR_EVENT_COUNT takes away.
Counted(c) == IF c \in Internal THEN 0 ELSE 1

\* TAILQ_REMOVE
Unlink(s, c) ==
  LET i == CHOOSE k \in 1 .. Len(s) : s[k] = c
  IN  SubSeq(s, 1, i - 1) \o SubSeq(s, i + 1, Len(s))

event_queue_insert_inserted(q, e) ==
  [q EXCEPT !.flags[e] = @ \cup {"INSERTED"},
            !.event_count = @ + Counted(e)]

\* Fault: the event is not counted out.
RemoveInsertedKeepsCount(q, e) == [q EXCEPT !.flags[e] = @ \ {"INSERTED"}]

event_queue_remove_inserted(q, e) ==
  [q EXCEPT !.flags[e] = @ \ {"INSERTED"},
            !.event_count = @ - Counted(e)]

event_queue_insert_timeout(q, e) ==
  [q EXCEPT !.flags[e] = @ \cup {"TIMEOUT"},
            !.timeheap = @ \cup {e},
            !.event_count = @ + Counted(e)]

event_queue_remove_timeout(q, e) ==
  [q EXCEPT !.flags[e] = @ \ {"TIMEOUT"},
            !.timeheap = @ \ {e},
            !.event_count = @ - Counted(e)]

\* "Double insertion is possible for active events": it does nothing.
event_queue_insert_active(q, c) ==
  IF "ACTIVE" \in q.flags[c] THEN q
  ELSE [q EXCEPT !.flags[c] = @ \cup {"ACTIVE"},
                 !.activequeues[Priority[c]] = Append(@, c),
                 !.event_count = @ + Counted(c),
                 !.event_count_active = @ + 1]

event_queue_remove_active(q, c) ==
  [q EXCEPT !.flags[c] = @ \ {"ACTIVE"},
            !.activequeues[Priority[c]] = Unlink(@, c),
            !.event_count = @ - Counted(c),
            !.event_count_active = @ - 1]

event_queue_insert_active_later(q, c) ==
  IF q.flags[c] \cap {"ACTIVE", "ACTIVE_LATER"} # {} THEN q
  ELSE [q EXCEPT !.flags[c] = @ \cup {"ACTIVE_LATER"},
                 !.active_later_queue = Append(@, c),
                 !.event_count = @ + Counted(c),
                 !.event_count_active = @ + 1]

event_queue_remove_active_later(q, c) ==
  [q EXCEPT !.flags[c] = @ \ {"ACTIVE_LATER"},
            !.active_later_queue = Unlink(@, c),
            !.event_count = @ - Counted(c),
            !.event_count_active = @ - 1]

\* One iteration of event_queue_make_later_events_active: the counters stay.
MakeLaterActive(q) ==
  LET c == Head(q.active_later_queue)
  IN  [q EXCEPT !.flags[c] = (@ \ {"ACTIVE_LATER"}) \cup {"ACTIVE"},
                !.active_later_queue = Tail(@),
                !.activequeues[Priority[c]] = Append(@, c)]

\* Fault: the flag is not set.
SetFinalizingForgotten(q, c) == q

SetFinalizing(q, c) == [q EXCEPT !.flags[c] = @ \cup {"FINALIZING"}]

-----------------------------------------------------------------------------
(* What event_base_assert_ok_nolock_ asserts of the queues, made two-way,  *)
(* and what event_count is for.                                            *)

With(q, f) == { c \in Callback : f \in q.flags[c] }

\* A TAILQ holds exactly the callbacks of S, each once.
Lists(s, S) ==
  /\ { s[k] : k \in 1 .. Len(s) } = S
  /\ \A j, k \in 1 .. Len(s) : s[j] = s[k] => j = k

ActiveListed(q) ==
  \A i \in Priorities :
    Lists(q.activequeues[i], { c \in With(q, "ACTIVE") : Priority[c] = i })

LaterListed(q) == Lists(q.active_later_queue, With(q, "ACTIVE_LATER"))

NeverBoth(q) == With(q, "ACTIVE") \cap With(q, "ACTIVE_LATER") = {}

HeapListed(q) == q.timeheap = With(q, "TIMEOUT")

OnlyEvents(q) == With(q, "INSERTED") \subseteq Event

ActiveCounted(q) ==
  q.event_count_active =
    Cardinality(With(q, "ACTIVE")) + Cardinality(With(q, "ACTIVE_LATER"))

RegistrationsCounted(q) ==
  q.event_count =
    Cardinality(With(q, "INSERTED") \ Internal)
      + Cardinality(With(q, "TIMEOUT") \ Internal)
      + Cardinality(With(q, "ACTIVE") \ Internal)
      + Cardinality(With(q, "ACTIVE_LATER") \ Internal)

QueuesOK(q) ==
  /\ ActiveListed(q)
  /\ LaterListed(q)
  /\ NeverBoth(q)
  /\ HeapListed(q)
  /\ OnlyEvents(q)
  /\ ActiveCounted(q)
  /\ RegistrationsCounted(q)
=============================================================================
