---------------------------- MODULE TimeoutQueue ----------------------------
(***************************************************************************)
(* What event.c expects of the container that holds the pending timeouts   *)
(* of an event_base: a set of events, each with the absolute time at which *)
(* it expires, of which one that expires first can be read (min_heap_top_) *)
(* and any one can be taken out.  Which of several events with the same    *)
(* timeout is on top is left open.                                         *)
(***************************************************************************)
EXTENDS Integers

CONSTANTS Event, NoEvent, MaxTimeout

Timeout == 0 .. MaxTimeout

VARIABLES
  timeouts,   \* ev_timeout of every event
  members,    \* the events in the container
  top         \* what min_heap_top_ returns

vars == <<timeouts, members, top>>

\* The events of S that expire no later than any other event of S.
Earliest(S, t) == { e \in S : \A f \in S : t[e] <= t[f] }

TopOf(S, t) == IF S = {} THEN {NoEvent} ELSE Earliest(S, t)

Init ==
  /\ timeouts \in [Event -> Timeout]
  /\ members = {}
  /\ top = NoEvent

\* The owner of an event that is not in the container gives it a timeout.
SetTimeout(e) ==
  /\ e \notin members
  /\ timeouts' \in { [timeouts EXCEPT ![e] = t] : t \in Timeout }
  /\ UNCHANGED <<members, top>>

Insert(e) ==
  /\ e \notin members
  /\ members' = members \cup {e}
  /\ top' \in TopOf(members', timeouts)
  /\ UNCHANGED timeouts

Remove(e) ==
  /\ e \in members
  /\ members' = members \ {e}
  /\ top' \in TopOf(members', timeouts)
  /\ UNCHANGED timeouts

\* Changing the timeout of a member and restoring the order is one step.
Reschedule(e) ==
  /\ e \in members
  /\ timeouts' \in { [timeouts EXCEPT ![e] = t] : t \in Timeout }
  /\ top' \in TopOf(members, timeouts')
  /\ UNCHANGED members

Next ==
  \E e \in Event : SetTimeout(e) \/ Insert(e) \/ Remove(e) \/ Reschedule(e)

Spec == Init /\ [][Next]_vars
=============================================================================
