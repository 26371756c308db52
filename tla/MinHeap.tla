------------------------------ MODULE MinHeap ------------------------------
(***************************************************************************)
(* minheap-internal.h: the binary heap of an event_base, ordered by        *)
(* ev_timeout, whose elements know their own position (min_heap_idx) so    *)
(* that event_del can erase an event from the middle.                      *)
(*                                                                         *)
(* p[0 .. n-1] is the array.  Each operation makes a hole in it and then   *)
(* runs a shift loop, which moves the hole up or down and fills it at the  *)
(* end: an action for the beginning, one for each iteration and one for    *)
(* the end.  No other operation begins meanwhile.                          *)
(***************************************************************************)
EXTENDS Integers, FiniteSets

CONSTANTS
  Event,        \* the events that may be given a timeout
  NoEvent,      \* the null pointer
  MaxTimeout    \* bound of the model on ev_timeout

ASSUME MinHeapAssumption ==
  /\ IsFiniteSet(Event)
  /\ NoEvent \notin Event
  /\ MaxTimeout \in Nat

VARIABLES
  p,              \* struct min_heap.p, a function on 0 .. n-1 between operations
  n,
  min_heap_idx,   \* ev_timeout_pos.min_heap_idx of every event, -1 outside
  ev_timeout,
  shift           \* the shift loop: its direction, the hole, the event that is to fill it,
                  \* and the event that min_heap_pop_ or min_heap_erase_ takes out

vars == <<p, n, min_heap_idx, ev_timeout, shift>>

Positions(k) == 0 .. k - 1
Parent(i) == (i - 1) \div 2

\* min_heap_elem_greater, for the timeouts t.
elem_greater(t, a, b) == t[a] > t[b]

min_heap_top_ == IF n = 0 THEN NoEvent ELSE p[0]
min_heap_elt_is_top_(e) == min_heap_idx[e] = 0

ShiftLocals ==
  [pc : {"up", "down"}, hole : Nat, elem : Event, erased : Event \cup {NoEvent}]

NoShift == [pc |-> "none", hole |-> 0, elem |-> NoEvent, erased |-> NoEvent]

-----------------------------------------------------------------------------
Init ==
  /\ p = [i \in {} |-> NoEvent]
  /\ n = 0
  /\ min_heap_idx = [e \in Event |-> -1]
  /\ ev_timeout \in [Event -> 0 .. MaxTimeout]
  /\ shift = NoShift

\* event_add_nolock_ stores a timeout in an event that is not in the heap.
SetTimeout(e, t) ==
  /\ shift = NoShift /\ min_heap_idx[e] = -1
  /\ ev_timeout' = [ev_timeout EXCEPT ![e] = t]
  /\ UNCHANGED <<p, n, min_heap_idx, shift>>

\* min_heap_push_
Push(e) ==
  /\ shift = NoShift /\ min_heap_idx[e] = -1
  /\ n' = n + 1
  /\ shift' = [pc |-> "up", hole |-> n, elem |-> e, erased |-> NoEvent]
  /\ UNCHANGED <<p, min_heap_idx, ev_timeout>>

\* min_heap_pop_
Pop ==
  /\ shift = NoShift /\ n > 0
  /\ n' = n - 1
  /\ shift' = [pc |-> "down", hole |-> 0, elem |-> p[n - 1], erased |-> p[0]]
  /\ UNCHANGED <<p, min_heap_idx, ev_timeout>>

\* What erase and adjust do with the hole h that e is to fill, for the timeouts t.  (The
\* unconditional variant of the loop upwards is called where the first comparison is known to hold.)
PlaceDown(t, h, e, erased) ==   \* Fault: the last element never rises
  shift' = [pc |-> "down", hole |-> h, elem |-> e, erased |-> erased]

Place(t, h, e, erased) ==
  shift' = [pc |-> IF h > 0 /\ elem_greater(t, p[Parent(h)], e) THEN "up" ELSE "down",
            hole |-> h, elem |-> e, erased |-> erased]

\* min_heap_erase_ fills the hole of e with the last element.
EraseKeepsSize(e) ==   \* Fault: the number of elements stays
  /\ shift = NoShift /\ min_heap_idx[e] # -1
  /\ Place(ev_timeout, min_heap_idx[e], p[n - 1], e)
  /\ UNCHANGED <<p, n, min_heap_idx, ev_timeout>>

Erase(e) ==
  /\ shift = NoShift /\ min_heap_idx[e] # -1
  /\ n' = n - 1
  /\ Place(ev_timeout, min_heap_idx[e], p[n - 1], e)
  /\ UNCHANGED <<p, min_heap_idx, ev_timeout>>

\* min_heap_adjust_ of an event of the heap whose timeout its caller has changed.
Adjust(e, t) ==
  /\ shift = NoShift /\ min_heap_idx[e] # -1
  /\ ev_timeout' = [ev_timeout EXCEPT ![e] = t]
  /\ Place(ev_timeout', min_heap_idx[e], e, NoEvent)
  /\ UNCHANGED <<p, n, min_heap_idx>>

-----------------------------------------------------------------------------
(* The shift loops.                                                        *)

\* The smaller child of i, the left one on a tie.
LeftChild(i) == 2 * i + 1   \* Fault: the siblings are not compared

SmallerChild(i) ==
  LET right == 2 * (i + 1)
  IN  IF right = n \/ elem_greater(ev_timeout, p[right], p[right - 1]) THEN right - 1 ELSE right

\* The conditions of the two loops
Rises ==
  /\ shift.pc = "up" /\ shift.hole > 0
  /\ elem_greater(ev_timeout, p[Parent(shift.hole)], shift.elem)

Sinks ==
  /\ shift.pc = "down" /\ 2 * (shift.hole + 1) <= n
  /\ elem_greater(ev_timeout, shift.elem, p[SmallerChild(shift.hole)])

\* The element at i moves to the hole, and the hole to i.
MoveHole(i) ==
  /\ p' = [j \in DOMAIN p \cup {shift.hole} |-> IF j = shift.hole THEN p[i] ELSE p[j]]
  /\ min_heap_idx' = [min_heap_idx EXCEPT ![p[i]] = shift.hole]
  /\ shift' = [shift EXCEPT !.hole = i]
  /\ UNCHANGED <<n, ev_timeout>>

\* An iteration of min_heap_shift_up_, and of min_heap_shift_down_.
ShiftUp == Rises /\ MoveHole(Parent(shift.hole))
ShiftDown == Sinks /\ MoveHole(SmallerChild(shift.hole))

\* The indices when the hole is filled; that of an erased event is written last.
IndicesKept ==   \* Fault: the index -1 is forgotten
  [e \in Event |-> IF e = shift.elem THEN shift.hole ELSE min_heap_idx[e]]

Indices ==
  [e \in Event |-> IF e = shift.erased THEN -1
                   ELSE IF e = shift.elem THEN shift.hole
                   ELSE min_heap_idx[e]]

\* The end of the loop, and of the operation.
Fill ==
  /\ shift # NoShift /\ ~Rises /\ ~Sinks
  /\ p' = [i \in Positions(n) |-> IF i = shift.hole THEN shift.elem ELSE p[i]]
  /\ min_heap_idx' = Indices
  /\ shift' = NoShift
  /\ UNCHANGED <<n, ev_timeout>>

Next ==
  \/ Pop
  \/ \E e \in Event :
       \/ Push(e)
       \/ Erase(e)
       \/ \E t \in 0 .. MaxTimeout : SetTimeout(e, t) \/ Adjust(e, t)
  \/ ShiftUp \/ ShiftDown \/ Fill

Spec == Init /\ [][Next]_vars

-----------------------------------------------------------------------------
TypeOK ==
  /\ n \in Nat
  /\ \E k \in n - 1 .. n + 1 : p \in [Positions(k) -> Event] /\ (shift = NoShift => k = n)
  /\ min_heap_idx \in [Event -> Nat \cup {-1}]
  /\ ev_timeout \in [Event -> 0 .. MaxTimeout]
  /\ shift = NoShift \/ shift \in ShiftLocals

\* No event expires before its parent in the heap.
HeapOrder ==
  \A i \in Positions(n) : i > 0 => ev_timeout[p[Parent(i)]] <= ev_timeout[p[i]]

\* The index an event keeps is where it is, and an event outside of the heap keeps none, so
\* that erase takes out the right one.
IndexInverse ==
  \A e \in Event :
    IF min_heap_idx[e] = -1
      THEN \A i \in Positions(n) : p[i] # e
      ELSE min_heap_idx[e] \in Positions(n) /\ p[min_heap_idx[e]] = e

\* event_base_assert_ok_nolock_: order and indices survive pushes, pops, erasures from the
\* middle and adjustments.
HeapOK == TypeOK /\ (shift = NoShift => HeapOrder /\ IndexInverse)

\* The positions that hold an element while a hole moves, the elements of the heap as they will
\* be when it is filled, and the one that will be on top.
Filled == Positions(n) \ IF shift = NoShift THEN {} ELSE {shift.hole}

Elements ==
  {p[i] : i \in Filled} \cup (IF shift = NoShift THEN {} ELSE {shift.elem} \ {shift.erased})

TopWhenFilled ==
  IF shift = NoShift \/ n = 0 THEN min_heap_top_
  ELSE IF shift.hole = 0 THEN IF Sinks THEN p[SmallerChild(0)] ELSE shift.elem
  ELSE IF shift.pc = "up" /\ elem_greater(ev_timeout, p[0], shift.elem) THEN shift.elem
  ELSE p[0]

\* The heap is a set of events of which min_heap_top_ gives one that expires first: an operation
\* takes effect when it begins.
Queue == INSTANCE TimeoutQueue
  WITH timeouts <- ev_timeout,
       members <- Elements,
       top <- TopWhenFilled

ImplementsTimeoutQueue == Queue!Spec
=============================================================================
