--------------------------- MODULE MinHeapProofs ---------------------------
(***************************************************************************)
(* Theorems of MinHeap, for any set of events and any timeouts: the heap   *)
(* is ordered and every event knows its place, and it implements           *)
(* TimeoutQueue.  The invariant says what the loops keep while a hole      *)
(* moves.  That the root expires first, which is not a step of a program   *)
(* but an induction over the tree, rests on the least element of a set of  *)
(* positions.                                                              *)
(***************************************************************************)
EXTENDS MinHeap, TLAPS, WellFoundedInduction

\* Which elements have an index, and which one, while a hole moves.
IndicesOK ==
  /\ Filled \subseteq DOMAIN p
  /\ \A i \in Filled : min_heap_idx[p[i]] = i
  /\ \A e \in Event : min_heap_idx[e] # -1 =>
       \/ min_heap_idx[e] \in Filled /\ p[min_heap_idx[e]] = e
       \/ shift # NoShift /\ e \in {shift.elem, shift.erased}

\* The event that is to fill the hole is nowhere else, nor is the one that is erased; they are the
\* same if the last one is erased, whose hole is behind the others.
HoleOK ==
  shift # NoShift =>
    /\ shift.hole \in 0 .. n
    /\ shift.hole = n <=> shift.elem = shift.erased
    /\ shift.hole = n => shift.pc = "down"
    /\ \A i \in Filled : p[i] # shift.elem /\ p[i] # shift.erased

\* Above and below the hole the order is kept, also from its parent to its children; when the hole
\* rises they are not less than what is to fill it, and when it sinks its parent is not greater.
OrderOK ==
  \A i \in Filled : i > 0 =>
    \/ Parent(i) \in Filled /\ ev_timeout[p[Parent(i)]] <= ev_timeout[p[i]]
    \/ /\ shift # NoShift /\ Parent(i) = shift.hole
       /\ shift.hole > 0 => ev_timeout[p[Parent(shift.hole)]] <= ev_timeout[p[i]]
       /\ shift.pc = "up" => ev_timeout[shift.elem] <= ev_timeout[p[i]]

ParentOK ==
  shift # NoShift /\ shift.pc = "down" /\ shift.hole > 0 =>
    ev_timeout[p[Parent(shift.hole)]] <= ev_timeout[shift.elem]

IInv == TypeOK /\ IndicesOK /\ HoleOK /\ OrderOK /\ ParentOK

-----------------------------------------------------------------------------
(* The tree.                                                               *)

\* Every position but the root has a parent before it, and is its left or its right child.
LEMMA Parents ==
  /\ \A i \in Nat : i > 0 => /\ Parent(i) \in Nat /\ Parent(i) < i
                             /\ i = 2 * Parent(i) + 1 \/ i = 2 * Parent(i) + 2
  /\ \A i \in Nat : Parent(2 * i + 1) = i /\ Parent(2 * i + 2) = i
  BY DEF Parent

\* A set of positions that is not empty has a first one.
LEMMA FirstPosition ==
  ASSUME NEW S \in SUBSET Nat, S # {}
  PROVE  \E m \in S : \A k \in S : m <= k
<1> DEFINE R == OpToRel(<, Nat)
<1>1. IsWellFoundedOn(R, Nat)
  BY NatLessThanWellFounded
<1>2. \A x, y \in Nat : x < y => <<x, y>> \in R
  BY DEF OpToRel
<1> HIDE DEF R
<1>3. PICK m \in S : \A y \in S : <<y, m>> \notin R
  BY <1>1, WFMin
<1>4. \A k \in S : ~(k < m)
  BY <1>2, <1>3
<1> QED
  BY <1>3, <1>4

\* The types that the proofs use.
LEMMA Types ==
  ASSUME TypeOK
  PROVE  /\ n \in Nat /\ Filled \subseteq Nat /\ Filled \subseteq Positions(n)
         /\ \A i \in DOMAIN p : i \in Nat /\ p[i] \in Event
         /\ \A e \in Event : ev_timeout[e] \in Nat /\ ev_timeout[e] \in 0 .. MaxTimeout
         /\ ev_timeout \in [Event -> 0 .. MaxTimeout]
         /\ min_heap_idx \in [Event -> Nat \cup {-1}]
         /\ \A e \in Event : min_heap_idx[e] \in Nat \cup {-1}
         /\ shift # NoShift =>
              /\ shift \in ShiftLocals
              /\ shift.hole \in Nat /\ shift.elem \in Event /\ shift.pc \in {"up", "down"}
         /\ shift = NoShift => p \in [Positions(n) -> Event] /\ Filled = Positions(n)
         /\ NoShift \notin ShiftLocals
<1>1. PICK k \in n - 1 .. n + 1 : p \in [Positions(k) -> Event]
  BY DEF TypeOK
<1>2. n \in Nat /\ MaxTimeout \in Nat
  BY MinHeapAssumption DEF TypeOK
<1>3. \A i \in DOMAIN p : i \in Nat /\ p[i] \in Event
  BY <1>1, <1>2 DEF Positions
<1>4. Filled \subseteq Nat /\ Filled \subseteq Positions(n)
  BY <1>2 DEF Filled, Positions
<1>5. shift = NoShift => p \in [Positions(n) -> Event] /\ Filled = Positions(n)
  BY DEF TypeOK, Filled
<1>6. NoShift \notin ShiftLocals
  BY DEF NoShift, ShiftLocals
<1> QED
  BY <1>2, <1>3, <1>4, <1>5, <1>6 DEF TypeOK, ShiftLocals

\* Between operations the invariant is HeapOK.
LEMMA InvariantMeans == IInv => HeapOK
<1> SUFFICES ASSUME IInv, shift = NoShift
             PROVE  HeapOrder /\ IndexInverse
  BY DEF IInv, HeapOK
<1>1. Filled = Positions(n) /\ TypeOK
  BY Types DEF IInv
<1>2. HeapOrder
  BY <1>1 DEF IInv, OrderOK, HeapOrder
<1>3. IndexInverse
  <2> SUFFICES ASSUME NEW e \in Event
               PROVE  IF min_heap_idx[e] = -1
                        THEN \A i \in Positions(n) : p[i] # e
                        ELSE min_heap_idx[e] \in Positions(n) /\ p[min_heap_idx[e]] = e
    BY DEF IndexInverse
  <2>1. \A i \in Positions(n) : min_heap_idx[p[i]] = i /\ i # -1
    BY <1>1, Types DEF IInv, IndicesOK
  <2> QED
    BY <1>1, <2>1 DEF IInv, IndicesOK
<1> QED
  BY <1>2, <1>3

\* Initially the heap is empty.
LEMMA InitIInv == Init => IInv
<1> SUFFICES ASSUME Init
             PROVE  IInv
  OBVIOUS
<1>1. n = 0 /\ shift = NoShift /\ Positions(n) = {} /\ Filled = {}
  BY DEF Init, Positions, Filled
<1>2. p \in [Positions(n) -> Event] /\ n \in n - 1 .. n + 1
  BY <1>1 DEF Init
<1>3. TypeOK
  BY <1>1, <1>2 DEF Init, TypeOK
<1>4. IndicesOK /\ HoleOK /\ OrderOK /\ ParentOK
  BY <1>1 DEF Init, IndicesOK, HoleOK, OrderOK, ParentOK
<1> QED
  BY <1>3, <1>4 DEF IInv

-----------------------------------------------------------------------------
(* The beginning of an operation.                                          *)

\* What is known between operations.
LEMMA Resting ==
  ASSUME IInv, shift = NoShift
  PROVE  /\ n \in Nat /\ Filled = 0 .. n - 1 /\ DOMAIN p = 0 .. n - 1
         /\ \A i \in 0 .. n - 1 : p[i] \in Event /\ min_heap_idx[p[i]] = i
         /\ \A e \in Event : min_heap_idx[e] # -1 =>
              min_heap_idx[e] \in 0 .. n - 1 /\ p[min_heap_idx[e]] = e
         /\ \A i \in 0 .. n - 1 : i > 0 =>
              Parent(i) \in 0 .. n - 1 /\ ev_timeout[p[Parent(i)]] <= ev_timeout[p[i]]
<1>1. n \in Nat /\ Filled = 0 .. n - 1 /\ p \in [0 .. n - 1 -> Event]
  BY Types DEF IInv, Positions
<1> QED
  BY <1>1 DEF IInv, IndicesOK, OrderOK

\* A timeout is stored in an event outside of the heap.
LEMMA SetTimeoutIInv ==
  ASSUME IInv, NEW e \in Event, NEW t \in 0 .. MaxTimeout, SetTimeout(e, t)
  PROVE  IInv'
<1>1. shift = NoShift /\ UNCHANGED <<p, n, min_heap_idx, shift>> /\ Filled' = Filled
  BY DEF SetTimeout, Filled
<1>2. ev_timeout' \in [Event -> 0 .. MaxTimeout]
      /\ \A f \in Event \ {e} : ev_timeout'[f] = ev_timeout[f]
  BY Types DEF SetTimeout, IInv
<1>3. \A i \in Filled : p[i] # e
  BY <1>1, Resting DEF SetTimeout
<1>4. TypeOK'
  BY <1>1, <1>2 DEF IInv, TypeOK
<1>5. IndicesOK' /\ HoleOK' /\ ParentOK'
  BY <1>1 DEF IInv, IndicesOK, HoleOK, ParentOK
<1>6. OrderOK'
  BY <1>1, <1>2, <1>3, Resting DEF OrderOK
<1> QED
  BY <1>4, <1>5, <1>6 DEF IInv

\* The new event is to fill the hole behind the others.
LEMMA PushIInv ==
  ASSUME IInv, NEW e \in Event, Push(e)
  PROVE  IInv'
<1>1. /\ shift = NoShift /\ min_heap_idx[e] = -1 /\ n' = n + 1
      /\ shift' = [pc |-> "up", hole |-> n, elem |-> e, erased |-> NoEvent]
      /\ UNCHANGED <<p, min_heap_idx, ev_timeout>>
  BY DEF Push
<1>2. n \in Nat /\ Filled = 0 .. n - 1 /\ p \in [Positions(n) -> Event]
  BY <1>1, Types, Resting DEF IInv
<1>3. /\ shift' \in ShiftLocals /\ shift' # NoShift /\ e # NoEvent
      /\ shift'.hole = n /\ shift'.elem = e /\ shift'.erased = NoEvent /\ shift'.pc = "up"
  BY <1>1, <1>2, MinHeapAssumption DEF ShiftLocals, NoShift
<1>4. Filled' = 0 .. n - 1
  BY <1>1, <1>2, <1>3 DEF Filled, Positions
<1>5. TypeOK'
  <2>1. n \in n' - 1 .. n' + 1
    BY <1>1, <1>2
  <2>2. \E k \in n' - 1 .. n' + 1 : p' \in [Positions(k) -> Event] /\ (shift' = NoShift => k = n')
    BY <1>1, <1>2, <1>3, <2>1
  <2> QED
    BY <1>1, <1>2, <1>3, <2>2 DEF IInv, TypeOK
<1>6. IndicesOK'
  BY <1>1, <1>2, <1>4, Resting DEF IndicesOK
<1>7. HoleOK'
  <2>1. \A i \in 0 .. n - 1 : p[i] # e /\ p[i] # NoEvent
    BY <1>1, <1>2, Resting, MinHeapAssumption
  <2> QED
    BY <1>1, <1>2, <1>3, <1>4, <2>1 DEF HoleOK
<1>8. OrderOK' /\ ParentOK'
  BY <1>1, <1>3, <1>4, Resting DEF OrderOK, ParentOK
<1> QED
  BY <1>5, <1>6, <1>7, <1>8 DEF IInv

\* The hole is at the root, and the last event is to fill it.
LEMMA PopIInv ==
  ASSUME IInv, Pop
  PROVE  IInv'
<1>1. /\ shift = NoShift /\ n > 0 /\ n' = n - 1
      /\ shift' = [pc |-> "down", hole |-> 0, elem |-> p[n - 1], erased |-> p[0]]
      /\ UNCHANGED <<p, min_heap_idx, ev_timeout>>
  BY DEF Pop
<1>2. n \in Nat /\ Filled = 0 .. n - 1 /\ p \in [Positions(n) -> Event]
      /\ \A i \in 0 .. n - 1 : p[i] \in Event
  BY <1>1, Types, Resting DEF IInv
<1>3. /\ shift' \in ShiftLocals /\ shift' # NoShift
      /\ shift'.hole = 0 /\ shift'.elem = p[n - 1] /\ shift'.erased = p[0] /\ shift'.pc = "down"
  BY <1>1, <1>2 DEF ShiftLocals, NoShift
<1>4. Filled' = 1 .. n - 2
  BY <1>1, <1>2, <1>3 DEF Filled, Positions
<1>5. TypeOK'
  <2>1. n \in n' - 1 .. n' + 1 /\ n' \in Nat
    BY <1>1, <1>2
  <2>2. \E k \in n' - 1 .. n' + 1 : p' \in [Positions(k) -> Event] /\ (shift' = NoShift => k = n')
    BY <1>1, <1>2, <1>3, <2>1
  <2> QED
    BY <1>1, <1>3, <2>1, <2>2 DEF IInv, TypeOK
<1>6. \A i \in 0 .. n - 1 : min_heap_idx[p[i]] = i
  BY <1>1, Resting
<1>7. IndicesOK'
  <2>1. \A e \in Event : min_heap_idx[e] # -1 =>
          min_heap_idx[e] \in 0 .. n - 1 /\ p[min_heap_idx[e]] = e
    BY <1>1, Resting
  <2>2. \A i \in 0 .. n - 1 : i \in 1 .. n - 2 \/ i = 0 \/ i = n - 1
    BY <1>2
  <2>3. 1 .. n - 2 \subseteq 0 .. n - 1
    BY <1>2
  <2> QED
    BY <1>1, <1>2, <1>3, <1>4, <1>6, <2>1, <2>2, <2>3 DEF IndicesOK, Positions
<1>8. HoleOK'
  <2>1. \A i \in 1 .. n - 2 : p[i] # p[n - 1] /\ p[i] # p[0]
    BY <1>1, <1>2, <1>6
  <2>2. n' = 0 <=> p[n - 1] = p[0]
    BY <1>1, <1>2, <1>6
  <2> QED
    BY <1>1, <1>2, <1>3, <1>4, <2>1, <2>2 DEF HoleOK
<1>9. OrderOK'
  <2> SUFFICES ASSUME NEW i \in 1 .. n - 2
               PROVE  \/ /\ Parent(i) \in 1 .. n - 2
                         /\ ev_timeout[p[Parent(i)]] <= ev_timeout[p[i]]
                      \/ Parent(i) = 0
    BY <1>1, <1>3, <1>4 DEF OrderOK
  <2>1. i \in 0 .. n - 1 /\ i > 0 /\ i \in Nat
    BY <1>2
  <2>2. /\ Parent(i) \in 0 .. n - 1 /\ ev_timeout[p[Parent(i)]] <= ev_timeout[p[i]]
        /\ Parent(i) < i
    BY <1>1, <2>1, Resting, Parents
  <2> QED
    BY <1>2, <2>2
<1>10. ParentOK'
  BY <1>3 DEF ParentOK
<1> QED
  BY <1>5, <1>7, <1>8, <1>9, <1>10 DEF IInv

\* The hole of an erased event, which the last one is to fill.
LEMMA EraseIInv ==
  ASSUME IInv, NEW e \in Event, Erase(e)
  PROVE  IInv'
<1> DEFINE h == min_heap_idx[e]
           last == p[n - 1]
           rises == h > 0 /\ elem_greater(ev_timeout, p[Parent(h)], last)
<1>1. /\ shift = NoShift /\ h # -1 /\ n' = n - 1
      /\ shift' = [pc |-> IF rises THEN "up" ELSE "down",
                   hole |-> h, elem |-> last, erased |-> e]
      /\ UNCHANGED <<p, min_heap_idx, ev_timeout>>
  BY DEF Erase, Place
<1>2. /\ n \in Nat /\ Filled = 0 .. n - 1 /\ p \in [Positions(n) -> Event]
      /\ \A i \in 0 .. n - 1 : p[i] \in Event /\ min_heap_idx[p[i]] = i
      /\ h \in 0 .. n - 1 /\ p[h] = e /\ last \in Event
  BY <1>1, Types, Resting DEF IInv
<1> HIDE DEF h, last, rises
<1>3. /\ shift' \in ShiftLocals /\ shift' # NoShift
      /\ shift'.hole = h /\ shift'.elem = last /\ shift'.erased = e
      /\ shift'.pc = "up" <=> rises
      /\ shift'.pc \in {"up", "down"}
  BY <1>1, <1>2 DEF ShiftLocals, NoShift
<1>4. Filled' = 0 .. n - 2 \ {h}
  BY <1>1, <1>2, <1>3 DEF Filled, Positions
<1>5. TypeOK'
  <2>1. n \in n' - 1 .. n' + 1 /\ n' \in Nat
    BY <1>1, <1>2
  <2>2. \E k \in n' - 1 .. n' + 1 : p' \in [Positions(k) -> Event] /\ (shift' = NoShift => k = n')
    BY <1>1, <1>2, <1>3, <2>1
  <2> QED
    BY <1>1, <1>3, <2>1, <2>2 DEF IInv, TypeOK
<1>6. IndicesOK'
  <2>1. \A f \in Event : min_heap_idx[f] # -1 =>
          min_heap_idx[f] \in 0 .. n - 1 /\ p[min_heap_idx[f]] = f
    BY <1>1, Resting
  <2>2. \A i \in 0 .. n - 1 : i \in 0 .. n - 2 \/ i = n - 1
    BY <1>2
  <2>3. 0 .. n - 2 \subseteq 0 .. n - 1
    BY <1>2
  <2> QED
    BY <1>1, <1>2, <1>3, <1>4, <2>1, <2>2, <2>3 DEF IndicesOK, Positions, last
<1>7. HoleOK'
  <2>1. \A i \in 0 .. n - 2 \ {h} : p[i] # last /\ p[i] # e
    BY <1>2 DEF last
  <2>2. h = n - 1 <=> last = e
    BY <1>2 DEF last
  <2>3. h = n - 1 => ~rises
    BY <1>1, <1>2, Resting, Types DEF rises, last, elem_greater, IInv
  <2>4. h \in 0 .. n - 1
    BY <1>2
  <2> QED
    BY <1>1, <1>3, <1>4, <2>1, <2>2, <2>3, <2>4 DEF HoleOK
<1>8. \A i \in 0 .. n - 1 : i > 0 =>
        Parent(i) \in 0 .. n - 1 /\ ev_timeout[p[Parent(i)]] <= ev_timeout[p[i]]
  BY <1>1, Resting
<1>9. \A f \in Event : ev_timeout[f] \in Nat
  BY Types DEF IInv
<1>10. OrderOK'
  <2> SUFFICES ASSUME NEW i \in 0 .. n - 2 \ {h}, i > 0
               PROVE  \/ Parent(i) \in 0 .. n - 2 \ {h}
                         /\ ev_timeout[p[Parent(i)]] <= ev_timeout[p[i]]
                      \/ /\ Parent(i) = h
                         /\ h > 0 => ev_timeout[p[Parent(h)]] <= ev_timeout[p[i]]
                         /\ rises => ev_timeout[last] <= ev_timeout[p[i]]
    BY <1>1, <1>3, <1>4 DEF OrderOK
  <2>1. i \in 0 .. n - 1 /\ Parent(i) \in 0 .. n - 1 /\ Parent(i) < i
    <3>1. i \in 0 .. n - 1 /\ i \in Nat
      BY <1>2
    <3> QED
      BY <1>8, <3>1, Parents
  <2>2. CASE Parent(i) # h
    BY <1>2, <1>8, <2>1, <2>2
  <2>3. CASE Parent(i) = h
    <3>1. ev_timeout[p[h]] <= ev_timeout[p[i]]
      BY <1>8, <2>1, <2>3
    <3>2. h > 0 => Parent(h) \in 0 .. n - 1 /\ ev_timeout[p[Parent(h)]] <= ev_timeout[p[h]]
      BY <1>2, <1>8
    <3> QED
      BY <1>2, <1>9, <2>1, <2>3, <3>1, <3>2 DEF rises, elem_greater
  <2> QED
    BY <2>2, <2>3
<1>11. ParentOK'
  <2>1. shift'.pc = "down" /\ h > 0 => ev_timeout[p[Parent(h)]] <= ev_timeout[last]
    BY <1>2, <1>3, <1>8, <1>9 DEF rises, elem_greater
  <2> QED
    BY <1>1, <1>3, <2>1 DEF ParentOK
<1> QED
  BY <1>5, <1>6, <1>7, <1>10, <1>11 DEF IInv

\* The hole of an event that gets another timeout, and that is to fill it itself.
LEMMA AdjustIInv ==
  ASSUME IInv, NEW e \in Event, NEW t \in 0 .. MaxTimeout, Adjust(e, t)
  PROVE  IInv'
<1> DEFINE h == min_heap_idx[e]
           rises == h > 0 /\ elem_greater(ev_timeout', p[Parent(h)], e)
<1>1. /\ shift = NoShift /\ h # -1 /\ ev_timeout' = [ev_timeout EXCEPT ![e] = t]
      /\ shift' = [pc |-> IF rises THEN "up" ELSE "down",
                   hole |-> h, elem |-> e, erased |-> NoEvent]
      /\ UNCHANGED <<p, n, min_heap_idx>>
  BY DEF Adjust, Place
<1>2. /\ n \in Nat /\ Filled = 0 .. n - 1 /\ p \in [Positions(n) -> Event]
      /\ \A i \in 0 .. n - 1 : p[i] \in Event /\ min_heap_idx[p[i]] = i
      /\ h \in 0 .. n - 1 /\ p[h] = e /\ e # NoEvent
  BY <1>1, Types, Resting, MinHeapAssumption DEF IInv
<1>3. /\ ev_timeout' \in [Event -> 0 .. MaxTimeout]
      /\ \A f \in Event \ {e} : ev_timeout'[f] = ev_timeout[f]
      /\ \A f \in Event : ev_timeout[f] \in Nat /\ ev_timeout'[f] \in Nat
  <2>1. MaxTimeout \in Nat /\ ev_timeout \in [Event -> 0 .. MaxTimeout]
    BY Types, MinHeapAssumption DEF IInv
  <2> QED
    BY <1>1, <2>1
<1> HIDE DEF h, rises
<1>4. /\ shift' \in ShiftLocals /\ shift' # NoShift
      /\ shift'.hole = h /\ shift'.elem = e /\ shift'.erased = NoEvent
      /\ shift'.pc = "up" <=> rises
      /\ shift'.pc \in {"up", "down"}
  BY <1>1, <1>2 DEF ShiftLocals, NoShift
<1>5. Filled' = 0 .. n - 1 \ {h}
  BY <1>1, <1>2, <1>4 DEF Filled, Positions
<1>6. TypeOK'
  <2>1. n \in n' - 1 .. n' + 1 /\ n' \in Nat
    BY <1>1, <1>2
  <2>2. \E k \in n' - 1 .. n' + 1 : p' \in [Positions(k) -> Event] /\ (shift' = NoShift => k = n')
    BY <1>1, <1>2, <1>4, <2>1
  <2> QED
    BY <1>1, <1>3, <1>4, <2>1, <2>2 DEF IInv, TypeOK
<1>7. IndicesOK'
  <2>1. \A f \in Event : min_heap_idx[f] # -1 =>
          min_heap_idx[f] \in 0 .. n - 1 /\ p[min_heap_idx[f]] = f
    BY <1>1, Resting
  <2> QED
    BY <1>1, <1>2, <1>4, <1>5, <2>1 DEF IndicesOK, Positions
<1>8. \A i \in 0 .. n - 1 \ {h} : p[i] # e
  BY <1>2
<1>9. HoleOK'
  <2>1. h \in 0 .. n /\ h # n /\ \A i \in 0 .. n - 1 : p[i] # NoEvent
    BY <1>2, MinHeapAssumption
  <2> QED
    BY <1>1, <1>2, <1>4, <1>5, <1>8, <2>1 DEF HoleOK
<1>10. \A i \in 0 .. n - 1 : i > 0 =>
         Parent(i) \in 0 .. n - 1 /\ ev_timeout[p[Parent(i)]] <= ev_timeout[p[i]]
  BY <1>1, Resting
<1>11. \A i \in 0 .. n - 1 \ {h} : ev_timeout'[p[i]] = ev_timeout[p[i]]
  BY <1>2, <1>3, <1>8
<1>12. h > 0 => Parent(h) \in 0 .. n - 1 \ {h}
  BY <1>2, <1>10, Parents
<1>13. OrderOK'
  <2> SUFFICES ASSUME NEW i \in 0 .. n - 1 \ {h}, i > 0
               PROVE  \/ Parent(i) \in 0 .. n - 1 \ {h}
                         /\ ev_timeout'[p[Parent(i)]] <= ev_timeout'[p[i]]
                      \/ /\ Parent(i) = h
                         /\ h > 0 => ev_timeout'[p[Parent(h)]] <= ev_timeout'[p[i]]
                         /\ rises => ev_timeout'[e] <= ev_timeout'[p[i]]
    BY <1>1, <1>4, <1>5 DEF OrderOK
  <2>1. Parent(i) \in 0 .. n - 1 /\ ev_timeout[p[Parent(i)]] <= ev_timeout[p[i]]
    BY <1>10
  <2>2. CASE Parent(i) # h
    BY <1>11, <2>1, <2>2
  <2>3. CASE Parent(i) = h
    <3>1. h > 0 => ev_timeout'[p[Parent(h)]] <= ev_timeout[p[h]]
      BY <1>2, <1>10, <1>11, <1>12
    <3>2. /\ ev_timeout[p[h]] \in Nat /\ ev_timeout'[p[i]] = ev_timeout[p[i]]
          /\ ev_timeout[p[i]] \in Nat
      BY <1>2, <1>3, <1>11
    <3>3. h > 0 => ev_timeout'[p[Parent(h)]] \in Nat
      BY <1>2, <1>3, <1>12
    <3>4. rises => h > 0 /\ ev_timeout'[p[Parent(h)]] > ev_timeout'[e]
      BY DEF rises, elem_greater
    <3>5. ev_timeout'[e] \in Nat
      BY <1>3
    <3> QED
      BY <2>1, <2>3, <3>1, <3>2, <3>3, <3>4, <3>5
  <2> QED
    BY <2>2, <2>3
<1>14. ParentOK'
  <2>1. shift'.pc = "down" /\ h > 0 => ev_timeout'[p[Parent(h)]] <= ev_timeout'[e]
    BY <1>2, <1>3, <1>4, <1>12 DEF rises, elem_greater
  <2> QED
    BY <1>1, <1>4, <2>1 DEF ParentOK
<1> QED
  BY <1>6, <1>7, <1>9, <1>13, <1>14 DEF IInv

-----------------------------------------------------------------------------
(* The iterations, and the end.                                            *)

\* What is known while a hole moves.
LEMMA Shifting ==
  ASSUME IInv, shift # NoShift
  PROVE  LET h == shift.hole
             x == shift.elem
         IN  /\ n \in Nat /\ h \in 0 .. n /\ x \in Event /\ shift.pc \in {"up", "down"}
             /\ Filled = 0 .. n - 1 \ {h} /\ Filled \subseteq DOMAIN p
             /\ h = n <=> x = shift.erased
             /\ h = n => shift.pc = "down"
             /\ \A i \in Filled : /\ i \in Nat /\ p[i] \in Event /\ min_heap_idx[p[i]] = i
                                  /\ p[i] # x /\ p[i] # shift.erased
             /\ \A i \in Filled : i > 0 =>
                  \/ Parent(i) \in Filled /\ ev_timeout[p[Parent(i)]] <= ev_timeout[p[i]]
                  \/ /\ Parent(i) = h
                     /\ h > 0 => ev_timeout[p[Parent(h)]] <= ev_timeout[p[i]]
                     /\ shift.pc = "up" => ev_timeout[x] <= ev_timeout[p[i]]
             /\ shift.pc = "down" /\ h > 0 => ev_timeout[p[Parent(h)]] <= ev_timeout[x]
             /\ h > 0 => Parent(h) \in Filled
             /\ \A f \in Event : ev_timeout[f] \in Nat
<1> DEFINE h == shift.hole
<1>1. n \in Nat /\ h \in 0 .. n /\ Filled = 0 .. n - 1 \ {h} /\ Filled \subseteq DOMAIN p
  BY Types DEF IInv, HoleOK, IndicesOK, Filled, Positions
<1>2. h > 0 => Parent(h) \in Filled
  <2>1. h > 0 => Parent(h) \in Nat /\ Parent(h) < h
    BY <1>1, Parents
  <2> QED
    BY <1>1, <2>1
<1>3. \A i \in Filled : i \in Nat /\ p[i] \in Event
  BY <1>1, Types DEF IInv
<1> QED
  BY <1>1, <1>2, <1>3, Types DEF IInv, IndicesOK, HoleOK, OrderOK, ParentOK

\* An iteration exchanges an element and the hole.
LEMMA MoveEffect ==
  ASSUME IInv, shift # NoShift, NEW j \in Filled, shift.hole < n, MoveHole(j)
  PROVE  /\ TypeOK' /\ IndicesOK'
         /\ shift'.hole = j /\ shift'.elem = shift.elem /\ shift'.pc = shift.pc
         /\ shift' # NoShift /\ shift'.erased = shift.erased
         /\ Filled' = (Filled \ {j}) \cup {shift.hole}
         /\ p'[shift.hole] = p[j] /\ \A i \in Filled : p'[i] = p[i]
         /\ UNCHANGED <<n, ev_timeout>>
<1> DEFINE h == shift.hole
<1>1. /\ n \in Nat /\ h \in 0 .. n - 1 /\ Filled = 0 .. n - 1 \ {h} /\ Filled \subseteq DOMAIN p
      /\ j \in Nat /\ p[j] \in Event /\ j # h
  BY Shifting
<1>2. /\ p' = [i \in DOMAIN p \cup {h} |-> IF i = h THEN p[j] ELSE p[i]]
      /\ min_heap_idx' = [min_heap_idx EXCEPT ![p[j]] = h]
      /\ shift' = [shift EXCEPT !.hole = j]
      /\ UNCHANGED <<n, ev_timeout>>
  BY DEF MoveHole
<1>3. /\ shift \in ShiftLocals /\ min_heap_idx \in [Event -> Nat \cup {-1}]
      /\ NoShift \notin ShiftLocals
  BY Types DEF IInv
<1>4. /\ shift' \in ShiftLocals /\ shift'.hole = j /\ shift'.elem = shift.elem
      /\ shift'.pc = shift.pc /\ shift'.erased = shift.erased /\ shift' # NoShift
  BY <1>1, <1>2, <1>3 DEF ShiftLocals
<1>5. PICK k \in n - 1 .. n + 1 : p \in [Positions(k) -> Event]
  BY DEF IInv, TypeOK
<1>6. \E m \in n - 1 .. n + 1 : p' \in [Positions(m) -> Event]
  <2> DEFINE m == IF h \in DOMAIN p THEN k ELSE n
  <2>1. Positions(m) = DOMAIN p \cup {h} /\ m \in n - 1 .. n + 1
    <3>1. CASE h \in DOMAIN p
      BY <1>5, <3>1
    <3>2. CASE h \notin DOMAIN p
      <4>1. DOMAIN p = 0 .. k - 1
        BY <1>5 DEF Positions
      <4>2. k <= h
        BY <1>1, <1>5, <3>2, <4>1
      <4>3. k = n - 1 /\ h = n - 1
        BY <1>1, <1>5, <4>2
      <4> QED
        BY <1>1, <3>2, <4>1, <4>3 DEF Positions
    <3> QED
      BY <3>1, <3>2
  <2> HIDE DEF m, h
  <2>2. p' \in [Positions(m) -> Event]
    BY <1>1, <1>2, <1>5, <2>1
  <2> QED
    BY <2>1, <2>2
<1> HIDE DEF h
<1>7. min_heap_idx' \in [Event -> Nat \cup {-1}]
  <2>1. h \in Nat
    BY <1>1
  <2> QED
    BY <1>2, <1>3, <2>1
<1>8. TypeOK'
  BY <1>2, <1>4, <1>6, <1>7 DEF IInv, TypeOK
<1>9. Filled' = (Filled \ {j}) \cup {h}
  BY <1>1, <1>2, <1>4 DEF Filled, Positions
<1>10. p'[h] = p[j] /\ \A i \in Filled : p'[i] = p[i]
  BY <1>1, <1>2
<1>11. IndicesOK'
  <2>1. \A i \in Filled' : i \in DOMAIN p' /\ min_heap_idx'[p'[i]] = i
    <3> SUFFICES ASSUME NEW i \in Filled'
                 PROVE  i \in DOMAIN p' /\ min_heap_idx'[p'[i]] = i
      OBVIOUS
    <3>1. CASE i = h
      BY <1>1, <1>2, <1>3, <1>10, <3>1
    <3>2. CASE i \in Filled \ {j}
      <4>1. p[i] \in Event /\ min_heap_idx[p[i]] = i /\ min_heap_idx[p[j]] = j
        BY <3>2, Shifting
      <4> QED
        BY <1>1, <1>2, <1>3, <1>10, <3>2, <4>1
    <3> QED
      BY <1>9, <3>1, <3>2
  <2>2. ASSUME NEW f \in Event, min_heap_idx'[f] # -1
        PROVE  \/ min_heap_idx'[f] \in Filled' /\ p'[min_heap_idx'[f]] = f
               \/ shift' # NoShift /\ f \in {shift'.elem, shift'.erased}
    <3>1. CASE f = p[j]
      BY <1>2, <1>3, <1>9, <1>10, <3>1
    <3>2. CASE f # p[j]
      <4>1. min_heap_idx'[f] = min_heap_idx[f]
        BY <1>2, <3>2
      <4>2. \/ min_heap_idx[f] \in Filled /\ p[min_heap_idx[f]] = f
            \/ f \in {shift.elem, shift.erased}
        BY <2>2, <4>1 DEF IInv, IndicesOK
      <4> QED
        BY <1>4, <1>9, <1>10, <3>2, <4>1, <4>2
    <3> QED
      BY <3>1, <3>2
  <2> QED
    BY <2>1, <2>2 DEF IndicesOK
<1> QED
  BY <1>2, <1>4, <1>8, <1>9, <1>10, <1>11 DEF h

\* The event that is to fill the hole goes with it.
LEMMA MoveHoleOK ==
  ASSUME IInv, shift # NoShift, NEW j \in Filled, shift.hole < n, MoveHole(j)
  PROVE  HoleOK'
<1> DEFINE h == shift.hole
<1>1. /\ n \in Nat /\ h \in 0 .. n /\ Filled = 0 .. n - 1 \ {h}
      /\ h = n <=> shift.elem = shift.erased
      /\ \A i \in Filled : p[i] # shift.elem /\ p[i] # shift.erased
  BY Shifting
<1>2. /\ shift'.hole = j /\ shift'.elem = shift.elem /\ shift'.erased = shift.erased
      /\ Filled' = (Filled \ {j}) \cup {h} /\ n' = n
      /\ p'[h] = p[j] /\ \A i \in Filled : p'[i] = p[i]
  BY MoveEffect
<1>3. j \in 0 .. n /\ j # n
  BY <1>1
<1>4. \A i \in Filled' : p'[i] # shift.elem /\ p'[i] # shift.erased
  BY <1>1, <1>2
<1> QED
  BY <1>1, <1>2, <1>3, <1>4 DEF HoleOK

\* min_heap_shift_up_: the parent goes down, and the event rises.
LEMMA ShiftUpIInv ==
  ASSUME IInv, ShiftUp
  PROVE  IInv'
<1> DEFINE h == shift.hole
           x == shift.elem
           j == Parent(h)
           t == ev_timeout
<1>1. /\ shift.pc = "up" /\ h > 0 /\ t[p[j]] > t[x] /\ MoveHole(j)
  BY DEF ShiftUp, Rises, elem_greater
<1>2. shift # NoShift
  BY <1>1 DEF NoShift
<1>3. /\ n \in Nat /\ h \in 0 .. n /\ h # n /\ x \in Event
      /\ Filled = 0 .. n - 1 \ {h} /\ j \in Filled
      /\ \A i \in Filled : i \in Nat /\ p[i] \in Event
      /\ \A f \in Event : t[f] \in Nat
  BY <1>1, <1>2, Shifting
<1>4. h < n /\ h \in Nat
  BY <1>3
<1>5. \A i \in Filled : i > 0 =>
        \/ Parent(i) \in Filled /\ t[p[Parent(i)]] <= t[p[i]]
        \/ Parent(i) = h /\ t[p[j]] <= t[p[i]]
  BY <1>1, <1>2, Shifting
<1>6. /\ TypeOK' /\ IndicesOK' /\ shift'.hole = j /\ shift'.elem = x /\ shift'.pc = "up"
      /\ shift' # NoShift /\ Filled' = (Filled \ {j}) \cup {h} /\ ev_timeout' = t
      /\ p'[h] = p[j] /\ \A i \in Filled : p'[i] = p[i]
  BY <1>1, <1>2, <1>3, <1>4, MoveEffect
<1>7. HoleOK'
  BY <1>1, <1>2, <1>3, <1>4, MoveHoleOK
<1>8. ParentOK'
  BY <1>6 DEF ParentOK
<1> HIDE DEF h, x, t
<1>9. j \in Nat /\ j < h
  BY <1>1, <1>4, Parents
<1>10. j > 0 => Parent(j) \in Filled \ {j} /\ t[p[Parent(j)]] <= t[p[j]]
  BY <1>3, <1>5, <1>9, Parents
<1>11. OrderOK'
  <2> SUFFICES ASSUME NEW i \in (Filled \ {j}) \cup {h}, i > 0
               PROVE  \/ Parent(i) \in (Filled \ {j}) \cup {h} /\ t[p'[Parent(i)]] <= t[p'[i]]
                      \/ /\ Parent(i) = j
                         /\ j > 0 => t[p'[Parent(j)]] <= t[p'[i]]
                         /\ t[x] <= t[p'[i]]
    BY <1>6 DEF OrderOK
  <2>1. CASE i = h
    <3>1. Parent(i) = j /\ p'[i] = p[j] /\ t[x] <= t[p[j]]
      BY <1>1, <1>3, <1>6, <2>1
    <3> QED
      BY <1>6, <1>10, <3>1
  <2>2. CASE i \in Filled /\ i # h /\ Parent(i) = h
    <3>1. p'[Parent(i)] = p[j] /\ p'[i] = p[i] /\ h # j
      BY <1>6, <1>9, <2>2
    <3> QED
      BY <1>3, <1>5, <2>2, <3>1
  <2>3. CASE i \in Filled /\ i # h /\ Parent(i) = j
    <3>1. p'[i] = p[i] /\ t[p[j]] <= t[p[i]]
      BY <1>3, <1>5, <1>6, <2>3
    <3>2. t[p[j]] \in Nat /\ t[p[i]] \in Nat /\ t[x] \in Nat
      BY <1>3, <2>3
    <3>3. j > 0 => t[p'[Parent(j)]] = t[p[Parent(j)]] /\ t[p[Parent(j)]] \in Nat
      BY <1>3, <1>6, <1>10
    <3> QED
      BY <1>1, <1>10, <2>3, <3>1, <3>2, <3>3
  <2>4. CASE i \in Filled /\ i # h /\ Parent(i) \notin {h, j}
    BY <1>5, <1>6, <2>4
  <2> QED
    BY <2>1, <2>2, <2>3, <2>4, <1>3
<1> QED
  BY <1>6, <1>7, <1>8, <1>11 DEF IInv

\* The smaller child is one, and none is smaller.
LEMMA Smaller ==
  ASSUME IInv, shift # NoShift, 2 * (shift.hole + 1) <= n
  PROVE  LET c == SmallerChild(shift.hole)
         IN  /\ c \in Filled /\ Parent(c) = shift.hole /\ c > 0
             /\ \A i \in Filled : i > 0 /\ Parent(i) = shift.hole =>
                  ev_timeout[p[c]] <= ev_timeout[p[i]]
<1> DEFINE h == shift.hole
           t == ev_timeout
           right == 2 * (h + 1)
           c == IF right = n \/ t[p[right]] > t[p[right - 1]] THEN right - 1 ELSE right
<1>1. /\ n \in Nat /\ h \in Nat /\ Filled = 0 .. n - 1 \ {h}
      /\ \A i \in Filled : p[i] \in Event
      /\ \A f \in Event : t[f] \in Nat
  BY Shifting
<1>2. SmallerChild(h) = c
  BY DEF SmallerChild, elem_greater
<1>3. c \in {right - 1, right} /\ c \in Filled
  BY <1>1
<1>4. right - 1 = 2 * h + 1 /\ right = 2 * h + 2 /\ right - 1 \in Filled
  BY <1>1
<1>5. Parent(c) = h /\ c > 0
  <2>1. Parent(right - 1) = h /\ Parent(right) = h /\ right - 1 > 0 /\ right > 0
    BY <1>1 DEF Parent
  <2> HIDE DEF c, right
  <2> QED
    BY <1>3, <2>1
<1>6. ASSUME NEW i \in Filled, i > 0, Parent(i) = h
      PROVE  t[p[c]] <= t[p[i]]
  <2>1. i \in Nat /\ i \in {right - 1, right}
    BY <1>1, <1>4, <1>6, Parents
  <2>2. t[p[i]] \in Nat /\ t[p[right - 1]] \in Nat /\ t[p[c]] \in Nat
    BY <1>1, <1>3, <1>4
  <2>3. CASE i = c
    BY <2>2, <2>3
  <2>4. CASE i # c /\ i = right - 1
    BY <1>1, <2>2, <2>4
  <2>5. CASE i # c /\ i = right
    BY <1>1, <2>2, <2>5
  <2> QED
    BY <2>1, <2>3, <2>4, <2>5
<1> QED
  BY <1>2, <1>3, <1>5, <1>6

\* min_heap_shift_down_: the smaller child goes up, and the event sinks.
LEMMA ShiftDownIInv ==
  ASSUME IInv, ShiftDown
  PROVE  IInv'
<1> DEFINE h == shift.hole
           x == shift.elem
           c == SmallerChild(h)
           t == ev_timeout
<1>1. /\ shift.pc = "down" /\ 2 * (h + 1) <= n /\ t[x] > t[p[c]] /\ MoveHole(c)
  BY DEF ShiftDown, Sinks, elem_greater
<1>2. shift # NoShift
  BY <1>1 DEF NoShift
<1>3. /\ n \in Nat /\ h \in Nat /\ x \in Event /\ Filled = 0 .. n - 1 \ {h}
      /\ \A i \in Filled : i \in Nat /\ p[i] \in Event
      /\ \A f \in Event : t[f] \in Nat
      /\ h > 0 => Parent(h) \in Filled
  BY <1>2, Shifting
<1>4. /\ c \in Filled /\ Parent(c) = h /\ c > 0 /\ h < n
      /\ \A i \in Filled : i > 0 /\ Parent(i) = h => t[p[c]] <= t[p[i]]
  BY <1>1, <1>2, <1>3, Smaller
<1>5. \A i \in Filled : i > 0 =>
        \/ Parent(i) \in Filled /\ t[p[Parent(i)]] <= t[p[i]]
        \/ Parent(i) = h /\ (h > 0 => t[p[Parent(h)]] <= t[p[i]])
  BY <1>2, Shifting
<1>6. /\ TypeOK' /\ IndicesOK' /\ shift'.hole = c /\ shift'.elem = x /\ shift'.pc = "down"
      /\ shift' # NoShift /\ Filled' = (Filled \ {c}) \cup {h} /\ ev_timeout' = t
      /\ p'[h] = p[c] /\ \A i \in Filled : p'[i] = p[i]
  BY <1>1, <1>2, <1>4, MoveEffect
<1>7. HoleOK'
  BY <1>1, <1>2, <1>4, MoveHoleOK
<1> HIDE DEF h, x, t, c
<1>8. ParentOK'
  <2>1. t[p[c]] <= t[x]
    BY <1>1, <1>3, <1>4
  <2> QED
    BY <1>4, <1>6, <2>1 DEF ParentOK
<1>9. OrderOK'
  <2> SUFFICES ASSUME NEW i \in (Filled \ {c}) \cup {h}, i > 0
               PROVE  \/ Parent(i) \in (Filled \ {c}) \cup {h} /\ t[p'[Parent(i)]] <= t[p'[i]]
                      \/ Parent(i) = c /\ t[p'[Parent(c)]] <= t[p'[i]]
    BY <1>6 DEF OrderOK
  <2>1. CASE i = h
    <3>1. Parent(h) \in Filled /\ Parent(h) # c
      BY <1>3, <1>4, <2>1, Parents
    <3>2. t[p[Parent(h)]] <= t[p[c]]
      BY <1>3, <1>4, <1>5, <2>1
    <3> QED
      BY <1>6, <2>1, <3>1, <3>2
  <2>2. CASE i \in Filled \ {c} /\ i # h /\ Parent(i) = h
    BY <1>4, <1>6, <2>2
  <2>3. CASE i \in Filled \ {c} /\ i # h /\ Parent(i) = c
    <3>1. h # c
      BY <1>3, <1>4
    <3> QED
      BY <1>4, <1>5, <1>6, <2>3, <3>1
  <2>4. CASE i \in Filled \ {c} /\ i # h /\ Parent(i) \notin {h, c}
    BY <1>5, <1>6, <2>4
  <2> QED
    BY <2>1, <2>2, <2>3, <2>4, <1>3
<1> QED
  BY <1>6, <1>7, <1>8, <1>9 DEF IInv

\* The event fills the hole, in the order and with its index.
LEMMA FillIInv ==
  ASSUME IInv, Fill
  PROVE  IInv'
<1> DEFINE h == shift.hole
           x == shift.elem
           t == ev_timeout
<1>1. /\ shift # NoShift /\ ~Rises /\ ~Sinks
      /\ p' = [i \in 0 .. n - 1 |-> IF i = h THEN x ELSE p[i]]
      /\ min_heap_idx' = Indices
      /\ shift' = NoShift
      /\ UNCHANGED <<n, ev_timeout>>
  BY DEF Fill, Positions
<1>2. /\ n \in Nat /\ h \in 0 .. n /\ x \in Event /\ shift.pc \in {"up", "down"}
      /\ Filled = 0 .. n - 1 \ {h}
      /\ h = n <=> x = shift.erased
      /\ \A i \in Filled : /\ i \in Nat /\ p[i] \in Event /\ min_heap_idx[p[i]] = i
                           /\ p[i] # x /\ p[i] # shift.erased
      /\ h > 0 => Parent(h) \in Filled
      /\ \A f \in Event : t[f] \in Nat
  BY <1>1, Shifting
<1>3. /\ \A i \in Filled : i > 0 =>
           \/ Parent(i) \in Filled /\ t[p[Parent(i)]] <= t[p[i]]
           \/ Parent(i) = h /\ (shift.pc = "up" => t[x] <= t[p[i]])
      /\ shift.pc = "down" /\ h > 0 => t[p[Parent(h)]] <= t[x]
  BY <1>1, Shifting
<1>4. Filled' = 0 .. n - 1 /\ DOMAIN p' = 0 .. n - 1
  BY <1>1 DEF Filled, Positions
<1>5. min_heap_idx' = [e \in Event |-> IF e = shift.erased THEN -1
                                      ELSE IF e = x THEN h
                                      ELSE min_heap_idx[e]]
  BY <1>1 DEF Indices
<1>6. p' \in [Positions(n) -> Event]
  BY <1>1, <1>2 DEF Positions
<1>7. TypeOK'
  <2>1. n \in n' - 1 .. n' + 1 /\ n' \in Nat
    BY <1>1, <1>2
  <2>2. \E k \in n' - 1 .. n' + 1 : p' \in [Positions(k) -> Event] /\ (shift' = NoShift => k = n')
    BY <1>1, <1>6, <2>1
  <2>3. min_heap_idx' \in [Event -> Nat \cup {-1}]
    <3>1. h \in Nat /\ min_heap_idx \in [Event -> Nat \cup {-1}]
      BY <1>2, Types DEF IInv
    <3> HIDE DEF h, x
    <3> QED
      BY <1>5, <3>1
  <2> QED
    BY <1>1, <2>1, <2>2, <2>3 DEF IInv, TypeOK
<1>8. IndicesOK'
  <2>1. \A i \in 0 .. n - 1 : min_heap_idx'[p'[i]] = i
    BY <1>1, <1>2, <1>5
  <2>2. ASSUME NEW e \in Event, min_heap_idx'[e] # -1
        PROVE  min_heap_idx'[e] \in 0 .. n - 1 /\ p'[min_heap_idx'[e]] = e
    <3>1. e # shift.erased
      BY <1>5, <2>2
    <3>2. CASE e = x
      BY <1>1, <1>2, <1>5, <3>1, <3>2
    <3>3. CASE e # x
      <4>1. min_heap_idx[e] \in Filled /\ p[min_heap_idx[e]] = e
        BY <1>5, <2>2, <3>1, <3>3 DEF IInv, IndicesOK
      <4> QED
        BY <1>1, <1>2, <1>5, <3>1, <3>3, <4>1
    <3> QED
      BY <3>2, <3>3
  <2> QED
    BY <1>4, <2>1, <2>2 DEF IndicesOK
<1>9. h > 0 => t[p[Parent(h)]] <= t[x]
  <2>1. shift.pc = "up" /\ h > 0 => ~(t[p[Parent(h)]] > t[x])
    BY <1>1 DEF Rises, elem_greater
  <2> QED
    BY <1>2, <1>3, <2>1
<1>10. ASSUME NEW i \in Filled, i > 0, Parent(i) = h
       PROVE  t[x] <= t[p[i]]
  <2>1. CASE shift.pc = "up"
    BY <1>2, <1>3, <1>10, <2>1
  <2>2. CASE shift.pc = "down"
    <3>1. i \in 0 .. n - 1 /\ i \in {2 * h + 1, 2 * h + 2}
      BY <1>2, <1>10, Parents
    <3>2. 2 * (h + 1) <= n
      BY <1>2, <3>1
    <3>3. ~(t[x] > t[p[SmallerChild(h)]])
      BY <1>1, <2>2, <3>2 DEF Sinks, elem_greater
    <3>4. SmallerChild(h) \in Filled /\ t[p[SmallerChild(h)]] <= t[p[i]]
      BY <1>1, <1>10, <3>2, Smaller
    <3> HIDE DEF h, x, t
    <3>5. t[x] \in Nat /\ t[p[i]] \in Nat /\ t[p[SmallerChild(h)]] \in Nat
      BY <1>2, <1>10, <3>4
    <3> QED
      BY <3>3, <3>4, <3>5
  <2> QED
    BY <1>2, <2>1, <2>2
<1> HIDE DEF h, x, t
<1>11. OrderOK'
  <2> SUFFICES ASSUME NEW i \in 0 .. n - 1, i > 0
               PROVE  Parent(i) \in 0 .. n - 1 /\ t[p'[Parent(i)]] <= t[p'[i]]
    BY <1>1, <1>4 DEF OrderOK, t
  <2>1. Parent(i) \in 0 .. n - 1 /\ Parent(i) # i
    <3>1. i \in Nat /\ Parent(i) \in Nat /\ Parent(i) < i
      BY <1>2, Parents
    <3> QED
      BY <1>2, <3>1
  <2>2. CASE i = h
    BY <1>1, <1>9, <2>1, <2>2
  <2>3. CASE i # h /\ Parent(i) = h
    BY <1>1, <1>2, <1>10, <2>1, <2>3
  <2>4. CASE i # h /\ Parent(i) # h
    BY <1>1, <1>2, <1>3, <2>1, <2>4
  <2> QED
    BY <2>2, <2>3, <2>4
<1>12. HoleOK' /\ ParentOK'
  BY <1>1 DEF HoleOK, ParentOK
<1> QED
  BY <1>7, <1>8, <1>11, <1>12 DEF IInv

LEMMA NextIInv == IInv /\ [Next]_vars => IInv'
<1> SUFFICES ASSUME IInv, [Next]_vars
             PROVE  IInv'
  OBVIOUS
<1>1. CASE UNCHANGED vars
  BY <1>1 DEF vars, IInv, TypeOK, IndicesOK, HoleOK, OrderOK, ParentOK, Filled
<1> QED
  BY <1>1, SetTimeoutIInv, PushIInv, PopIInv, EraseIInv, AdjustIInv, ShiftUpIInv, ShiftDownIInv,
     FillIInv DEF Next

LEMMA Invariant == Spec => []IInv
  BY InitIInv, NextIInv, PTL DEF Spec

\* minheap-internal.h: whatever is pushed, popped, erased from the middle and adjusted, no event
\* expires before its parent in the heap, and the index that each event keeps is its place.
THEOREM HeapAlwaysOK == Spec => []HeapOK
  BY Invariant, InvariantMeans, PTL

-----------------------------------------------------------------------------
(* The refinement.                                                         *)

\* If no position has a value v smaller than its parent's, the root has the smallest: a first
\* position with a smaller one would have a parent that has one too.
LEMMA RootFirst ==
  ASSUME NEW S \in SUBSET Nat, NEW v, \A i \in S : v[i] \in Nat,
         0 \in S, \A i \in S : i > 0 => Parent(i) \in S /\ v[Parent(i)] <= v[i]
  PROVE  \A i \in S : v[0] <= v[i]
<1> DEFINE Smalls == {i \in S : v[i] < v[0]}
<1> SUFFICES ASSUME Smalls # {}
             PROVE  FALSE
  OBVIOUS
<1>1. PICK m \in Smalls : \A k \in Smalls : m <= k
  BY FirstPosition
<1>2. m \in S /\ v[m] < v[0] /\ v[m] \in Nat /\ v[0] \in Nat
  OBVIOUS
<1>3. m \in Nat /\ m > 0
  BY <1>2
<1>4. /\ Parent(m) \in S /\ v[Parent(m)] <= v[m] /\ v[Parent(m)] \in Nat
      /\ Parent(m) \in Nat /\ Parent(m) < m
  BY <1>2, <1>3, Parents
<1>5. v[Parent(m)] < v[0]
  BY <1>2, <1>4
<1>6. Parent(m) \in Smalls
  BY <1>4, <1>5
<1> QED
  BY <1>1, <1>3, <1>4, <1>6

\* Between operations the root expires first.
LEMMA RestingRoot ==
  ASSUME IInv, shift = NoShift, n > 0
  PROVE  \A i \in Filled : ev_timeout[p[0]] <= ev_timeout[p[i]]
<1> DEFINE v == [i \in Filled |-> ev_timeout[p[i]]]
<1>1. n \in Nat /\ Filled = 0 .. n - 1 /\ \A i \in Filled : v[i] \in Nat
  BY Resting, Types DEF IInv
<1>2. \A i \in Filled : i > 0 => Parent(i) \in Filled /\ v[Parent(i)] <= v[i]
  BY <1>1, Resting
<1>3. 0 \in Filled /\ Filled \in SUBSET Nat
  BY <1>1
<1> HIDE DEF v
<1>4. \A i \in Filled : v[0] <= v[i]
  BY <1>1, <1>2, <1>3, RootFirst
<1> QED
  BY <1>3, <1>4 DEF v

\* While the hole is below the root, the root expires before all but the event that is to fill it.
LEMMA ShiftingRoot ==
  ASSUME IInv, shift # NoShift, shift.hole > 0
  PROVE  0 \in Filled /\ \A i \in Filled : ev_timeout[p[0]] <= ev_timeout[p[i]]
<1> DEFINE h == shift.hole
           S == Filled \cup {h}
           v == [i \in S |-> ev_timeout[p[IF i = h THEN Parent(h) ELSE i]]]
<1>1. /\ n \in Nat /\ h \in Nat /\ h <= n /\ Filled = 0 .. n - 1 \ {h} /\ Parent(h) \in Filled
      /\ \A i \in Filled : i \in Nat /\ p[i] \in Event /\ ev_timeout[p[i]] \in Nat
      /\ \A i \in Filled : i > 0 =>
           \/ Parent(i) \in Filled /\ ev_timeout[p[Parent(i)]] <= ev_timeout[p[i]]
           \/ Parent(i) = h /\ ev_timeout[p[Parent(h)]] <= ev_timeout[p[i]]
  BY Shifting
<1>2. h \notin Filled /\ 0 \in Filled
  BY <1>1
<1>3. /\ \A i \in Filled : v[i] = ev_timeout[p[i]]
      /\ v[h] = ev_timeout[p[Parent(h)]]
  BY <1>2
<1> HIDE DEF v, h
<1>4. \A i \in S : v[i] \in Nat
  BY <1>1, <1>3
<1>5. \A i \in S : i > 0 => Parent(i) \in S /\ v[Parent(i)] <= v[i]
  BY <1>1, <1>3, <1>4
<1>6. S \subseteq Nat /\ 0 \in S
  BY <1>1, <1>2
<1>7. \A i \in S : v[0] <= v[i]
  BY <1>4, <1>5, <1>6, RootFirst
<1> QED
  BY <1>2, <1>3, <1>7

\* A time that is not after those of the children of a hole at the root is not after any other.
LEMMA RootHole ==
  ASSUME IInv, shift # NoShift, shift.hole = 0, NEW t \in Nat,
         \A i \in Filled : i > 0 /\ Parent(i) = 0 => t <= ev_timeout[p[i]]
  PROVE  \A i \in Filled : t <= ev_timeout[p[i]]
<1> DEFINE S == Filled \cup {0}
           v == [i \in S |-> IF i = 0 THEN t ELSE ev_timeout[p[i]]]
<1>1. /\ n \in Nat /\ Filled = 0 .. n - 1 \ {0}
      /\ \A i \in Filled : i \in Nat /\ i > 0 /\ ev_timeout[p[i]] \in Nat
      /\ \A i \in Filled :
           \/ Parent(i) \in Filled /\ ev_timeout[p[Parent(i)]] <= ev_timeout[p[i]]
           \/ Parent(i) = 0
  BY Shifting
<1>2. v[0] = t /\ \A i \in Filled : v[i] = ev_timeout[p[i]]
  BY <1>1
<1> HIDE DEF v
<1>3. \A i \in S : v[i] \in Nat
  BY <1>1, <1>2
<1>4. \A i \in S : i > 0 => Parent(i) \in S /\ v[Parent(i)] <= v[i]
  BY <1>1, <1>2
<1>5. S \subseteq Nat /\ 0 \in S
  BY <1>1
<1>6. \A i \in S : v[0] <= v[i]
  BY <1>3, <1>4, <1>5, RootFirst
<1> QED
  BY <1>2, <1>6

\* min_heap_top_ gives an event that expires first, also before and after the hole is filled.
TopIsFirst == TopWhenFilled \in Queue!TopOf(Elements, ev_timeout)

LEMMA TopFirst == IInv => TopIsFirst
<1> SUFFICES ASSUME IInv
             PROVE  TopIsFirst
  OBVIOUS
<1> DEFINE h == shift.hole
           x == shift.elem
           t == ev_timeout
           c == SmallerChild(0)
<1>1. n \in Nat /\ \A f \in Event : t[f] \in Nat
  BY Types DEF IInv
<1>2. CASE n = 0
  <2>1. TopWhenFilled = NoEvent
    BY <1>2 DEF TopWhenFilled, min_heap_top_
  <2>2. Filled = {} /\ (shift # NoShift => x = shift.erased)
    BY <1>2, Resting, Shifting
  <2>3. Elements = {}
    BY <2>2 DEF Elements
  <2> QED
    BY <2>1, <2>3 DEF TopIsFirst, Queue!TopOf
<1>3. CASE n > 0 /\ shift = NoShift
  <2>1. TopWhenFilled = p[0]
    BY <1>1, <1>3 DEF TopWhenFilled, min_heap_top_
  <2>2. Elements = {p[i] : i \in Filled} /\ 0 \in Filled
    BY <1>1, <1>3, Resting DEF Elements
  <2>3. \A i \in Filled : t[p[0]] <= t[p[i]]
    BY <1>3, RestingRoot
  <2> QED
    BY <2>1, <2>2, <2>3 DEF TopIsFirst, Queue!TopOf, Queue!Earliest
<1>4. CASE shift # NoShift /\ h > 0 /\ n > 0
  <2>1. /\ 0 \in Filled /\ \A i \in Filled : t[p[0]] <= t[p[i]]
        /\ Elements = {p[i] : i \in Filled} \cup ({x} \ {shift.erased})
        /\ TopWhenFilled = IF shift.pc = "up" /\ t[p[0]] > t[x] THEN x ELSE p[0]
    BY <1>1, <1>4, ShiftingRoot DEF Elements, TopWhenFilled, elem_greater
  <2>2. /\ x \in Event /\ Parent(h) \in Filled /\ \A i \in Filled : p[i] \in Event
        /\ h = n <=> x = shift.erased
        /\ h = n => shift.pc = "down"
        /\ shift.pc \in {"up", "down"}
        /\ shift.pc = "down" => t[p[Parent(h)]] <= t[x]
    BY <1>4, Shifting
  <2> HIDE DEF h, x, t
  <2>3. CASE shift.pc = "up" /\ t[p[0]] > t[x]
    <3>1. x \in Elements /\ \A i \in Filled : t[x] <= t[p[i]]
      BY <1>1, <2>1, <2>2, <2>3
    <3>2. t[x] <= t[x]
      BY <1>1, <2>2
    <3> QED
      BY <2>1, <2>3, <3>1, <3>2 DEF TopIsFirst, Queue!TopOf, Queue!Earliest, t
  <2>4. CASE ~(shift.pc = "up" /\ t[p[0]] > t[x])
    <3>1. p[0] \in Elements /\ t[p[0]] <= t[x]
      BY <1>1, <2>1, <2>2, <2>4
    <3> QED
      BY <2>1, <2>4, <3>1 DEF TopIsFirst, Queue!TopOf, Queue!Earliest, t
  <2> QED
    BY <2>3, <2>4
<1>5. CASE shift # NoShift /\ h = 0 /\ n > 0
  <2>1. /\ Elements = {p[i] : i \in Filled} \cup {x}
        /\ TopWhenFilled = IF Sinks THEN p[c] ELSE x
    <3>1. x # shift.erased
      BY <1>1, <1>5, Shifting
    <3> QED
      BY <1>1, <1>5, <3>1 DEF Elements, TopWhenFilled
  <2>2. /\ x \in Event /\ shift.pc \in {"up", "down"}
        /\ \A i \in Filled : p[i] \in Event /\ i \in 0 .. n - 1 /\ i \in Nat
        /\ \A i \in Filled : i > 0 /\ Parent(i) = 0 /\ shift.pc = "up" => t[x] <= t[p[i]]
    <3>1. 0 \notin Filled
      BY <1>1, <1>5, Shifting
    <3> QED
      BY <1>1, <1>5, <3>1, Shifting
  <2>3. 2 * (0 + 1) <= n =>
          c \in Filled /\ \A i \in Filled : i > 0 /\ Parent(i) = 0 => t[p[c]] <= t[p[i]]
    BY <1>5, Smaller
  <2>4. Sinks <=> shift.pc = "down" /\ 2 * (0 + 1) <= n /\ t[x] > t[p[c]]
    BY <1>5 DEF Sinks, elem_greater
  <2> HIDE DEF h, x, c
  <2>5. CASE Sinks
    <3>1. \A i \in Filled : t[p[c]] <= t[p[i]]
      BY <1>1, <1>5, <2>2, <2>3, <2>4, <2>5, RootHole DEF h
    <3>2. t[p[c]] <= t[x] /\ p[c] \in Elements
      BY <1>1, <2>1, <2>2, <2>3, <2>4, <2>5
    <3> QED
      BY <2>1, <2>5, <3>1, <3>2 DEF TopIsFirst, Queue!TopOf, Queue!Earliest
  <2>6. CASE ~Sinks
    <3>1. ASSUME NEW i \in Filled, i > 0, Parent(i) = 0
          PROVE  t[x] <= t[p[i]]
      <4>1. CASE shift.pc = "up"
        BY <2>2, <3>1, <4>1
      <4>2. CASE shift.pc = "down"
        <5>1. i \in {1, 2}
          BY <2>2, <3>1, Parents
        <5>2. 2 * (0 + 1) <= n
          BY <1>1, <2>2, <5>1
        <5>3. t[p[c]] <= t[p[i]] /\ ~(t[x] > t[p[c]]) /\ c \in Filled
          BY <2>3, <2>4, <2>6, <3>1, <4>2, <5>2
        <5>4. t[p[c]] \in Nat /\ t[p[i]] \in Nat /\ t[x] \in Nat
          BY <1>1, <2>2, <5>3
        <5> QED
          BY <5>3, <5>4
      <4> QED
        BY <2>2, <4>1, <4>2
    <3>2. \A i \in Filled : t[x] <= t[p[i]]
      BY <1>1, <1>5, <2>2, <3>1, RootHole DEF h
    <3>3. t[x] <= t[x] /\ x \in Elements
      BY <1>1, <2>1, <2>2
    <3> QED
      BY <2>1, <2>6, <3>2, <3>3 DEF TopIsFirst, Queue!TopOf, Queue!Earliest
  <2> QED
    BY <2>5, <2>6
<1>6. shift # NoShift => h \in Nat
  BY Shifting
<1> QED
  BY <1>1, <1>2, <1>3, <1>4, <1>5, <1>6

-----------------------------------------------------------------------------
\* The elements of the heap between operations.
LEMMA RestingElements ==
  ASSUME IInv, shift = NoShift
  PROVE  /\ Elements = {p[i] : i \in 0 .. n - 1}
         /\ \A e \in Event : min_heap_idx[e] = -1 <=> e \notin Elements
<1>1. Elements = {p[i] : i \in 0 .. n - 1}
  BY Resting DEF Elements
<1>2. \A i \in 0 .. n - 1 : min_heap_idx[p[i]] = i /\ i # -1
  BY Resting
<1> QED
  BY <1>1, <1>2, Resting

\* An event outside of the heap gets a timeout.
LEMMA SetTimeoutStep ==
  ASSUME IInv, NEW e \in Event, NEW t \in 0 .. MaxTimeout, SetTimeout(e, t)
  PROVE  Queue!SetTimeout(e)
<1>1. /\ shift = NoShift /\ min_heap_idx[e] = -1 /\ ev_timeout' = [ev_timeout EXCEPT ![e] = t]
      /\ UNCHANGED <<p, n, min_heap_idx, shift>>
  BY DEF SetTimeout
<1>2. e \notin Elements
  BY <1>1, RestingElements
<1>3. UNCHANGED <<Elements, TopWhenFilled>>
  BY <1>1 DEF Elements, Filled, TopWhenFilled, min_heap_top_
<1> QED
  BY <1>1, <1>2, <1>3 DEF Queue!SetTimeout, Queue!Timeout

\* min_heap_push_ inserts the event.
LEMMA PushStep ==
  ASSUME IInv, TopIsFirst', NEW e \in Event, Push(e)
  PROVE  Queue!Insert(e)
<1>1. /\ shift = NoShift /\ min_heap_idx[e] = -1 /\ n' = n + 1
      /\ shift' = [pc |-> "up", hole |-> n, elem |-> e, erased |-> NoEvent]
      /\ UNCHANGED <<p, min_heap_idx, ev_timeout>>
  BY DEF Push
<1>2. /\ shift' # NoShift /\ shift'.hole = n /\ shift'.elem = e /\ shift'.erased = NoEvent
      /\ e # NoEvent /\ n \in Nat
  BY <1>1, Resting, MinHeapAssumption DEF NoShift
<1>3. Filled' = 0 .. n - 1
  BY <1>1, <1>2 DEF Filled, Positions
<1>4. Elements' = {p[i] : i \in 0 .. n - 1} \cup {e}
  BY <1>1, <1>2, <1>3 DEF Elements
<1> QED
  BY <1>1, <1>4, RestingElements DEF Queue!Insert, TopIsFirst

\* min_heap_pop_ removes the event on top.
LEMMA PopStep ==
  ASSUME IInv, TopIsFirst', Pop
  PROVE  \E e \in Event : Queue!Remove(e)
<1>1. /\ shift = NoShift /\ n > 0 /\ n' = n - 1
      /\ shift' = [pc |-> "down", hole |-> 0, elem |-> p[n - 1], erased |-> p[0]]
      /\ UNCHANGED <<p, min_heap_idx, ev_timeout>>
  BY DEF Pop
<1>2. /\ n \in Nat /\ \A i \in 0 .. n - 1 : p[i] \in Event /\ min_heap_idx[p[i]] = i
      /\ shift' # NoShift /\ shift'.hole = 0 /\ shift'.elem = p[n - 1] /\ shift'.erased = p[0]
  BY <1>1, Resting DEF NoShift
<1>3. Filled' = 1 .. n - 2
  BY <1>1, <1>2 DEF Filled, Positions
<1>4. Elements' = {p[i] : i \in 1 .. n - 2} \cup ({p[n - 1]} \ {p[0]})
  BY <1>1, <1>2, <1>3 DEF Elements
<1>5. Elements = {p[i] : i \in 0 .. n - 1}
  BY <1>1, RestingElements
<1>6. p[0] \in Elements /\ p[0] \in Event
  BY <1>1, <1>2, <1>5
<1>7. Elements' = Elements \ {p[0]}
  <2>1. \A i \in 0 .. n - 1 : p[i] # p[0] => i \in 1 .. n - 2 \/ i = n - 1
    BY <1>2
  <2>2. \A i \in 1 .. n - 2 : i \in 0 .. n - 1 /\ p[i] # p[0]
    BY <1>2
  <2>3. n - 1 \in 0 .. n - 1
    BY <1>1, <1>2
  <2> QED
    BY <1>4, <1>5, <2>1, <2>2, <2>3
<1> QED
  BY <1>1, <1>6, <1>7 DEF Queue!Remove, TopIsFirst

\* min_heap_erase_ removes an event.
LEMMA EraseStep ==
  ASSUME IInv, TopIsFirst', NEW e \in Event, Erase(e)
  PROVE  Queue!Remove(e)
<1> DEFINE h == min_heap_idx[e]
<1>1. /\ shift = NoShift /\ h # -1 /\ n' = n - 1
      /\ UNCHANGED <<p, min_heap_idx, ev_timeout>>
      /\ shift' # NoShift /\ shift'.hole = h /\ shift'.elem = p[n - 1] /\ shift'.erased = e
  BY DEF Erase, Place, NoShift
<1>2. /\ n \in Nat /\ \A i \in 0 .. n - 1 : p[i] \in Event /\ min_heap_idx[p[i]] = i
      /\ h \in 0 .. n - 1 /\ p[h] = e
  BY <1>1, Resting
<1>3. Filled' = 0 .. n - 2 \ {h}
  BY <1>1, <1>2 DEF Filled, Positions
<1>4. Elements' = {p[i] : i \in 0 .. n - 2 \ {h}} \cup ({p[n - 1]} \ {e})
  BY <1>1, <1>2, <1>3 DEF Elements
<1>5. Elements = {p[i] : i \in 0 .. n - 1} /\ e \in Elements
  BY <1>1, RestingElements
<1> HIDE DEF h
<1>6. Elements' = Elements \ {e}
  <2>1. \A i \in 0 .. n - 1 : p[i] # e => i \in 0 .. n - 2 \ {h} \/ i = n - 1
    BY <1>2
  <2>2. \A i \in 0 .. n - 2 \ {h} : i \in 0 .. n - 1 /\ p[i] # e
    BY <1>2
  <2>3. n - 1 \in 0 .. n - 1
    BY <1>2
  <2> QED
    BY <1>4, <1>5, <2>1, <2>2, <2>3
<1> QED
  BY <1>1, <1>5, <1>6 DEF Queue!Remove, TopIsFirst

\* min_heap_adjust_ changes the timeout of an event of the heap.
LEMMA AdjustStep ==
  ASSUME IInv, TopIsFirst', NEW e \in Event, NEW t \in 0 .. MaxTimeout, Adjust(e, t)
  PROVE  Queue!Reschedule(e)
<1> DEFINE h == min_heap_idx[e]
<1>1. /\ shift = NoShift /\ h # -1 /\ ev_timeout' = [ev_timeout EXCEPT ![e] = t]
      /\ UNCHANGED <<p, n, min_heap_idx>>
      /\ shift' # NoShift /\ shift'.hole = h /\ shift'.elem = e /\ shift'.erased = NoEvent
  BY DEF Adjust, Place, NoShift
<1>2. /\ n \in Nat /\ \A i \in 0 .. n - 1 : p[i] \in Event /\ min_heap_idx[p[i]] = i
      /\ h \in 0 .. n - 1 /\ p[h] = e /\ e # NoEvent
  BY <1>1, Resting, MinHeapAssumption
<1>3. Filled' = 0 .. n - 1 \ {h}
  BY <1>1, <1>2 DEF Filled, Positions
<1>4. Elements' = {p[i] : i \in 0 .. n - 1 \ {h}} \cup {e}
  BY <1>1, <1>2, <1>3 DEF Elements
<1>5. Elements = {p[i] : i \in 0 .. n - 1} /\ e \in Elements
  BY <1>1, RestingElements
<1> HIDE DEF h
<1>6. Elements' = Elements
  BY <1>2, <1>4, <1>5
<1> QED
  BY <1>1, <1>5, <1>6 DEF Queue!Reschedule, Queue!Timeout, TopIsFirst

\* An iteration changes neither the elements nor which one will be on top.
LEMMA MovedElements ==
  ASSUME IInv, shift # NoShift, NEW j \in Filled, shift.hole < n, MoveHole(j)
  PROVE  UNCHANGED Elements
<1>1. /\ shift' # NoShift /\ shift'.elem = shift.elem /\ shift'.erased = shift.erased
      /\ Filled' = (Filled \ {j}) \cup {shift.hole} /\ shift.hole \notin Filled
      /\ p'[shift.hole] = p[j] /\ \A i \in Filled : p'[i] = p[i]
  BY MoveEffect, Shifting
<1>2. {p'[i] : i \in Filled'} = {p[i] : i \in Filled}
  BY <1>1
<1> QED
  BY <1>1, <1>2 DEF Elements

LEMMA ShiftUpStep ==
  ASSUME IInv, ShiftUp
  PROVE  UNCHANGED <<ev_timeout, Elements, TopWhenFilled>>
<1> DEFINE h == shift.hole
           j == Parent(h)
<1>1. /\ shift.pc = "up" /\ h > 0 /\ elem_greater(ev_timeout, p[j], shift.elem) /\ MoveHole(j)
      /\ shift # NoShift
  BY DEF ShiftUp, Rises, NoShift
<1>2. /\ n \in Nat /\ h \in 0 .. n /\ h # n /\ j \in Filled /\ j \in Nat
      /\ Filled = 0 .. n - 1 \ {h}
  BY <1>1, Shifting
<1>3. h < n /\ n # 0 /\ n > 0 /\ h # 0
  BY <1>1, <1>2
<1>4. /\ shift'.hole = j /\ shift'.elem = shift.elem /\ shift'.pc = "up" /\ shift' # NoShift
      /\ \A i \in Filled : p'[i] = p[i]
      /\ UNCHANGED <<n, ev_timeout>>
  BY <1>1, <1>2, <1>3, MoveEffect
<1>5. UNCHANGED Elements
  BY <1>1, <1>2, <1>3, MovedElements
<1>6. ~Sinks'
  BY <1>4 DEF Sinks
<1>7. TopWhenFilled = IF elem_greater(ev_timeout, p[0], shift.elem) THEN shift.elem ELSE p[0]
  BY <1>1, <1>3 DEF TopWhenFilled
<1>8. TopWhenFilled' = IF j = 0 THEN shift.elem
                       ELSE IF elem_greater(ev_timeout, p'[0], shift.elem) THEN shift.elem
                       ELSE p'[0]
  BY <1>3, <1>4, <1>6 DEF TopWhenFilled
<1>9. p'[0] = p[0]
  <2>1. 0 \in Filled
    BY <1>2, <1>3
  <2> QED
    BY <1>4, <2>1
<1>10. TopWhenFilled' = TopWhenFilled
  BY <1>1, <1>7, <1>8, <1>9
<1> QED
  BY <1>4, <1>5, <1>10

LEMMA ShiftDownStep ==
  ASSUME IInv, ShiftDown
  PROVE  UNCHANGED <<ev_timeout, Elements, TopWhenFilled>>
<1> DEFINE h == shift.hole
           c == SmallerChild(h)
<1>1. Sinks /\ shift.pc = "down" /\ 2 * (h + 1) <= n /\ MoveHole(c) /\ shift # NoShift
  BY DEF ShiftDown, Sinks, NoShift
<1>2. /\ n \in Nat /\ h \in Nat /\ Filled = 0 .. n - 1 \ {h}
      /\ c \in Filled /\ c > 0
  BY <1>1, Shifting, Smaller
<1>3. h < n /\ n # 0
  BY <1>1, <1>2
<1>4. /\ shift'.hole = c /\ shift'.pc = "down" /\ shift' # NoShift
      /\ p'[h] = p[c] /\ \A i \in Filled : p'[i] = p[i]
      /\ UNCHANGED <<n, ev_timeout>>
  BY <1>1, <1>2, <1>3, MoveEffect
<1>5. UNCHANGED Elements
  BY <1>1, <1>2, <1>3, MovedElements
<1>6. TopWhenFilled' = p'[0]
  <2>1. c # 0
    BY <1>2
  <2> QED
    BY <1>3, <1>4, <2>1 DEF TopWhenFilled
<1>7. TopWhenFilled = IF h = 0 THEN p[c] ELSE p[0]
  BY <1>1, <1>3 DEF TopWhenFilled
<1>8. h # 0 => p'[0] = p[0]
  <2>1. h # 0 => 0 \in Filled
    BY <1>2, <1>3
  <2> QED
    BY <1>4, <2>1
<1>9. TopWhenFilled' = TopWhenFilled
  BY <1>4, <1>6, <1>7, <1>8
<1> QED
  BY <1>4, <1>5, <1>9

\* Nor does the end of the loop.
LEMMA FillStep ==
  ASSUME IInv, Fill
  PROVE  UNCHANGED <<ev_timeout, Elements, TopWhenFilled>>
<1> DEFINE h == shift.hole
           x == shift.elem
<1>1. /\ shift # NoShift /\ ~Rises /\ ~Sinks
      /\ p' = [i \in 0 .. n - 1 |-> IF i = h THEN x ELSE p[i]]
      /\ shift' = NoShift /\ UNCHANGED <<n, ev_timeout>>
  BY DEF Fill, Positions
<1>2. /\ n \in Nat /\ h \in Nat /\ h <= n /\ x \in Event /\ Filled = 0 .. n - 1 \ {h}
      /\ h = n <=> x = shift.erased
      /\ h > 0 => Parent(h) \in Filled
      /\ \A i \in Filled : p[i] \in Event
      /\ \A f \in Event : ev_timeout[f] \in Nat
  BY <1>1, Shifting
<1>3. Filled' = 0 .. n - 1
  BY <1>1 DEF Filled, Positions
<1>4. UNCHANGED Elements
  <2>1. Elements' = {p'[i] : i \in 0 .. n - 1}
    BY <1>1, <1>3 DEF Elements
  <2>2. Elements = {p[i] : i \in Filled} \cup ({x} \ {shift.erased})
    BY <1>1 DEF Elements
  <2> HIDE DEF h, x
  <2>3. \A i \in Filled : i \in 0 .. n - 1 /\ p'[i] = p[i]
    BY <1>1, <1>2
  <2>4. CASE h = n
    <3>1. Filled = 0 .. n - 1 /\ {x} \ {shift.erased} = {}
      BY <1>2, <2>4
    <3> QED
      BY <2>1, <2>2, <2>3, <3>1
  <2>5. CASE h # n
    <3>1. h \in 0 .. n - 1 /\ p'[h] = x /\ {x} \ {shift.erased} = {x}
      BY <1>1, <1>2, <2>5
    <3>2. \A i \in 0 .. n - 1 : i = h \/ i \in Filled
      BY <1>2
    <3> QED
      BY <2>1, <2>2, <2>3, <3>1, <3>2
  <2> QED
    BY <2>4, <2>5
<1>5. TopWhenFilled' = TopWhenFilled
  <2>1. CASE n = 0
    BY <1>1, <2>1 DEF TopWhenFilled, min_heap_top_
  <2>2. CASE n > 0 /\ h = 0
    <3>1. p'[0] = x
      BY <1>1, <1>2, <2>2
    <3> QED
      BY <1>1, <1>2, <2>2, <3>1 DEF TopWhenFilled, min_heap_top_
  <2>3. CASE n > 0 /\ h > 0
    <3>1. 0 \in Filled /\ \A i \in Filled : ev_timeout[p[0]] <= ev_timeout[p[i]]
      BY <1>1, <2>3, ShiftingRoot
    <3>2. ~(shift.pc = "up" /\ elem_greater(ev_timeout, p[0], x))
      <4>1. shift.pc = "up" => ~(ev_timeout[p[Parent(h)]] > ev_timeout[x])
        BY <1>1, <2>3 DEF Rises, elem_greater
      <4>2. /\ ev_timeout[p[0]] \in Nat /\ ev_timeout[p[Parent(h)]] \in Nat
            /\ ev_timeout[x] \in Nat /\ ev_timeout[p[0]] <= ev_timeout[p[Parent(h)]]
        BY <1>2, <2>3, <3>1
      <4> QED
        BY <4>1, <4>2 DEF elem_greater
    <3>3. p'[0] = p[0]
      BY <1>1, <1>2, <2>3, <3>1
    <3> QED
      BY <1>1, <1>2, <2>3, <3>2, <3>3 DEF TopWhenFilled, min_heap_top_
  <2> QED
    BY <1>2, <2>1, <2>2, <2>3
<1> QED
  BY <1>1, <1>4, <1>5

LEMMA QueueStep ==
  ASSUME IInv, TopIsFirst', [Next]_vars
  PROVE  [Queue!Next]_Queue!vars
<1>1. CASE UNCHANGED vars
  <2>1. UNCHANGED <<Elements, TopWhenFilled>>
    BY <1>1 DEF vars, Elements, Filled, TopWhenFilled, Sinks, SmallerChild, min_heap_top_
  <2> QED
    BY <1>1, <2>1 DEF vars, Queue!vars
<1>2. CASE ShiftUp \/ ShiftDown \/ Fill
  BY <1>2, ShiftUpStep, ShiftDownStep, FillStep DEF Queue!vars
<1> QED
  BY <1>1, <1>2, SetTimeoutStep, PushStep, PopStep, EraseStep, AdjustStep DEF Next, Queue!Next

LEMMA QueueInit == Init => Queue!Init
<1> SUFFICES ASSUME Init
             PROVE  Queue!Init
  OBVIOUS
<1>1. n = 0 /\ shift = NoShift /\ Filled = {}
  BY DEF Init, Filled, Positions
<1>2. Elements = {} /\ TopWhenFilled = NoEvent
  BY <1>1 DEF Elements, TopWhenFilled, min_heap_top_
<1> QED
  BY <1>2 DEF Init, Queue!Init, Queue!Timeout

\* min_heap_top_ gives an event of the heap that expires first, whatever the order in which events
\* are pushed, popped, erased and adjusted.
THEOREM TimeoutQueueImplemented == Spec => ImplementsTimeoutQueue
<1>1. Spec => []TopIsFirst
  BY Invariant, TopFirst, PTL
<1>2. IInv /\ TopIsFirst' /\ [Next]_vars => [Queue!Next]_Queue!vars
  BY QueueStep
<1> QED
  BY <1>1, <1>2, Invariant, QueueInit, PTL DEF Spec, ImplementsTimeoutQueue, Queue!Spec
=============================================================================
