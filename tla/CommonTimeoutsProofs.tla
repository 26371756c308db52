------------------------ MODULE CommonTimeoutsProofs ------------------------
(***************************************************************************)
(* The queues of common timeouts are what they promise: CommonTimeoutsOK,  *)
(* and that events fire as if each had its own place among the timers      *)
(* (Timers), for any number of events and queues and any times.            *)
(*                                                                         *)
(* The functions of the component are about the containers that they get   *)
(* and return; the first half says what each does to them.  Every step is  *)
(* then summed up by which events are pending and which fire after it, and *)
(* at what times (Moves), from which the invariant and the refinement      *)
(* follow.                                                                 *)
(***************************************************************************)
EXTENDS CommonTimeouts, SequenceTheorems, FiniteSetTheorems, NaturalsInduction,
        WellFoundedInduction, TLAPS

-----------------------------------------------------------------------------
(* Sequences in the order of times.                                        *)

\* Every set of numbers has a least one.
LEMMA Least ==
  ASSUME NEW S, S \subseteq Nat, S # {}
  PROVE  \E m \in S : \A n \in S : m <= n
<1>1. PICK m \in S : \A n \in S : ~(<<n, m>> \in OpToRel(<, Nat))
  BY NatLessThanWellFounded, WFMin
<1>2. \A n \in S : ~(n < m)
  BY <1>1 DEF OpToRel
<1> QED
  BY <1>2

Sorted(q, t) ==
  \A m, n \in DOMAIN q : m < n => q[m] # q[n] /\ t[q[m]] <= t[q[n]]

\* The elements of r stand in q, in the same order.
Within(r, q) ==
  \A m, n \in DOMAIN r : m <= n =>
    \E j, k \in DOMAIN q : /\ r[m] = q[j] /\ r[n] = q[k] /\ j <= k
                           /\ m < n => j < k

\* What is left of a sorted sequence is sorted.
LEMMA WithinSorted ==
  ASSUME NEW q, NEW r, NEW t, Sorted(q, t), Within(r, q), DOMAIN r \subseteq Nat
  PROVE  Sorted(r, t)
  BY DEF Sorted, Within

\* What a sequence holds.
LEMMA Elements ==
  ASSUME NEW S, NEW q \in Seq(S)
  PROVE  /\ Len(q) \in Nat /\ DOMAIN q = 1 .. Len(q)
         /\ \A k \in 1 .. Len(q) : q[k] \in S /\ q[k] \in ToSet(q)
         /\ \A x \in ToSet(q) : x \in S /\ \E k \in 1 .. Len(q) : q[k] = x
         /\ q # <<>> <=> Len(q) > 0
         /\ q # <<>> => Head(q) = q[1] /\ Head(q) \in ToSet(q)
  BY DEF ToSet

\* Two parts of a sequence put together.
LEMMA Joined ==
  ASSUME NEW S, NEW a \in Seq(S), NEW b \in Seq(S)
  PROVE  /\ a \o b \in Seq(S) /\ Len(a \o b) = Len(a) + Len(b)
         /\ DOMAIN (a \o b) = 1 .. Len(a) + Len(b)
         /\ \A i \in 1 .. Len(a) + Len(b) :
              (a \o b)[i] = IF i <= Len(a) THEN a[i] ELSE b[i - Len(a)]
  BY ConcatProperties

\* A sequence without one of its elements.
LEMMA RemoveAtIs ==
  ASSUME NEW S, NEW q \in Seq(S), NEW k \in 1 .. Len(q)
  PROVE  /\ RemoveAt(q, k) \in Seq(S) /\ Len(RemoveAt(q, k)) = Len(q) - 1
         /\ DOMAIN RemoveAt(q, k) = 1 .. Len(q) - 1
         /\ \A i \in 1 .. Len(q) - 1 : RemoveAt(q, k)[i] = IF i < k THEN q[i] ELSE q[i + 1]
<1> DEFINE a == SubSeq(q, 1, k - 1)
           b == SubSeq(q, k + 1, Len(q))
<1>1. Len(q) \in Nat
  OBVIOUS
<1>2. a \in Seq(S) /\ Len(a) = k - 1 /\ \A i \in 1 .. k - 1 : a[i] = q[i]
  BY <1>1
<1>3. b \in Seq(S) /\ Len(b) = Len(q) - k /\ \A i \in 1 .. Len(q) - k : b[i] = q[i + k]
  BY <1>1
<1>4. RemoveAt(q, k) = a \o b
  BY DEF RemoveAt
<1> HIDE DEF a, b
<1>5. /\ a \o b \in Seq(S) /\ Len(a \o b) = Len(q) - 1 /\ DOMAIN (a \o b) = 1 .. Len(q) - 1
      /\ \A i \in 1 .. Len(q) - 1 : (a \o b)[i] = IF i <= k - 1 THEN a[i] ELSE b[i - (k - 1)]
  <2>1. Len(a) + Len(b) = Len(q) - 1
    BY <1>1, <1>2, <1>3
  <2>2. /\ a \o b \in Seq(S) /\ Len(a \o b) = Len(a) + Len(b)
        /\ DOMAIN (a \o b) = 1 .. Len(a) + Len(b)
        /\ \A i \in 1 .. Len(a) + Len(b) :
             (a \o b)[i] = IF i <= Len(a) THEN a[i] ELSE b[i - Len(a)]
    BY <1>2, <1>3, Joined, Zenon
  <2> QED
    BY ONLY <1>2, <2>1, <2>2
<1>6. ASSUME NEW i \in 1 .. Len(q) - 1
      PROVE  (a \o b)[i] = IF i < k THEN q[i] ELSE q[i + 1]
  <2> k \in Nat /\ i \in Nat
    BY <1>1
  <2>1. CASE i < k
    BY <1>1, <1>2, <1>5, <2>1
  <2>2. CASE ~(i < k)
    <3>1. i - (k - 1) \in 1 .. Len(q) - k /\ i - (k - 1) + k = i + 1
      BY <1>1, <2>2
    <3> QED
      BY <1>1, <1>3, <1>5, <2>2, <3>1
  <2> QED
    BY <2>1, <2>2
<1> QED
  BY <1>4, <1>5, <1>6

\* A sequence with one element more.
LEMMA InsertAtIs ==
  ASSUME NEW S, NEW q \in Seq(S), NEW k \in 1 .. Len(q) + 1, NEW e \in S
  PROVE  /\ InsertAt(q, k, e) \in Seq(S) /\ Len(InsertAt(q, k, e)) = Len(q) + 1
         /\ DOMAIN InsertAt(q, k, e) = 1 .. Len(q) + 1
         /\ \A i \in 1 .. Len(q) + 1 :
              InsertAt(q, k, e)[i] = IF i < k THEN q[i] ELSE IF i = k THEN e ELSE q[i - 1]
<1> DEFINE a == SubSeq(q, 1, k - 1)
           b == SubSeq(q, k, Len(q))
           c == a \o <<e>>
<1>1. Len(q) \in Nat
  OBVIOUS
<1>2. a \in Seq(S) /\ Len(a) = k - 1 /\ \A i \in 1 .. k - 1 : a[i] = q[i]
  BY <1>1
<1>3. b \in Seq(S) /\ Len(b) = Len(q) - k + 1 /\ \A i \in 1 .. Len(q) - k + 1 : b[i] = q[i + k - 1]
  BY <1>1
<1>4. InsertAt(q, k, e) = c \o b
  BY DEF InsertAt
<1>5. c \in Seq(S) /\ Len(c) = k /\ \A i \in 1 .. k : c[i] = IF i < k THEN q[i] ELSE e
  <2>1. <<e>> \in Seq(S) /\ Len(<<e>>) = 1 /\ <<e>>[1] = e
    OBVIOUS
  <2> HIDE DEF a
  <2>2. /\ c \in Seq(S) /\ Len(c) = k
        /\ \A i \in 1 .. k : c[i] = IF i <= k - 1 THEN a[i] ELSE <<e>>[i - (k - 1)]
    BY <1>1, <1>2, <2>1, Joined
  <2> QED
    BY <1>1, <1>2, <2>1, <2>2
<1> HIDE DEF b, c
<1>6. /\ c \o b \in Seq(S) /\ Len(c \o b) = Len(q) + 1 /\ DOMAIN (c \o b) = 1 .. Len(q) + 1
      /\ \A i \in 1 .. Len(q) + 1 : (c \o b)[i] = IF i <= k THEN c[i] ELSE b[i - k]
  <2>1. Len(c) + Len(b) = Len(q) + 1
    BY <1>1, <1>3, <1>5
  <2>2. /\ c \o b \in Seq(S) /\ Len(c \o b) = Len(c) + Len(b)
        /\ DOMAIN (c \o b) = 1 .. Len(c) + Len(b)
        /\ \A i \in 1 .. Len(c) + Len(b) :
             (c \o b)[i] = IF i <= Len(c) THEN c[i] ELSE b[i - Len(c)]
    BY <1>3, <1>5, Joined, Zenon
  <2> QED
    BY ONLY <1>5, <2>1, <2>2
<1>7. ASSUME NEW i \in 1 .. Len(q) + 1
      PROVE  (c \o b)[i] = IF i < k THEN q[i] ELSE IF i = k THEN e ELSE q[i - 1]
  <2> k \in Nat /\ i \in Nat
    BY <1>1
  <2>1. CASE i <= k
    BY <1>1, <1>5, <1>6, <2>1
  <2>2. CASE ~(i <= k)
    <3>1. i - k \in 1 .. Len(q) - k + 1 /\ i - k + k - 1 = i - 1
      BY <1>1, <2>2
    <3> QED
      BY <1>1, <1>3, <1>6, <2>2, <3>1
  <2> QED
    BY <2>1, <2>2
<1> QED
  BY <1>4, <1>6, <1>7

\* TAILQ_REMOVE
LEMMA UnlinkedIs ==
  ASSUME NEW S, NEW q \in Seq(S), NEW t, Sorted(q, t), NEW e
  PROVE  /\ Unlinked(q, e) \in Seq(S)
         /\ ToSet(Unlinked(q, e)) = ToSet(q) \ {e}
         /\ Sorted(Unlinked(q, e), t)
         /\ e \notin ToSet(q) => Unlinked(q, e) = q
         /\ Unlinked(q, e) # <<>> /\ (\A x \in ToSet(q) : t[x] \in Nat) =>
              q # <<>> /\ t[Head(q)] <= t[Head(Unlinked(q, e))]
<1>1. CASE ~\E n \in DOMAIN q : q[n] = e
  BY <1>1 DEF Unlinked, ToSet
<1>2. CASE \E n \in DOMAIN q : q[n] = e
  <2> DEFINE k == CHOOSE n \in DOMAIN q : q[n] = e
             r == Unlinked(q, e)
  <2>1. k \in 1 .. Len(q) /\ q[k] = e /\ Len(q) \in Nat /\ DOMAIN q = 1 .. Len(q)
    BY <1>2
  <2>2. r = RemoveAt(q, k)
    BY <1>2 DEF Unlinked
  <2> HIDE DEF k, r
  <2>3. /\ r \in Seq(S) /\ Len(r) = Len(q) - 1 /\ DOMAIN r = 1 .. Len(q) - 1
        /\ \A i \in 1 .. Len(q) - 1 : r[i] = IF i < k THEN q[i] ELSE q[i + 1]
    BY <2>1, <2>2, RemoveAtIs
  <2> DEFINE at(i) == IF i < k THEN i ELSE i + 1
  <2>4. \A i \in DOMAIN r : at(i) \in DOMAIN q /\ r[i] = q[at(i)]
    BY <2>1, <2>3
  <2>5. \A i, j \in DOMAIN r : (i < j <=> at(i) < at(j)) /\ at(i) # k
    BY <2>1, <2>3
  <2>6. \A j \in DOMAIN q : j # k => \E i \in DOMAIN r : at(i) = j
    <3>1. ASSUME NEW j \in DOMAIN q, j # k PROVE \E i \in DOMAIN r : at(i) = j
      <4>1. CASE j < k
        BY <2>1, <2>3, <4>1
      <4>2. CASE j > k
        <5>1. j - 1 \in DOMAIN r /\ at(j - 1) = j
          BY <2>1, <2>3, <4>2
        <5> QED
          BY <5>1
      <4> QED
        BY <2>1, <3>1, <4>1, <4>2
    <3> QED
      BY <3>1
  <2> HIDE DEF at
  <2>7. Sorted(r, t)
    BY <2>4, <2>5 DEF Sorted
  <2>8. \A j \in DOMAIN q : j # k => q[j] # e
    BY <2>1 DEF Sorted
  <2>9. ToSet(r) = ToSet(q) \ {e}
    BY <2>1, <2>4, <2>5, <2>6, <2>8 DEF ToSet
  <2>10. ASSUME r # <<>>, \A x \in ToSet(q) : t[x] \in Nat
         PROVE  q # <<>> /\ t[Head(q)] <= t[Head(r)]
    <3>1. Len(r) > 0 /\ Head(r) = r[1] /\ 1 \in DOMAIN r
      BY <2>3, <2>10
    <3>2. 1 \in DOMAIN q /\ at(1) \in DOMAIN q /\ at(1) >= 1 /\ Head(r) = q[at(1)] /\ q # <<>>
      BY <2>1, <2>3, <2>4, <3>1
    <3>3. t[q[1]] <= t[q[at(1)]]
      BY <2>1, <2>10, <3>2 DEF Sorted, ToSet
    <3> QED
      BY <3>2, <3>3
  <2> QED
    BY <1>2, <2>3, <2>7, <2>9, <2>10 DEF r, ToSet
<1> QED
  BY <1>1, <1>2

-----------------------------------------------------------------------------
(* The containers as values.                                               *)

Queue == [duration : Duration, events : Seq(Event)]

Values == [queues : Seq(Queue), heap : SUBSET (Event \cup Index),
           timeout : [Event \cup Index -> Nat \cup {Never}],
           active : SUBSET (Event \cup Index), notify : BOOLEAN]

Events(st, i) == ToSet(st.queues[i].events)

\* The events in the heap or in a queue.
In(st) == { e \in Event : e \in st.heap \/ \E i \in DOMAIN st.queues : e \in Events(st, i) }

\* The events that are scheduled have times; each stands once, in one container; and the
\* queues are in the order of the times.
Good(st) ==
  /\ st \in Values /\ Len(st.queues) <= MAX_COMMON_TIMEOUTS
  /\ st.heap \cup st.active \subseteq Event \cup DOMAIN st.queues
  /\ \A x \in st.heap \cup st.active \cup In(st) : st.timeout[x] \in Nat
  /\ \A i \in DOMAIN st.queues :
       Sorted(st.queues[i].events, st.timeout) /\ Events(st, i) \cap st.heap = {}
  /\ \A i, j \in DOMAIN st.queues : i # j => Events(st, i) \cap Events(st, j) = {}

Covered(st, i) ==
  st.queues[i].events # <<>> =>
    i \in st.active \/ (i \in st.heap /\ st.timeout[i] <= st.timeout[Head(st.queues[i].events)])

\* The queues and their durations are the same.
SameQueues(st, s) ==
  /\ DOMAIN s.queues = DOMAIN st.queues
  /\ \A i \in DOMAIN st.queues : s.queues[i].duration = st.queues[i].duration

\* The containers are consistent, and the heap speaks for each queue.
Core == Good(State) /\ \A i \in DOMAIN queues : Covered(State, i)

\* While the loop sleeps, and has not been notified, either its wait is over, or nothing is
\* active and it sleeps no longer than to the earliest time in the heap, of an event or of a
\* queue, but for the age of the time it counted from.
SleepOK ==
  sleep # Awake /\ ~notified =>
    \/ sleep # Forever /\ sleep <= now
    \/ active = {} /\ \A x \in heap : sleep # Forever /\ sleep <= timeout[x] + lag

\* The events in the heap whose time has come.
Expired == { e \in heap : timeout[e] <= now }

\* The interval of a persistent event is known as soon as it is needed.
IntervalsOK ==
  \A e \in Persist \cap (active \cup Pending) : interval[e] \in Timeval /\ Known(interval[e])

Rest ==
  /\ now \in 0..MaxTime /\ no_cache \in BOOLEAN
  /\ tv_cache \in 0..now \cup {Never} /\ lag \in 0..now
  /\ no_cache => tv_cache = Never /\ lag = 0
  /\ interval \in [Event -> Timeval \cup {<<0, Plain>>}]
  /\ sleep \in Nat \cup {Awake, Forever} /\ notified \in BOOLEAN

\* The inductive invariant.
IInv == Core /\ SleepOK /\ IntervalsOK /\ Rest

-----------------------------------------------------------------------------
(* The functions on the containers.                                        *)

\* A function on 1 .. n as a sequence.
LEMMA SequenceOf ==
  ASSUME NEW S, NEW n \in Nat, NEW f \in [1 .. n -> S]
  PROVE  f \in Seq(S) /\ Len(f) = n
<1>1. f \in Seq(S)
  BY SeqDef
<1>2. Len(f) \in Nat /\ DOMAIN f = 1 .. Len(f)
  BY <1>1
<1>3. 1 .. n = 1 .. Len(f)
  BY <1>2
<1> QED
  BY <1>1, <1>2, <1>3

\* What the types say of a value.
LEMMA Fields ==
  ASSUME NEW st \in Values
  PROVE  /\ Len(st.queues) \in Nat /\ DOMAIN st.queues = 1 .. Len(st.queues)
         /\ \A i \in DOMAIN st.queues :
              /\ st.queues[i] \in Queue /\ st.queues[i].events \in Seq(Event)
              /\ Events(st, i) \subseteq Event
         /\ st.heap \subseteq Event \cup Index /\ st.active \subseteq Event \cup Index
         /\ st.timeout \in [Event \cup Index -> Nat \cup {Never}]
         /\ In(st) \subseteq Event
<1>1. st.queues \in Seq(Queue)
  BY DEF Values
<1>2. Len(st.queues) \in Nat /\ DOMAIN st.queues = 1 .. Len(st.queues)
  BY <1>1
<1>3. ASSUME NEW i \in DOMAIN st.queues
      PROVE  /\ st.queues[i] \in Queue /\ st.queues[i].events \in Seq(Event)
             /\ Events(st, i) \subseteq Event
  <2>1. st.queues[i] \in Queue
    BY <1>1
  <2>2. st.queues[i].events \in Seq(Event)
    BY <2>1 DEF Queue
  <2> QED
    BY <2>1, <2>2, Elements DEF Events
<1> QED
  BY <1>2, <1>3 DEF Values, In

\* The indices of queues are not events.
LEMMA GoodIndex ==
  ASSUME CommonAssumption, NEW st, Good(st), NEW i \in DOMAIN st.queues
  PROVE  i \in Index /\ i \notin Event /\ i \in Nat
<1>1. st \in Values /\ Len(st.queues) <= MAX_COMMON_TIMEOUTS
  BY DEF Good
<1>2. i \in 1 .. Len(st.queues) /\ Len(st.queues) \in Nat
  BY <1>1, Fields
<1> QED
  BY <1>1, <1>2 DEF CommonAssumption, Index

\* event_queue_remove_timeout
LEMMA Removed ==
  ASSUME CommonAssumption, NEW st, Good(st), NEW e,
         NEW r, r = event_queue_remove_timeout(st, e)
  PROVE  /\ Good(r) /\ SameQueues(st, r)
         /\ r.heap = st.heap \ {e} /\ r.timeout = st.timeout
         /\ r.active = st.active /\ r.notify = st.notify
         /\ In(r) = In(st) \ {e}
         /\ \A i \in DOMAIN st.queues : Events(r, i) = Events(st, i) \ {e}
         /\ e \notin Event => r.queues = st.queues
         /\ \A i \in DOMAIN st.queues : i # e /\ Covered(st, i) => Covered(r, i)
<1> DEFINE cut == [i \in DOMAIN st.queues |->
                     [st.queues[i] EXCEPT !.events = Unlinked(@, e)]]
<1>1. st \in Values
  BY DEF Good
<1>2. r = [st EXCEPT !.heap = st.heap \ {e}, !.queues = cut]
  BY DEF event_queue_remove_timeout
<1>3. ASSUME NEW i \in DOMAIN st.queues
      PROVE  /\ cut[i] \in Queue /\ cut[i].duration = st.queues[i].duration
             /\ cut[i].events = Unlinked(st.queues[i].events, e)
             /\ cut[i].events \in Seq(Event)
             /\ ToSet(cut[i].events) = Events(st, i) \ {e}
             /\ Sorted(cut[i].events, st.timeout)
             /\ e \notin Events(st, i) => cut[i] = st.queues[i]
             /\ cut[i].events # <<>> =>
                  st.queues[i].events # <<>>
                  /\ st.timeout[Head(st.queues[i].events)] <= st.timeout[Head(cut[i].events)]
  <2>1. /\ st.queues[i] \in Queue /\ st.queues[i].events \in Seq(Event)
        /\ Events(st, i) \subseteq Event
    BY <1>1, Fields
  <2>2. Sorted(st.queues[i].events, st.timeout)
    BY DEF Good
  <2>3. \A x \in ToSet(st.queues[i].events) : st.timeout[x] \in Nat
    BY <2>1 DEF Good, In, Events
  <2> DEFINE u == Unlinked(st.queues[i].events, e)
  <2>4. /\ u \in Seq(Event) /\ ToSet(u) = Events(st, i) \ {e} /\ Sorted(u, st.timeout)
        /\ e \notin Events(st, i) => u = st.queues[i].events
        /\ u # <<>> => st.queues[i].events # <<>>
                       /\ st.timeout[Head(st.queues[i].events)] <= st.timeout[Head(u)]
    BY <2>1, <2>2, <2>3, UnlinkedIs DEF Events
  <2>5. cut[i] = [st.queues[i] EXCEPT !.events = u]
    OBVIOUS
  <2> HIDE DEF u
  <2>6. cut[i] \in Queue /\ cut[i].duration = st.queues[i].duration /\ cut[i].events = u
        /\ (u = st.queues[i].events => cut[i] = st.queues[i])
    BY <2>1, <2>4, <2>5 DEF Queue
  <2> QED
    BY <2>4, <2>6 DEF u
<1> HIDE DEF cut
<1>4. DOMAIN cut = DOMAIN st.queues /\ Len(st.queues) \in Nat
      /\ cut \in [1 .. Len(st.queues) -> Queue]
  BY <1>1, <1>3, Fields DEF cut
<1>5. cut \in Seq(Queue) /\ Len(cut) = Len(st.queues)
  BY <1>4, SequenceOf
<1>6. /\ r \in Values /\ r.queues = cut /\ r.heap = st.heap \ {e} /\ r.timeout = st.timeout
      /\ r.active = st.active /\ r.notify = st.notify
  BY <1>1, <1>2, <1>5 DEF Values
<1>7. /\ SameQueues(st, r) /\ DOMAIN r.queues = DOMAIN st.queues
      /\ \A i \in DOMAIN st.queues : Events(r, i) = Events(st, i) \ {e}
  BY <1>3, <1>4, <1>6 DEF SameQueues, Events
<1>8. In(r) = In(st) \ {e}
  BY <1>6, <1>7 DEF In
<1>9. Good(r)
  <2>1. Len(r.queues) <= MAX_COMMON_TIMEOUTS
    BY <1>5, <1>6 DEF Good
  <2>2. r.heap \cup r.active \subseteq Event \cup DOMAIN r.queues
    BY <1>6, <1>7 DEF Good
  <2>3. \A x \in r.heap \cup r.active \cup In(r) : r.timeout[x] \in Nat
    BY <1>6, <1>8 DEF Good
  <2>4. \A i \in DOMAIN r.queues :
          Sorted(r.queues[i].events, r.timeout) /\ Events(r, i) \cap r.heap = {}
    BY <1>3, <1>6, <1>7 DEF Good
  <2>5. \A i, j \in DOMAIN r.queues : i # j => Events(r, i) \cap Events(r, j) = {}
    BY <1>7 DEF Good
  <2> QED
    BY <1>6, <2>1, <2>2, <2>3, <2>4, <2>5 DEF Good
<1>10. e \notin Event => r.queues = st.queues
  <2> SUFFICES ASSUME e \notin Event PROVE cut = st.queues
    BY <1>6
  <2>1. \A i \in DOMAIN st.queues : cut[i] = st.queues[i]
    BY <1>1, <1>3, Fields
  <2>2. cut \in Seq(Queue) /\ st.queues \in Seq(Queue) /\ Len(cut) = Len(st.queues)
    BY <1>1, <1>5 DEF Values
  <2> QED
    BY <2>1, <2>2, SeqEqual
<1>11. \A i \in DOMAIN st.queues : i # e /\ Covered(st, i) => Covered(r, i)
  <2> SUFFICES ASSUME NEW i \in DOMAIN st.queues, i # e, Covered(st, i), r.queues[i].events # <<>>
               PROVE  \/ i \in r.active
                      \/ i \in r.heap /\ r.timeout[i] <= r.timeout[Head(r.queues[i].events)]
    BY DEF Covered
  <2>1. /\ st.queues[i].events # <<>>
        /\ st.timeout[Head(st.queues[i].events)] <= st.timeout[Head(cut[i].events)]
    BY <1>3, <1>6
  <2>2. CASE i \in st.active
    BY <1>6, <2>2
  <2>3. CASE i \in st.heap /\ st.timeout[i] <= st.timeout[Head(st.queues[i].events)]
    <3>1. st.timeout[i] \in Nat
      BY <2>3 DEF Good
    <3>2. Head(st.queues[i].events) \in Events(st, i) /\ Head(cut[i].events) \in Events(st, i)
      <4>1. st.queues[i].events \in Seq(Event) /\ cut[i].events \in Seq(Event)
        BY <1>1, <1>3, Fields
      <4>2. ToSet(cut[i].events) \subseteq Events(st, i) /\ cut[i].events # <<>>
        BY <1>3, <1>6
      <4>3. Head(cut[i].events) \in ToSet(cut[i].events)
        BY <4>1, <4>2, Elements
      <4>4. Head(st.queues[i].events) \in ToSet(st.queues[i].events)
        BY <2>1, <4>1, Elements
      <4> QED
        BY <4>2, <4>3, <4>4 DEF Events
    <3>3. \A x \in Events(st, i) : st.timeout[x] \in Nat
      BY <1>1, Fields DEF Good, In
    <3> QED
      BY <1>6, <2>1, <2>3, <3>1, <3>2, <3>3
  <2> QED
    BY <2>1, <2>2, <2>3 DEF Covered
<1> QED
  BY <1>6, <1>7, <1>8, <1>9, <1>10, <1>11

\* An event or queue x that stands nowhere gets a time, and perhaps its place in the heap.
Retimed(r, x, time, w) ==
  /\ w \in Values /\ w.queues = r.queues /\ w.timeout = [r.timeout EXCEPT ![x] = time]
  /\ w.active = r.active \ {x} /\ w.heap \in {r.heap, r.heap \cup {x}}

\* Something gets a time, in the heap or out of it.
LEMMA Timed ==
  ASSUME CommonAssumption, NEW r, Good(r), NEW x \in Event \cup DOMAIN r.queues,
         x \notin In(r), x \notin r.heap, NEW time \in Nat,
         NEW w, Retimed(r, x, time, w)
  PROVE  /\ Good(w) /\ SameQueues(r, w)
         /\ In(w) = In(r) \cup ({x} \cap w.heap \cap Event)
         /\ \A i \in DOMAIN r.queues : Events(w, i) = Events(r, i)
         /\ \A i \in DOMAIN r.queues : i # x /\ Covered(r, i) => Covered(w, i)
<1> USE DEF Retimed
<1>1. r \in Values
  BY DEF Good
<1>2. /\ SameQueues(r, w) /\ \A i \in DOMAIN r.queues : Events(w, i) = Events(r, i)
      /\ In(w) = In(r) \cup ({x} \cap w.heap \cap Event)
  BY DEF SameQueues, Events, In
<1>3. x \in Event \cup Index
  BY GoodIndex
<1>4. w.timeout[x] = time /\ \A y \in Event \cup Index : y # x => w.timeout[y] = r.timeout[y]
  BY <1>1, <1>3, Fields
<1>5. \A i \in DOMAIN r.queues : x \notin Events(r, i) /\ Events(r, i) \subseteq Event
  BY <1>1, Fields DEF In
<1>6. Good(w)
  <2>1. Len(w.queues) <= MAX_COMMON_TIMEOUTS
    BY DEF Good
  <2>2. w.heap \cup w.active \subseteq Event \cup DOMAIN w.queues
    BY DEF Good
  <2>3. ASSUME NEW y \in w.heap \cup w.active \cup In(w) PROVE w.timeout[y] \in Nat
    <3>1. CASE y = x
      BY <1>4, <3>1
    <3>2. CASE y # x
      <4>1. y \in r.heap \cup r.active \cup In(r) /\ y \in Event \cup Index
        BY <1>1, <1>2, <3>2, Fields
      <4> QED
        BY <1>4, <3>2, <4>1 DEF Good
    <3> QED
      BY <3>1, <3>2
  <2>4. ASSUME NEW i \in DOMAIN w.queues
        PROVE  Sorted(w.queues[i].events, w.timeout) /\ Events(w, i) \cap w.heap = {}
    <3>1. r.queues[i].events \in Seq(Event) /\ Sorted(r.queues[i].events, r.timeout)
      BY <1>1, Fields DEF Good
    <3>2. \A y \in ToSet(r.queues[i].events) : r.timeout[y] = w.timeout[y]
      BY <1>4, <1>5 DEF Events
    <3>3. Events(r, i) \cap w.heap = {}
      BY <1>5 DEF Good
    <3>4. \A m \in DOMAIN r.queues[i].events :
            r.queues[i].events[m] \in ToSet(r.queues[i].events)
      BY <3>1, Elements
    <3>5. Sorted(r.queues[i].events, w.timeout)
      BY <3>1, <3>2, <3>4 DEF Sorted
    <3> QED
      BY <1>2, <3>3, <3>5
  <2>5. \A i, j \in DOMAIN w.queues : i # j => Events(w, i) \cap Events(w, j) = {}
    BY <1>2 DEF Good
  <2> QED
    BY <2>1, <2>2, <2>3, <2>4, <2>5 DEF Good
<1>7. ASSUME NEW i \in DOMAIN r.queues, i # x, Covered(r, i), w.queues[i].events # <<>>
      PROVE  i \in w.active \/ (i \in w.heap /\ w.timeout[i] <= w.timeout[Head(w.queues[i].events)])
  <2>1. r.queues[i].events \in Seq(Event)
    BY <1>1, Fields
  <2>2. Head(r.queues[i].events) \in Events(r, i)
    BY <1>7, <2>1, Elements DEF Events
  <2>3. w.timeout[Head(w.queues[i].events)] = r.timeout[Head(w.queues[i].events)]
    BY <1>4, <1>5, <2>2
  <2>4. w.timeout[i] = r.timeout[i]
    BY <1>4, <1>7, GoodIndex
  <2> QED
    BY <1>7, <2>3, <2>4 DEF Covered
<1> QED
  BY <1>2, <1>6, <1>7 DEF Covered

\* event_add_nolock_, with a plain time, of an event or of a queue.
LEMMA AddedPlain ==
  ASSUME CommonAssumption, now \in Nat, NEW st, Good(st),
         NEW x \in Event \cup DOMAIN st.queues, NEW time \in Nat,
         NEW s, s = AddPlain(st, x, time)
  PROVE  /\ Good(s) /\ SameQueues(st, s)
         /\ s.heap = st.heap \cup {x} /\ s.active = st.active \ {x}
         /\ s.timeout = [st.timeout EXCEPT ![x] = time]
         /\ In(s) = In(st) \cup ({x} \cap Event)
         /\ x \notin Event => s.queues = st.queues
         /\ \A i \in DOMAIN st.queues : i # x /\ Covered(st, i) => Covered(s, i)
         /\ st.notify => s.notify
         /\ ~s.notify => \E f \in st.heap : st.timeout[f] <= time
<1> DEFINE r == event_queue_remove_timeout(st, x)
           w == [r EXCEPT !.heap = @ \cup {x}, !.timeout[x] = time, !.active = @ \ {x}]
           news == r.notify \/ (\A f \in w.heap \ {x} : time < w.timeout[f])
                            \/ (\E f \in w.heap : w.timeout[f] < gettime)
<1>1. /\ Good(r) /\ SameQueues(st, r)
      /\ r.heap = st.heap \ {x} /\ r.timeout = st.timeout
      /\ r.active = st.active /\ r.notify = st.notify
      /\ In(r) = In(st) \ {x}
      /\ x \notin Event => r.queues = st.queues
      /\ \A i \in DOMAIN st.queues : i # x /\ Covered(st, i) => Covered(r, i)
  BY Removed
<1>2. s = [w EXCEPT !.notify = news]
  BY DEF AddPlain
<1>3. x \in Event \cup Index
  BY GoodIndex
<1>4. r \in Values
  BY <1>1 DEF Good
<1> HIDE DEF r
<1>5. /\ w \in Values /\ w.queues = r.queues /\ w.heap = r.heap \cup {x}
      /\ w.active = r.active \ {x} /\ w.timeout = [r.timeout EXCEPT ![x] = time]
      /\ w.notify = r.notify
  BY <1>3, <1>4 DEF Values
<1>6. news \in BOOLEAN
  OBVIOUS
<1> HIDE DEF w, news
<1>7. /\ s \in Values /\ s.queues = r.queues /\ s.heap = r.heap \cup {x}
      /\ s.active = r.active \ {x} /\ s.timeout = [r.timeout EXCEPT ![x] = time]
      /\ s.notify = news
  BY <1>2, <1>5, <1>6 DEF Values
<1>8. x \in Event \cup DOMAIN r.queues /\ x \notin In(r) /\ x \notin r.heap
  BY <1>1 DEF SameQueues
<1>9. /\ Good(s) /\ SameQueues(r, s)
      /\ In(s) = In(r) \cup ({x} \cap s.heap \cap Event)
      /\ \A i \in DOMAIN r.queues : i # x /\ Covered(r, i) => Covered(s, i)
  <2>1. Retimed(r, x, time, s)
    BY <1>7 DEF Retimed
  <2> QED
    BY <1>1, <1>8, <2>1, Timed
<1>10. SameQueues(st, s) /\ \A i \in DOMAIN st.queues : i # x /\ Covered(st, i) => Covered(s, i)
  BY <1>1, <1>9 DEF SameQueues
<1>11. In(s) = In(st) \cup ({x} \cap Event)
  BY <1>1, <1>7, <1>9 DEF In
<1>12. s.heap = st.heap \cup {x}
  BY <1>1, <1>7
<1>13. ASSUME ~news PROVE \E f \in st.heap : st.timeout[f] <= time
  <2>1. PICK f \in w.heap \ {x} : ~(time < w.timeout[f])
    BY <1>13 DEF news
  <2>2. f \in r.heap /\ f # x /\ f \in Event \cup Index /\ r.timeout[f] \in Nat
    BY <1>1, <1>4, <1>5, <2>1, Fields DEF Good
  <2>3. w.timeout[f] = r.timeout[f]
    BY <1>3, <1>4, <1>5, <2>2, Fields
  <2> QED
    BY <1>1, <2>1, <2>2, <2>3
<1>14. st.notify => news
  BY <1>1 DEF news
<1> QED
  BY <1>1, <1>7, <1>9, <1>10, <1>11, <1>12, <1>13, <1>14

\* Every set of numbers up to a bound has a greatest one.
LEMMA Greatest ==
  ASSUME NEW n \in Nat, NEW S, S \subseteq 1 .. n, S # {}
  PROVE  \E m \in S : \A k \in S : k <= m
<1> DEFINE T == { n - k : k \in S }
<1>1. T \subseteq Nat /\ T # {}
  <2>1. \A k \in S : n - k \in Nat
    OBVIOUS
  <2> QED
    BY <2>1
<1>2. PICK m \in T : \A k \in T : m <= k
  BY <1>1, Least
<1>3. PICK j \in S : m = n - j
  BY <1>2
<1>4. \A k \in S : n - j <= n - k
  BY <1>2, <1>3
<1> QED
  BY <1>4

\* What insert_common_timeout_inorder searches a queue for.
Earlier(q, t, e) == { n \in DOMAIN q : t[q[n]] <= t[e] }

Place(q, t, e) ==
  IF Earlier(q, t, e) = {} THEN 1
  ELSE CHOOSE n \in 1..Len(q) + 1 :
         n - 1 \in Earlier(q, t, e) /\ \A m \in Earlier(q, t, e) : m <= n - 1

\* The place that the search from the end finds.
LEMMA PlaceIs ==
  ASSUME NEW q \in Seq(Event), NEW t, NEW e, t[e] \in Nat,
         \A x \in ToSet(q) : t[x] \in Nat, Sorted(q, t)
  PROVE  /\ Place(q, t, e) \in 1 .. Len(q) + 1
         /\ \A m \in DOMAIN q : IF m < Place(q, t, e) THEN t[q[m]] <= t[e] ELSE t[e] <= t[q[m]]
<1> DEFINE earlier == Earlier(q, t, e)
           place == Place(q, t, e)
<1> SUFFICES /\ place \in 1 .. Len(q) + 1
             /\ \A m \in DOMAIN q : IF m < place THEN t[q[m]] <= t[e] ELSE t[e] <= t[q[m]]
  OBVIOUS
<1> earlier = { n \in DOMAIN q : t[q[n]] <= t[e] }
  BY DEF Earlier
<1> place = IF earlier = {} THEN 1 ELSE CHOOSE n \in 1..Len(q) + 1 :
                     n - 1 \in earlier /\ \A m \in earlier : m <= n - 1
  BY DEF Place
<1> HIDE DEF earlier, place
<1>1. Len(q) \in Nat /\ DOMAIN q = 1 .. Len(q) /\ \A m \in DOMAIN q : t[q[m]] \in Nat
  BY Elements
<1>2. \A m, n \in DOMAIN q : m < n => t[q[m]] <= t[q[n]]
  BY DEF Sorted
<1>3. CASE earlier = {}
  <2>1. \A m \in DOMAIN q : ~(t[q[m]] <= t[e])
    BY <1>3
  <2> QED
    BY <1>1, <1>3, <2>1
<1>4. CASE earlier # {}
  <2>1. earlier \subseteq 1 .. Len(q)
    BY <1>1
  <2>2. PICK m \in earlier : \A k \in earlier : k <= m
    BY <1>1, <1>4, <2>1, Greatest
  <2>3. m + 1 \in 1 .. Len(q) + 1 /\ (m + 1) - 1 = m
    BY <1>1, <2>1, <2>2
  <2>4. \E n \in 1 .. Len(q) + 1 : n - 1 \in earlier /\ \A k \in earlier : k <= n - 1
    BY <2>2, <2>3
  <2>5. /\ place \in 1 .. Len(q) + 1 /\ place - 1 \in earlier
        /\ \A k \in earlier : k <= place - 1
    BY <1>4, <2>4
  <2> place \in Nat
    BY <1>1, <2>5
  <2>6. ASSUME NEW k \in DOMAIN q, k < place PROVE t[q[k]] <= t[e]
    <3>1. place - 1 \in DOMAIN q /\ t[q[place - 1]] <= t[e]
      BY <2>5
    <3>2. CASE k = place - 1
      BY <3>1, <3>2
    <3>3. CASE k # place - 1
      <4>1. k \in Nat /\ k < place - 1
        BY <1>1, <2>6, <3>3
      <4>2. t[q[k]] <= t[q[place - 1]]
        BY <1>2, <2>6, <3>1, <4>1
      <4>3. t[q[k]] \in Nat /\ t[q[place - 1]] \in Nat
        BY <1>1, <2>6, <3>1
      <4> QED
        BY ONLY <3>1, <4>2, <4>3, t[e] \in Nat
    <3> QED
      BY <3>2, <3>3
  <2>7. ASSUME NEW k \in DOMAIN q, ~(k < place) PROVE t[e] <= t[q[k]]
    <3>1. k \notin earlier
      <4>1. k \in Nat /\ ~(k <= place - 1)
        BY <1>1, <2>7
      <4> QED
        BY <2>5, <4>1
    <3> QED
      BY <1>1, <2>7, <3>1
  <2> QED
    BY <2>5, <2>6, <2>7
<1> QED
  BY <1>3, <1>4

\* A queue with a new event where the search ends.
LEMMA InsertedSorted ==
  ASSUME NEW q \in Seq(Event), NEW t, NEW e \in Event, t[e] \in Nat, e \notin ToSet(q),
         \A x \in ToSet(q) : t[x] \in Nat, Sorted(q, t), NEW place \in 1 .. Len(q) + 1,
         \A m \in DOMAIN q : IF m < place THEN t[q[m]] <= t[e] ELSE t[e] <= t[q[m]],
         NEW r, r = InsertAt(q, place, e)
  PROVE  /\ r \in Seq(Event) /\ ToSet(r) = ToSet(q) \cup {e} /\ Sorted(r, t) /\ r # <<>>
         /\ Head(r) # e => q # <<>> /\ Head(r) = Head(q)
<1>1. Len(q) \in Nat /\ DOMAIN q = 1 .. Len(q)
      /\ \A m \in DOMAIN q : t[q[m]] \in Nat /\ q[m] \in ToSet(q) /\ q[m] # e
  BY Elements
<1>2. /\ r \in Seq(Event) /\ Len(r) = Len(q) + 1 /\ DOMAIN r = 1 .. Len(q) + 1
      /\ \A i \in 1 .. Len(q) + 1 :
           r[i] = IF i < place THEN q[i] ELSE IF i = place THEN e ELSE q[i - 1]
  <2>1. /\ InsertAt(q, place, e) \in Seq(Event) /\ Len(InsertAt(q, place, e)) = Len(q) + 1
        /\ DOMAIN InsertAt(q, place, e) = 1 .. Len(q) + 1
        /\ \A i \in 1 .. Len(q) + 1 :
             InsertAt(q, place, e)[i] =
               IF i < place THEN q[i] ELSE IF i = place THEN e ELSE q[i - 1]
    BY ONLY q \in Seq(Event), place \in 1 .. Len(q) + 1, e \in Event, InsertAtIs, SMT
  <2> QED
    BY <2>1
<1>3. \A m, n \in DOMAIN q : m < n => q[m] # q[n] /\ t[q[m]] <= t[q[n]]
  BY DEF Sorted
<1> place \in Nat
  BY <1>1
<1>4. ASSUME NEW m \in DOMAIN r, NEW n \in DOMAIN r, m < n
      PROVE  r[m] # r[n] /\ t[r[m]] <= t[r[n]]
  <2> m \in Nat /\ n \in Nat
    BY <1>1, <1>2
  <2>1. CASE n < place
    <3>1. m \in DOMAIN q /\ n \in DOMAIN q /\ r[m] = q[m] /\ r[n] = q[n]
      BY <1>1, <1>2, <1>4, <2>1
    <3> QED
      BY <1>3, <1>4, <3>1
  <2>2. CASE n = place
    <3>1. m \in DOMAIN q /\ r[m] = q[m] /\ r[n] = e /\ m < place
      BY <1>1, <1>2, <1>4, <2>2
    <3> QED
      BY <1>1, <3>1
  <2>3. CASE n > place /\ m < place
    <3>1. m \in DOMAIN q /\ n - 1 \in DOMAIN q /\ r[m] = q[m] /\ r[n] = q[n - 1] /\ m < n - 1
      BY <1>1, <1>2, <1>4, <2>3
    <3> QED
      BY <1>3, <3>1
  <2>4. CASE n > place /\ m = place
    <3>1. n - 1 \in DOMAIN q /\ r[m] = e /\ r[n] = q[n - 1] /\ ~(n - 1 < place)
      BY <1>1, <1>2, <1>4, <2>4
    <3> QED
      BY <1>1, <3>1
  <2>5. CASE n > place /\ m > place
    <3>1. /\ m - 1 \in DOMAIN q /\ n - 1 \in DOMAIN q /\ m - 1 < n - 1
          /\ r[m] = q[m - 1] /\ r[n] = q[n - 1]
      BY <1>1, <1>2, <1>4, <2>5
    <3> QED
      BY <1>3, <3>1
  <2> QED
    BY <2>1, <2>2, <2>3, <2>4, <2>5
<1>5. ToSet(r) \subseteq ToSet(q) \cup {e}
  <2> SUFFICES ASSUME NEW i \in 1 .. Len(q) + 1 PROVE r[i] \in ToSet(q) \cup {e}
    BY <1>2 DEF ToSet
  <2> i \in Nat
    BY <1>1
  <2>1. i < place => i \in DOMAIN q /\ r[i] = q[i]
    BY <1>1, <1>2
  <2>2. i > place => i - 1 \in DOMAIN q /\ r[i] = q[i - 1]
    BY <1>1, <1>2
  <2>3. i = place => r[i] = e
    BY <1>2
  <2> QED
    BY <1>1, <2>1, <2>2, <2>3
<1>6. ASSUME NEW j \in DOMAIN q PROVE q[j] \in ToSet(r)
  <2> j \in Nat
    BY <1>1
  <2>1. CASE j < place
    <3>1. j \in 1 .. Len(q) + 1 /\ r[j] = q[j]
      BY <1>1, <1>2, <2>1
    <3> QED
      BY <1>2, <3>1 DEF ToSet
  <2>2. CASE ~(j < place)
    <3>1. j + 1 \in 1 .. Len(q) + 1 /\ r[j + 1] = q[j]
      <4>1. j + 1 \in 1 .. Len(q) + 1 /\ ~(j + 1 < place) /\ j + 1 # place /\ (j + 1) - 1 = j
        BY <1>1, <2>2
      <4> QED
        BY <1>2, <4>1
    <3> QED
      BY <1>2, <3>1 DEF ToSet
  <2> QED
    BY <2>1, <2>2
<1>7. e \in ToSet(r)
  BY <1>2 DEF ToSet
<1>8. r # <<>> /\ Head(r) = r[1]
  BY <1>1, <1>2
<1>9. Head(r) # e => q # <<>> /\ Head(r) = Head(q)
  <2> SUFFICES ASSUME Head(r) # e PROVE q # <<>> /\ Head(r) = Head(q)
    OBVIOUS
  <2>1. 1 # place
    BY <1>1, <1>2, <1>8
  <2>2. r[1] = q[1] /\ Len(q) > 0
    BY <1>1, <1>2, <2>1
  <2> QED
    BY <1>8, <2>2
<1>10. ToSet(q) \subseteq ToSet(r)
  BY <1>1, <1>6, Elements
<1> QED
  BY <1>2, <1>4, <1>5, <1>7, <1>8, <1>9, <1>10 DEF Sorted

\* insert_common_timeout_inorder
LEMMA Inserted ==
  ASSUME CommonAssumption, NEW st, Good(st), NEW i \in DOMAIN st.queues,
         NEW e \in Event, e \notin In(st), e \notin st.heap, st.timeout[e] \in Nat,
         NEW s, s = insert_common_timeout_inorder(st, i, e)
  PROVE  /\ Good(s) /\ SameQueues(st, s)
         /\ s.heap = st.heap /\ s.timeout = st.timeout
         /\ s.active = st.active /\ s.notify = st.notify
         /\ In(s) = In(st) \cup {e} /\ s.queues[i].events # <<>>
         /\ e \in Events(s, i)
         /\ \A j \in DOMAIN st.queues : j # i /\ Covered(st, j) => Covered(s, j)
         /\ Covered(st, i) /\ Head(s.queues[i].events) # e => Covered(s, i)
<1> DEFINE q == st.queues[i].events
           place == Place(q, st.timeout, e)
           r == InsertAt(q, place, e)
<1>1. st \in Values /\ q \in Seq(Event) /\ Sorted(q, st.timeout) /\ ToSet(q) \subseteq In(st)
  BY Fields DEF Good, Events, In
<1>2. e \notin ToSet(q) /\ \A x \in ToSet(q) : st.timeout[x] \in Nat
  BY <1>1 DEF Good
<1>3. s = [st EXCEPT !.queues[i].events = r]
  BY DEF insert_common_timeout_inorder, Place, Earlier
<1> HIDE DEF q
<1>4. /\ place \in 1 .. Len(q) + 1
      /\ \A m \in DOMAIN q : IF m < place THEN st.timeout[q[m]] <= st.timeout[e]
                             ELSE st.timeout[e] <= st.timeout[q[m]]
  BY <1>1, <1>2, PlaceIs
<1> HIDE DEF place
<1>5. /\ r \in Seq(Event) /\ ToSet(r) = ToSet(q) \cup {e} /\ Sorted(r, st.timeout) /\ r # <<>>
      /\ Head(r) # e => q # <<>> /\ Head(r) = Head(q)
  BY <1>1, <1>2, <1>4, InsertedSorted
<1> HIDE DEF r
<1>6. st.queues \in Seq(Queue) /\ st.queues[i] \in Queue
  BY <1>1, Fields DEF Values
<1>7. /\ s \in Values /\ s.heap = st.heap /\ s.timeout = st.timeout
      /\ s.active = st.active /\ s.notify = st.notify
      /\ s.queues = [st.queues EXCEPT ![i].events = r]
      /\ DOMAIN s.queues = DOMAIN st.queues /\ Len(s.queues) = Len(st.queues)
      /\ s.queues[i].events = r /\ s.queues[i].duration = st.queues[i].duration
      /\ \A j \in DOMAIN st.queues : j # i => s.queues[j] = st.queues[j]
  <2> DEFINE record == [st.queues[i] EXCEPT !.events = r]
             changed == [st.queues EXCEPT ![i] = record]
  <2>1. record \in Queue /\ record.events = r /\ record.duration = st.queues[i].duration
    BY <1>5, <1>6 DEF Queue
  <2>2. s = [st EXCEPT !.queues = changed]
    BY <1>3
  <2>3. changed = [st.queues EXCEPT ![i].events = r]
    OBVIOUS
  <2> HIDE DEF record
  <2>4. /\ changed \in Seq(Queue) /\ Len(changed) = Len(st.queues) /\ changed[i] = record
        /\ DOMAIN changed = DOMAIN st.queues
        /\ \A j \in DOMAIN st.queues : j # i => changed[j] = st.queues[j]
    BY <1>6, <2>1, ExceptSeq
  <2> HIDE DEF changed
  <2> QED
    BY <1>1, <2>1, <2>2, <2>3, <2>4 DEF Values
<1>8. /\ Events(s, i) = Events(st, i) \cup {e}
      /\ \A j \in DOMAIN st.queues : j # i => Events(s, j) = Events(st, j)
  BY <1>5, <1>7 DEF Events, q
<1>9. SameQueues(st, s)
  BY <1>7 DEF SameQueues
<1>10. In(s) = In(st) \cup {e}
  BY <1>7, <1>8 DEF In
<1>11. Good(s)
  <2>1. Len(s.queues) <= MAX_COMMON_TIMEOUTS
    BY <1>7 DEF Good
  <2>2. s.heap \cup s.active \subseteq Event \cup DOMAIN s.queues
    BY <1>7 DEF Good
  <2>3. \A x \in s.heap \cup s.active \cup In(s) : s.timeout[x] \in Nat
    BY <1>7, <1>10 DEF Good
  <2>4. ASSUME NEW j \in DOMAIN s.queues
        PROVE  Sorted(s.queues[j].events, s.timeout) /\ Events(s, j) \cap s.heap = {}
    <3>1. CASE j = i
      BY <1>5, <1>7, <1>8, <3>1 DEF Good
    <3>2. CASE j # i
      BY <1>7, <1>8, <3>2 DEF Good
    <3> QED
      BY <3>1, <3>2
  <2>5. ASSUME NEW j \in DOMAIN s.queues, NEW k \in DOMAIN s.queues, j # k
        PROVE  Events(s, j) \cap Events(s, k) = {}
    <3>1. e \notin Events(st, j) /\ e \notin Events(st, k)
      BY <1>7 DEF In
    <3>2. Events(st, j) \cap Events(st, k) = {}
      BY <1>7, <2>5 DEF Good
    <3> QED
      BY <1>7, <1>8, <2>5, <3>1, <3>2
  <2> QED
    BY <1>7, <2>1, <2>2, <2>3, <2>4, <2>5 DEF Good
<1>12. \A j \in DOMAIN st.queues : j # i /\ Covered(st, j) => Covered(s, j)
  BY <1>7 DEF Covered
<1>13. Covered(st, i) /\ Head(s.queues[i].events) # e => Covered(s, i)
  BY <1>5, <1>7 DEF Covered, q
<1> QED
  BY <1>5, <1>7, <1>8, <1>9, <1>10, <1>11, <1>12, <1>13

\* What an addition of e does, whichever container e goes to.
Added(st, s, e, time) ==
  /\ Good(s) /\ SameQueues(st, s)
  /\ In(s) = In(st) \cup {e}
  /\ \A x \in Event : s.timeout[x] = IF x = e THEN time ELSE st.timeout[x]
  /\ s.active \subseteq st.active /\ s.active \cap Event = (st.active \cap Event) \ {e}
  /\ (\A i \in DOMAIN st.queues : Covered(st, i)) => \A i \in DOMAIN st.queues : Covered(s, i)
  /\ ~s.notify => \A x \in s.heap : \E f \in st.heap : st.timeout[f] <= s.timeout[x]

\* With a plain time, which is in the heap by itself.
LEMMA PlainAdded ==
  ASSUME CommonAssumption, now \in Nat, NEW st, Good(st),
         NEW e \in Event, NEW time \in Nat, NEW s, s = AddPlain(st, e, time)
  PROVE  Added(st, s, e, time)
<1>1. /\ Good(s) /\ SameQueues(st, s)
      /\ s.heap = st.heap \cup {e} /\ s.active = st.active \ {e}
      /\ s.timeout = [st.timeout EXCEPT ![e] = time]
      /\ In(s) = In(st) \cup ({e} \cap Event)
      /\ \A i \in DOMAIN st.queues : i # e /\ Covered(st, i) => Covered(s, i)
      /\ ~s.notify => \E f \in st.heap : st.timeout[f] <= time
  BY AddedPlain
<1>2. st \in Values /\ \A x \in st.heap : x \in Event \cup Index /\ st.timeout[x] \in Nat
  BY Fields DEF Good
<1>3. s.timeout[e] = time /\ \A x \in Event \cup Index : x # e => s.timeout[x] = st.timeout[x]
  BY <1>1, <1>2, Fields
<1>4. \A i \in DOMAIN st.queues : i # e
  BY GoodIndex
<1>5. ASSUME ~s.notify, NEW x \in s.heap
      PROVE  \E f \in st.heap : st.timeout[f] <= s.timeout[x]
  <2>1. CASE x = e
    BY <1>1, <1>3, <1>5, <2>1
  <2>2. CASE x # e
    <3>1. x \in st.heap /\ st.timeout[x] \in Nat /\ s.timeout[x] = st.timeout[x]
      BY <1>1, <1>2, <1>3, <1>5, <2>2
    <3>2. st.timeout[x] <= s.timeout[x]
      BY <3>1
    <3> QED
      BY <3>1, <3>2
  <2> QED
    BY <2>1, <2>2
<1> QED
  BY <1>1, <1>3, <1>4, <1>5 DEF Added

\* With a common time, behind the internal event of its queue.
LEMMA CommonAdded ==
  ASSUME CommonAssumption, now \in Nat, NEW st, Good(st), NEW e \in Event,
         NEW i \in DOMAIN st.queues, NEW time \in Nat, NEW s, s = AddCommon(st, e, i, time)
  PROVE  Added(st, s, e, time)
<1> DEFINE r == event_queue_remove_timeout(st, e)
           w == [r EXCEPT !.timeout[e] = time, !.active = @ \ {e}]
           u == insert_common_timeout_inorder(w, i, e)
<1>1. /\ Good(r) /\ SameQueues(st, r)
      /\ r.heap = st.heap \ {e} /\ r.timeout = st.timeout
      /\ r.active = st.active /\ r.notify = st.notify
      /\ In(r) = In(st) \ {e}
      /\ \A j \in DOMAIN st.queues : j # e /\ Covered(st, j) => Covered(r, j)
  BY Removed
<1>2. s = IF Head(u.queues[i].events) = e THEN common_timeout_schedule(u, i) ELSE u
  BY DEF AddCommon
<1> HIDE DEF r
<1>3. r \in Values
  BY <1>1 DEF Good
<1>4. /\ w \in Values /\ w.queues = r.queues /\ w.heap = r.heap
      /\ w.active = r.active \ {e} /\ w.timeout = [r.timeout EXCEPT ![e] = time]
      /\ w.notify = r.notify
  BY <1>3 DEF Values
<1> HIDE DEF w
<1>5. DOMAIN r.queues = DOMAIN st.queues /\ \A j \in DOMAIN st.queues : j # e
  BY <1>1, GoodIndex DEF SameQueues
<1>6. /\ Good(w) /\ SameQueues(r, w)
      /\ In(w) = In(r) \cup ({e} \cap w.heap \cap Event)
      /\ \A j \in DOMAIN r.queues : j # e /\ Covered(r, j) => Covered(w, j)
  <2>1. e \in Event \cup DOMAIN r.queues /\ e \notin In(r) /\ e \notin r.heap
    BY <1>1
  <2>2. Retimed(r, e, time, w)
    BY <1>4 DEF Retimed
  <2> QED
    BY <1>1, <2>1, <2>2, Timed
<1>7. /\ In(w) = In(r) /\ e \notin In(w) /\ e \notin w.heap /\ w.timeout[e] = time
      /\ DOMAIN w.queues = DOMAIN st.queues
  BY <1>1, <1>3, <1>4, <1>5, <1>6, Fields
<1>8. /\ Good(u) /\ SameQueues(w, u)
      /\ u.heap = w.heap /\ u.timeout = w.timeout
      /\ u.active = w.active /\ u.notify = w.notify
      /\ In(u) = In(w) \cup {e} /\ u.queues[i].events # <<>>
      /\ \A j \in DOMAIN w.queues : j # i /\ Covered(w, j) => Covered(u, j)
      /\ Covered(w, i) /\ Head(u.queues[i].events) # e => Covered(u, i)
  BY <1>6, <1>7, Inserted
<1> HIDE DEF u
<1>9. /\ SameQueues(st, u) /\ DOMAIN u.queues = DOMAIN st.queues
      /\ In(u) = In(st) \cup {e}
      /\ \A j \in DOMAIN st.queues : j # i /\ Covered(st, j) => Covered(u, j)
      /\ Covered(st, i) /\ Head(u.queues[i].events) # e => Covered(u, i)
  BY <1>1, <1>5, <1>6, <1>7, <1>8 DEF SameQueues
<1>10. /\ u.heap = st.heap \ {e} /\ u.active = st.active \ {e} /\ u.notify = st.notify
       /\ u.timeout = [st.timeout EXCEPT ![e] = time]
  BY <1>1, <1>4, <1>8
<1>11. st \in Values /\ \A x \in st.heap : x \in Event \cup Index /\ st.timeout[x] \in Nat
  BY Fields DEF Good
<1>12. u.timeout[e] = time /\ \A x \in Event \cup Index : x # e => u.timeout[x] = st.timeout[x]
  BY <1>10, <1>11, Fields
<1>13. ASSUME NEW x \in u.heap
       PROVE  \E f \in st.heap : st.timeout[f] <= u.timeout[x]
  <2>1. x \in st.heap /\ u.timeout[x] = st.timeout[x] /\ st.timeout[x] \in Nat
    BY <1>10, <1>11, <1>12
  <2>2. st.timeout[x] <= u.timeout[x]
    BY <2>1
  <2> QED
    BY <2>1, <2>2
<1>14. CASE Head(u.queues[i].events) # e
  <2>1. s = u
    BY <1>2, <1>14
  <2> QED
    BY <1>8, <1>9, <1>10, <1>12, <1>13, <1>14, <2>1 DEF Added
<1>15. CASE Head(u.queues[i].events) = e
  <2>1. s = AddPlain(u, i, time)
    BY <1>2, <1>12, <1>15 DEF common_timeout_schedule
  <2>2. /\ Good(s) /\ SameQueues(u, s)
        /\ s.heap = u.heap \cup {i} /\ s.active = u.active \ {i}
        /\ s.timeout = [u.timeout EXCEPT ![i] = time]
        /\ In(s) = In(u) \cup ({i} \cap Event)
        /\ i \notin Event => s.queues = u.queues
        /\ \A j \in DOMAIN u.queues : j # i /\ Covered(u, j) => Covered(s, j)
        /\ ~s.notify => \E f \in u.heap : u.timeout[f] <= time
    BY <1>8, <1>9, <2>1, AddedPlain
  <2>3. i \in Index /\ i \notin Event
    BY GoodIndex
  <2>4. u \in Values /\ u.timeout \in [Event \cup Index -> Nat \cup {Never}]
    BY <1>8, Fields DEF Good
  <2>5. s.timeout[i] = time /\ \A x \in Event \cup Index : x # i => s.timeout[x] = u.timeout[x]
    BY <2>2, <2>3, <2>4
  <2>6. Covered(s, i)
    BY <1>12, <1>15, <2>2, <2>3, <2>5 DEF Covered
  <2>7. ASSUME ~s.notify, NEW x \in s.heap
        PROVE  \E f \in st.heap : st.timeout[f] <= s.timeout[x]
    <3>1. CASE x = i
      <4>1. PICK f \in u.heap : u.timeout[f] <= time
        BY <2>2, <2>7
      <4>2. f \in st.heap /\ f # e /\ f \in Event \cup Index
        BY <1>10, <1>11, <4>1
      <4>3. st.timeout[f] <= s.timeout[x]
        BY <1>12, <2>5, <3>1, <4>1, <4>2
      <4> QED
        BY <4>2, <4>3
    <3>2. CASE x # i
      <4>1. x \in u.heap /\ x \in Event \cup Index
        BY <1>10, <1>11, <2>2, <2>7, <3>2
      <4>2. s.timeout[x] = u.timeout[x]
        BY <2>5, <3>2, <4>1
      <4> QED
        BY <1>13, <4>1, <4>2
    <3> QED
      BY <3>1, <3>2
  <2>8. SameQueues(st, s)
    BY <1>9, <2>2 DEF SameQueues
  <2>9. In(s) = In(st) \cup {e}
    BY <1>9, <2>2, <2>3
  <2>10. \A x \in Event : s.timeout[x] = IF x = e THEN time ELSE st.timeout[x]
    BY <1>12, <2>3, <2>5
  <2>11. s.active \subseteq st.active /\ s.active \cap Event = (st.active \cap Event) \ {e}
    BY <1>10, <2>2, <2>3
  <2>12. (\A j \in DOMAIN st.queues : Covered(st, j)) => \A j \in DOMAIN st.queues : Covered(s, j)
    BY <1>9, <2>2, <2>6
  <2> QED
    BY <2>2, <2>7, <2>8, <2>9, <2>10, <2>11, <2>12 DEF Added
<1> QED
  BY <1>14, <1>15

\* event_add_nolock_, with a time that the caller may use.
LEMMA AddAtAdds ==
  ASSUME CommonAssumption, now \in Nat, NEW st, Good(st), NEW e \in Event,
         NEW tv \in Timeval, tv[2] # Plain => tv[2] \in DOMAIN st.queues,
         NEW time \in Nat, NEW s, s = AddAt(st, e, tv, time)
  PROVE  Added(st, s, e, time)
<1>1. CASE IsCommon(tv)
  <2>1. tv[2] \in DOMAIN st.queues /\ s = AddCommon(st, e, tv[2], time)
    BY <1>1 DEF IsCommon, AddAt
  <2> QED
    BY <2>1, CommonAdded
<1>2. CASE ~IsCommon(tv)
  BY <1>2, PlainAdded DEF AddAt
<1> QED
  BY <1>1, <1>2

-----------------------------------------------------------------------------
(* The steps.                                                              *)

\* The containers of the next state are those of the value s.
LEMMA Becomes ==
  ASSUME NEW s, Good(s), Become(s)
  PROVE  /\ Good(State') /\ In(State') = In(s) /\ DOMAIN queues' = DOMAIN s.queues
         /\ \A i \in DOMAIN s.queues : Covered(s, i) => Covered(State', i)
         /\ \A i \in DOMAIN s.queues : queues'[i] = s.queues[i]
<1>1. /\ State'.queues = s.queues /\ State'.heap = s.heap /\ State'.timeout = s.timeout
      /\ State'.active = s.active /\ State'.notify = FALSE
  BY DEF State, Become
<1>2. State' \in Values
  BY <1>1 DEF State, Values, Good
<1>3. In(State') = In(s) /\ \A i \in DOMAIN s.queues : Events(State', i) = Events(s, i)
  BY <1>1 DEF In, Events
<1>4. Good(State')
  BY <1>1, <1>2, <1>3 DEF Good
<1>5. \A i \in DOMAIN s.queues : Covered(s, i) => Covered(State', i)
  BY <1>1 DEF Covered
<1> QED
  BY <1>1, <1>3, <1>4, <1>5 DEF Become

\* What the invariant says of the variables.
LEMMA Facts ==
  ASSUME CommonAssumption, IInv
  PROVE  /\ Good(State) /\ \A i \in DOMAIN State.queues : Covered(State, i)
         /\ State.queues = queues /\ State.heap = heap /\ State.timeout = timeout
         /\ State.active = active /\ State.notify = FALSE
         /\ Pending = In(State)
         /\ State \in Values
         /\ now \in Nat /\ MaxTime \in Nat /\ gettime \in Nat /\ gettime <= now
<1>1. /\ State.queues = queues /\ State.heap = heap /\ State.timeout = timeout
      /\ State.active = active /\ State.notify = FALSE
  BY DEF State
<1>2. Good(State) /\ \A i \in DOMAIN State.queues : Covered(State, i)
  BY <1>1 DEF IInv, Core
<1>3. Pending = In(State)
  BY <1>1 DEF Pending, In, QueueOf, Events
<1>4. gettime \in Nat /\ gettime <= now
  BY DEF IInv, Rest, gettime, CommonAssumption
<1> QED
  BY <1>1, <1>2, <1>3, <1>4 DEF IInv, Rest, Good, CommonAssumption

\* The containers after a step, and the events pending then.
LEMMA BecomesCore ==
  ASSUME NEW s, Good(s), Become(s), \A i \in DOMAIN s.queues : Covered(s, i)
  PROVE  Core' /\ Pending' = In(s) /\ DOMAIN queues' = DOMAIN s.queues
         /\ \A i \in DOMAIN s.queues : queues'[i] = s.queues[i]
<1>1. /\ Good(State') /\ In(State') = In(s) /\ DOMAIN queues' = DOMAIN s.queues
      /\ \A i \in DOMAIN s.queues : Covered(State', i)
      /\ \A i \in DOMAIN s.queues : queues'[i] = s.queues[i]
  BY Becomes
<1>2. State'.queues = queues' /\ State'.heap = heap'
  BY DEF State
<1>3. Pending' = In(State')
  BY <1>2 DEF Pending, In, QueueOf, Events
<1>4. Core'
  BY <1>1 DEF Core
<1> QED
  BY <1>1, <1>3, <1>4

\* What a step does to the events: those pending and active, and their times.
Moves(pending, fires, times) ==
  /\ Core' /\ Pending' = pending /\ active' \cap Event = fires
  /\ \A x \in Event : timeout'[x] = times[x]

\* The durations of the queues stay.
KeepsQueues ==
  /\ DOMAIN queues' = DOMAIN queues
  /\ \A i \in DOMAIN queues : queues'[i].duration = queues[i].duration

\* What an addition does to the variables.
LEMMA AddedMoves ==
  ASSUME CommonAssumption, NEW st, Good(st), NEW e \in Event, NEW time, NEW s,
         Added(st, s, e, time), Become(s), \A i \in DOMAIN st.queues : Covered(st, i)
  PROVE  /\ Moves(In(st) \cup {e}, (st.active \cap Event) \ {e}, [st.timeout EXCEPT ![e] = time])
         /\ active' \subseteq st.active
         /\ DOMAIN queues' = DOMAIN st.queues
         /\ \A i \in DOMAIN st.queues : queues'[i].duration = st.queues[i].duration
<1>1. /\ Good(s) /\ SameQueues(st, s) /\ In(s) = In(st) \cup {e}
      /\ \A x \in Event : s.timeout[x] = IF x = e THEN time ELSE st.timeout[x]
      /\ s.active \subseteq st.active /\ s.active \cap Event = (st.active \cap Event) \ {e}
      /\ \A i \in DOMAIN st.queues : Covered(s, i)
  BY DEF Added
<1>2. DOMAIN s.queues = DOMAIN st.queues
      /\ \A i \in DOMAIN st.queues : s.queues[i].duration = st.queues[i].duration
  BY <1>1 DEF SameQueues
<1>3. /\ Core' /\ Pending' = In(s) /\ DOMAIN queues' = DOMAIN s.queues
      /\ \A i \in DOMAIN s.queues : queues'[i] = s.queues[i]
  BY <1>1, <1>2, BecomesCore
<1>4. active' = s.active /\ timeout' = s.timeout
  BY DEF Become
<1>5. st.timeout \in [Event \cup Index -> Nat \cup {Never}]
  BY Fields DEF Good
<1>6. \A x \in Event : timeout'[x] = [st.timeout EXCEPT ![e] = time][x]
  BY <1>1, <1>4, <1>5
<1> QED
  BY <1>1, <1>2, <1>3, <1>4, <1>6 DEF Moves

\* event_add makes the event pending at its time, and no longer active.
LEMMA AddMoves ==
  ASSUME CommonAssumption, IInv, NEW e \in Event, NEW tv \in Timeval, event_add(e, tv)
  PROVE  /\ Moves(Pending \cup {e}, (active \cap Event) \ {e}, [timeout EXCEPT ![e] = gettime + tv[1]])
         /\ KeepsQueues /\ active' \subseteq active
         /\ sleep # Awake /\ ~notified' =>
              ~notified /\ \A x \in heap' : \E f \in heap : timeout[f] <= timeout'[x]
<1> DEFINE s == AddAt(State, e, tv, gettime + tv[1])
<1>1. Become(s) /\ Notify(s) /\ Known(tv)
  BY DEF event_add
<1>2. tv[1] \in Nat /\ gettime + tv[1] \in Nat
  <2>1. tv[1] \in Nat
    BY DEF Timeval, CommonAssumption
  <2> QED
    BY <2>1, Facts
<1>3. tv[2] # Plain => tv[2] \in DOMAIN State.queues
  BY <1>1, Facts DEF Known, IsCommon
<1>4. Added(State, s, e, gettime + tv[1])
  BY <1>2, <1>3, Facts, AddAtAdds
<1> HIDE DEF s
<1>5. /\ Moves(In(State) \cup {e}, (State.active \cap Event) \ {e},
               [State.timeout EXCEPT ![e] = gettime + tv[1]])
      /\ active' \subseteq State.active
      /\ DOMAIN queues' = DOMAIN State.queues
      /\ \A i \in DOMAIN State.queues : queues'[i].duration = State.queues[i].duration
  BY <1>1, <1>4, Facts, AddedMoves
<1>6. KeepsQueues
  BY <1>5, Facts DEF KeepsQueues
<1>7. sleep # Awake /\ ~notified' => ~notified /\ ~s.notify
  BY <1>1 DEF Notify
<1>8. ~s.notify => \A x \in heap' : \E f \in heap : timeout[f] <= timeout'[x]
  BY <1>1, <1>4, Facts DEF Added, Become
<1> QED
  BY <1>5, <1>6, <1>7, <1>8, Facts

\* event_del takes the event out of all containers.
LEMMA DeleteMoves ==
  ASSUME CommonAssumption, IInv, NEW e \in Event, event_del(e)
  PROVE  /\ Moves(Pending \ {e}, (active \cap Event) \ {e}, timeout)
         /\ KeepsQueues /\ active' \subseteq active /\ heap' \subseteq heap /\ timeout' = timeout
<1> DEFINE r == event_queue_remove_timeout(State, e)
           s == [r EXCEPT !.active = @ \ {e}]
<1>1. Become(s)
  BY DEF event_del
<1>2. /\ Good(r) /\ SameQueues(State, r)
      /\ r.heap = heap \ {e} /\ r.timeout = timeout
      /\ r.active = active /\ In(r) = Pending \ {e}
      /\ \A i \in DOMAIN State.queues : i # e /\ Covered(State, i) => Covered(r, i)
  BY Facts, Removed
<1> HIDE DEF r
<1>3. r \in Values
  BY <1>2 DEF Good
<1>4. /\ s \in Values /\ s.queues = r.queues /\ s.heap = r.heap /\ s.timeout = r.timeout
      /\ s.active = r.active \ {e} /\ s.notify = r.notify
  BY <1>3 DEF Values
<1> HIDE DEF s
<1>5. In(s) = In(r) /\ \A i \in DOMAIN s.queues : Events(s, i) = Events(r, i)
  BY <1>4 DEF In, Events
<1>6. Good(s)
  BY <1>2, <1>4, <1>5 DEF Good
<1>7. DOMAIN r.queues = DOMAIN queues /\ \A i \in DOMAIN queues : i # e
      /\ r.queues[i].duration = queues[i].duration
  BY <1>2, Facts, GoodIndex DEF SameQueues
<1>8. \A i \in DOMAIN s.queues : Covered(s, i)
  BY <1>2, <1>4, <1>7, Facts DEF Covered
<1>9. /\ Core' /\ Pending' = In(s) /\ DOMAIN queues' = DOMAIN s.queues
      /\ \A i \in DOMAIN s.queues : queues'[i] = s.queues[i]
  BY <1>1, <1>6, <1>8, BecomesCore
<1>10. active' = active \ {e} /\ heap' = heap \ {e} /\ timeout' = timeout
  BY <1>1, <1>2, <1>4 DEF Become
<1>11. KeepsQueues
  BY <1>4, <1>7, <1>9 DEF KeepsQueues
<1> QED
  BY <1>2, <1>4, <1>5, <1>9, <1>10, <1>11 DEF Moves

\* A callback that runs is no longer active; a persistent event is scheduled again first.
LEMMA RunMoves ==
  ASSUME CommonAssumption, IInv, NEW e \in Event, RunEvent(e)
  PROVE  /\ KeepsQueues /\ active' \subseteq active
         /\ e \notin Persist => Moves(Pending, (active \cap Event) \ {e}, timeout)
         /\ e \in Persist =>
              /\ Moves(Pending \cup {e}, (active \cap Event) \ {e},
                       [timeout EXCEPT ![e] = RunAt(e)])
              /\ RunAt(e) \in Nat /\ RunAt(e) >= gettime
<1> DEFINE st == [State EXCEPT !.active = @ \ {e}]
<1>1. e \in active
  BY DEF RunEvent
<1>2. /\ st \in Values /\ st.queues = queues /\ st.heap = heap /\ st.timeout = timeout
      /\ st.active = active \ {e} /\ st.notify = FALSE
  BY Facts DEF Values
<1>3. Become(IF e \in Persist THEN AddAt(st, e, interval[e], RunAt(e)) ELSE st)
  BY DEF RunEvent
<1> HIDE DEF st
<1>4. In(st) = Pending /\ \A i \in DOMAIN queues : Events(st, i) = Events(State, i)
  BY <1>2, Facts DEF In, Events
<1>5. Good(st)
  BY <1>2, <1>4, Facts DEF Good
<1>6. \A i \in DOMAIN st.queues : Covered(st, i)
  BY <1>2, Facts, GoodIndex DEF Covered
<1>7. CASE e \notin Persist
  <2>1. Become(st)
    BY <1>3, <1>7
  <2>2. /\ Core' /\ Pending' = In(st) /\ DOMAIN queues' = DOMAIN st.queues
        /\ \A i \in DOMAIN st.queues : queues'[i] = st.queues[i]
    BY <1>5, <1>6, <2>1, BecomesCore
  <2>3. active' = active \ {e} /\ timeout' = timeout
    BY <1>2, <2>1 DEF Become
  <2> QED
    BY <1>2, <1>4, <1>7, <2>2, <2>3 DEF Moves, KeepsQueues
<1>8. CASE e \in Persist
  <2> DEFINE s == AddAt(st, e, interval[e], RunAt(e))
  <2>1. interval[e] \in Timeval /\ Known(interval[e])
    BY <1>1, <1>8 DEF IInv, IntervalsOK
  <2>2. timeout[e] \in Nat
    BY <1>1, Facts DEF Good
  <2>3. interval[e][1] \in Nat
    BY <2>1 DEF Timeval, CommonAssumption
  <2>4. RunAt(e) \in Nat /\ RunAt(e) >= gettime
    BY <2>2, <2>3, Facts DEF RunAt
  <2>5. interval[e][2] # Plain => interval[e][2] \in DOMAIN st.queues
    BY <1>2, <2>1 DEF Known, IsCommon
  <2>6. Added(st, s, e, RunAt(e))
    BY <1>5, <2>1, <2>4, <2>5, Facts, AddAtAdds
  <2>7. Become(s)
    BY <1>3, <1>8
  <2> HIDE DEF s
  <2>8. /\ Moves(In(st) \cup {e}, (st.active \cap Event) \ {e}, [st.timeout EXCEPT ![e] = RunAt(e)])
        /\ active' \subseteq st.active
        /\ DOMAIN queues' = DOMAIN st.queues
        /\ \A i \in DOMAIN st.queues : queues'[i].duration = st.queues[i].duration
    BY <1>5, <1>6, <2>6, <2>7, AddedMoves
  <2>9. (st.active \cap Event) \ {e} = (active \cap Event) \ {e} /\ active' \subseteq active
    BY <1>2, <2>8
  <2> QED
    BY <1>2, <1>4, <1>8, <2>4, <2>8, <2>9 DEF KeepsQueues
<1> QED
  BY <1>7, <1>8

\* When the backend has returned, timeout_process activates what is at its time in the heap, and nothing else.
LEMMA ProcessMoves ==
  ASSUME CommonAssumption, IInv, Wake
  PROVE  /\ Moves(Pending \ Expired,
                  (active \cap Event) \cup (Expired \cap Event), timeout)
         /\ KeepsQueues /\ Expired \cap Event \subseteq Pending
<1> DEFINE X == Expired
           s == [State EXCEPT !.heap = @ \ X, !.active = @ \cup X]
<1>1. X \subseteq heap
  BY DEF Expired
<1>2. heap' = heap \ X /\ active' = active \cup X /\ queues' = queues /\ timeout' = timeout
  BY DEF Wake, Expired
<1> HIDE DEF X
<1>3. heap \subseteq Event \cup Index
  BY Facts, Fields
<1>4. /\ s \in Values /\ s.queues = queues /\ s.heap = heap \ X /\ s.timeout = timeout
      /\ s.active = active \cup X /\ s.notify = FALSE
  BY <1>1, <1>3, Facts DEF Values
<1>5. Become(s)
  BY <1>2, <1>4 DEF Become
<1> HIDE DEF s
<1>6. \A i \in DOMAIN queues : Events(s, i) = Events(State, i) /\ Events(State, i) \cap X = {}
  BY <1>1, <1>4, Facts DEF Events, Good
<1>7. In(s) = Pending \ X
  BY <1>4, <1>6, Facts DEF In
<1>8. Good(s)
  <2>1. Len(s.queues) <= MAX_COMMON_TIMEOUTS
    BY <1>4, Facts DEF Good
  <2>2. s.heap \cup s.active \subseteq Event \cup DOMAIN s.queues
    BY <1>1, <1>4, Facts DEF Good
  <2>3. \A x \in s.heap \cup s.active \cup In(s) : s.timeout[x] \in Nat
    BY <1>1, <1>4, <1>7, Facts DEF Good
  <2>4. \A i \in DOMAIN s.queues :
          Sorted(s.queues[i].events, s.timeout) /\ Events(s, i) \cap s.heap = {}
    BY <1>4, <1>6, Facts DEF Good
  <2>5. \A i, j \in DOMAIN s.queues : i # j => Events(s, i) \cap Events(s, j) = {}
    BY <1>4, <1>6, Facts DEF Good
  <2> QED
    BY <1>4, <2>1, <2>2, <2>3, <2>4, <2>5 DEF Good
<1>9. \A i \in DOMAIN s.queues : Covered(s, i)
  BY <1>4, Facts DEF Covered
<1>10. Core' /\ Pending' = In(s)
  BY <1>5, <1>8, <1>9, BecomesCore
<1>11. X \cap Event \subseteq Pending
  BY <1>1, Facts DEF In
<1> QED
  BY <1>2, <1>7, <1>10, <1>11 DEF X, Moves, KeepsQueues

\* What is left of a sequence.
LEMMA RestIs ==
  ASSUME NEW S, NEW q \in Seq(S), NEW n \in 0..Len(q)
  PROVE  /\ SubSeq(q, n + 1, Len(q)) \in Seq(S) /\ Len(SubSeq(q, n + 1, Len(q))) = Len(q) - n
         /\ \A k \in 1..Len(q) - n : SubSeq(q, n + 1, Len(q))[k] = q[k + n]
<1>1. Len(q) \in Nat /\ n \in Nat
  OBVIOUS
<1> QED
  BY <1>1

\* The events that common_timeout_callback takes from the front of a queue.
LEMMA FrontIs ==
  ASSUME CommonAssumption, IInv, NEW q \in Seq(Event), \A x \in ToSet(q) : timeout[x] \in Nat,
         NEW n, n = CHOOSE k \in 0..Len(q) : /\ \A j \in 1..k : timeout[q[j]] <= gettime
                                             /\ k < Len(q) => timeout[q[k + 1]] > gettime
  PROVE  /\ n \in 0..Len(q)
         /\ \A j \in 1..n : timeout[q[j]] <= gettime
         /\ n < Len(q) => timeout[q[n + 1]] > gettime
<1> DEFINE S == { k \in 0..Len(q) : k < Len(q) => timeout[q[k + 1]] > gettime }
<1>1. Len(q) \in Nat /\ \A j \in 1..Len(q) : timeout[q[j]] \in Nat
  BY Elements
<1>2. gettime \in Nat
  BY Facts
<1>3. Len(q) \in S /\ S \subseteq Nat
  BY <1>1
<1>4. PICK k \in S : \A j \in S : k <= j
  BY <1>3, Least
<1>5. ASSUME NEW j \in 1..k PROVE timeout[q[j]] <= gettime
  <2>1. j - 1 \in 0..Len(q) /\ j - 1 < Len(q) /\ j - 1 < k /\ (j - 1) + 1 = j /\ j \in 1..Len(q)
    BY <1>1, <1>4
  <2>2. j - 1 \notin S
    BY <1>3, <1>4, <2>1
  <2>3. ~(timeout[q[j]] > gettime)
    BY <2>1, <2>2
  <2> QED
    BY <1>1, <1>2, <2>1, <2>3
<1>6. /\ k \in 0..Len(q) /\ \A j \in 1..k : timeout[q[j]] <= gettime
      /\ k < Len(q) => timeout[q[k + 1]] > gettime
  BY <1>4, <1>5
<1> QED
  BY <1>6

\* The callback of a queue activates a part of the queue that is at its time.
LEMMA CallbackMoves ==
  ASSUME CommonAssumption, IInv, NEW i \in Index, common_timeout_callback(i)
  PROVE  \E S \in SUBSET (Pending \cap Event) :
           /\ Moves(Pending \ S, (active \cap Event) \cup S, timeout)
           /\ \A x \in S : timeout[x] <= gettime
           /\ KeepsQueues
<1> DEFINE q == queues[i].events
           n == CHOOSE k \in 0..Len(q) : /\ \A j \in 1..k : timeout[q[j]] <= gettime
                                         /\ k < Len(q) => timeout[q[k + 1]] > gettime
           rest == SubSeq(q, n + 1, Len(q))
           S == { q[j] : j \in 1..n }
           st == [State EXCEPT !.queues[i].events = rest, !.active = (@ \ {i}) \cup S]
<1>1. i \in active /\ i \in DOMAIN queues /\ i \notin Event
  BY Facts DEF common_timeout_callback, Good, CommonAssumption, Index
<1>2. Become(IF n = Len(q) THEN st ELSE common_timeout_schedule(st, i))
  BY DEF common_timeout_callback
<1>3. /\ q \in Seq(Event) /\ ToSet(q) = Events(State, i) /\ Sorted(q, timeout)
      /\ ToSet(q) \subseteq Pending /\ \A x \in ToSet(q) : timeout[x] \in Nat
  BY <1>1, Facts, Fields DEF Good, Events, In
<1> HIDE DEF q
<1>4. /\ n \in 0..Len(q) /\ \A j \in 1..n : timeout[q[j]] <= gettime
      /\ n < Len(q) => timeout[q[n + 1]] > gettime
  BY <1>3, FrontIs
<1> HIDE DEF n
<1>5. Len(q) \in Nat /\ DOMAIN q = 1..Len(q)
  BY <1>3
<1>6. /\ rest \in Seq(Event) /\ Len(rest) = Len(q) - n /\ DOMAIN rest = 1..Len(q) - n
      /\ \A k \in 1..Len(q) - n : rest[k] = q[k + n]
  <2>1. /\ rest \in Seq(Event) /\ Len(rest) = Len(q) - n
        /\ \A k \in 1..Len(q) - n : rest[k] = q[k + n]
    BY <1>3, <1>4, RestIs
  <2> QED
    BY <2>1
<1> HIDE DEF rest
<1>7. Sorted(rest, timeout)
  <2> SUFFICES ASSUME NEW m \in DOMAIN rest, NEW k \in DOMAIN rest, m < k
               PROVE  rest[m] # rest[k] /\ timeout[rest[m]] <= timeout[rest[k]]
    BY DEF Sorted
  <2>1. m + n \in DOMAIN q /\ k + n \in DOMAIN q /\ m + n < k + n
    BY <1>4, <1>5, <1>6
  <2> QED
    BY <1>3, <1>6, <2>1 DEF Sorted
<1>8. S \subseteq ToSet(q) /\ S \subseteq Event /\ \A x \in S : timeout[x] <= gettime
  <2>1. \A j \in 1..n : j \in 1..Len(q)
    BY <1>4, <1>5
  <2>2. \A j \in 1..n : q[j] \in ToSet(q) /\ q[j] \in Event
    BY <1>3, <2>1, Elements
  <2> QED
    BY <1>4, <2>2
<1>9. ToSet(rest) = ToSet(q) \ S
  <2>1. ASSUME NEW k \in DOMAIN rest PROVE rest[k] \in ToSet(q) \ S
    <3>1. k + n \in DOMAIN q /\ rest[k] = q[k + n]
      BY <1>4, <1>5, <1>6
    <3>2. q[k + n] \in ToSet(q)
      BY <1>3, <1>5, <3>1, Elements
    <3>3. ASSUME NEW j \in 1..n PROVE q[j] # q[k + n]
      <4>1. j \in DOMAIN q /\ j < k + n
        BY <1>4, <1>5, <1>6
      <4> QED
        BY <1>3, <3>1, <4>1 DEF Sorted
    <3> QED
      BY <3>1, <3>2, <3>3
  <2>2. ASSUME NEW k \in DOMAIN q, q[k] \notin S PROVE q[k] \in ToSet(rest)
    <3>1. ~(k <= n)
      BY <1>4, <1>5, <2>2
    <3>2. k - n \in DOMAIN rest /\ rest[k - n] = q[k]
      <4>1. k - n \in 1..Len(q) - n /\ (k - n) + n = k
        BY <1>4, <1>5, <3>1
      <4> QED
        BY <1>6, <4>1
    <3> QED
      BY <1>6, <3>2, Elements
  <2>3. ToSet(rest) \subseteq ToSet(q) \ S
    BY <1>6, <2>1, Elements
  <2>4. \A x \in ToSet(q) : x \notin S => x \in ToSet(rest)
    BY <1>3, <1>5, <2>2, Elements
  <2> QED
    BY <2>3, <2>4
<1> HIDE DEF S
<1>10. /\ st \in Values /\ st.heap = heap /\ st.timeout = timeout
       /\ st.active = (active \ {i}) \cup S /\ st.notify = FALSE
       /\ DOMAIN st.queues = DOMAIN queues /\ Len(st.queues) = Len(queues)
       /\ st.queues[i].events = rest /\ st.queues[i].duration = queues[i].duration
       /\ \A j \in DOMAIN queues : j # i => st.queues[j] = queues[j]
  <2> DEFINE record == [queues[i] EXCEPT !.events = rest]
             changed == [queues EXCEPT ![i] = record]
  <2>1. queues \in Seq(Queue) /\ queues[i] \in Queue
    BY <1>1, Facts, Fields DEF Values
  <2>2. record \in Queue /\ record.events = rest /\ record.duration = queues[i].duration
    BY <1>6, <2>1 DEF Queue
  <2>3. st = [State EXCEPT !.queues = changed, !.active = (active \ {i}) \cup S]
    BY Facts DEF Values
  <2> HIDE DEF record
  <2>4. /\ changed \in Seq(Queue) /\ Len(changed) = Len(queues) /\ changed[i] = record
        /\ DOMAIN changed = DOMAIN queues
        /\ \A j \in DOMAIN queues : j # i => changed[j] = queues[j]
    BY <1>1, <2>1, <2>2, ExceptSeq
  <2>5. (active \ {i}) \cup S \subseteq Event \cup Index
    BY <1>8, Facts, Fields
  <2> HIDE DEF changed
  <2> QED
    BY <2>2, <2>3, <2>4, <2>5, Facts DEF Values
<1> HIDE DEF st
<1>11. /\ Events(st, i) = Events(State, i) \ S
       /\ \A j \in DOMAIN queues : j # i => Events(st, j) = Events(State, j)
  BY <1>3, <1>9, <1>10, Facts DEF Events
<1>12. S \cap heap = {} /\ \A j \in DOMAIN queues : j # i => Events(State, j) \cap S = {}
  BY <1>1, <1>3, <1>8, Facts DEF Good
<1>13. In(st) = Pending \ S
  BY <1>1, <1>10, <1>11, <1>12, Facts DEF In
<1>14. Good(st)
  <2>1. Len(st.queues) <= MAX_COMMON_TIMEOUTS
    BY <1>10, Facts DEF Good
  <2>2. st.heap \cup st.active \subseteq Event \cup DOMAIN st.queues
    BY <1>8, <1>10, Facts DEF Good
  <2>3. \A x \in st.heap \cup st.active \cup In(st) : st.timeout[x] \in Nat
    BY <1>3, <1>8, <1>10, <1>13, Facts DEF Good
  <2>4. ASSUME NEW j \in DOMAIN st.queues
        PROVE  Sorted(st.queues[j].events, st.timeout) /\ Events(st, j) \cap st.heap = {}
    <3>1. CASE j = i
      BY <1>1, <1>7, <1>10, <1>11, <3>1, Facts DEF Good
    <3>2. CASE j # i
      BY <1>10, <1>11, <3>2, Facts DEF Good
    <3> QED
      BY <3>1, <3>2
  <2>5. ASSUME NEW j \in DOMAIN st.queues, NEW k \in DOMAIN st.queues, j # k
        PROVE  Events(st, j) \cap Events(st, k) = {}
    <3>1. Events(State, j) \cap Events(State, k) = {}
      BY <1>10, <2>5, Facts DEF Good
    <3>2. Events(st, j) \subseteq Events(State, j) /\ Events(st, k) \subseteq Events(State, k)
      BY <1>10, <1>11
    <3> QED
      BY <3>1, <3>2
  <2> QED
    BY <1>10, <2>1, <2>2, <2>3, <2>4, <2>5 DEF Good
<1>15. \A j \in DOMAIN queues : j # i => Covered(st, j)
  BY <1>10, Facts DEF Covered
<1>16. ASSUME NEW s, Good(s), Become(s), DOMAIN s.queues = DOMAIN queues,
              \A j \in DOMAIN queues : s.queues[j].duration = queues[j].duration,
              \A j \in DOMAIN queues : Covered(s, j),
              In(s) = In(st), s.active \cap Event = st.active \cap Event,
              \A x \in Event : s.timeout[x] = timeout[x]
       PROVE  /\ Moves(Pending \ S, (active \cap Event) \cup S, timeout)
              /\ KeepsQueues
  <2>1. /\ Core' /\ Pending' = In(s) /\ DOMAIN queues' = DOMAIN s.queues
        /\ \A j \in DOMAIN s.queues : queues'[j] = s.queues[j]
    BY <1>16, BecomesCore
  <2>2. active' = s.active /\ timeout' = s.timeout
    BY <1>16 DEF Become
  <2>3. st.active \cap Event = (active \cap Event) \cup S
    BY <1>1, <1>8, <1>10
  <2> QED
    BY <1>13, <1>16, <2>1, <2>2, <2>3 DEF Moves, KeepsQueues
<1>17. CASE n = Len(q)
  <2>1. Become(st)
    BY <1>2, <1>17
  <2>2. rest = <<>>
    BY <1>5, <1>6, <1>17
  <2>3. \A j \in DOMAIN queues : Covered(st, j)
    BY <1>10, <1>15, <2>2 DEF Covered
  <2>4. \A j \in DOMAIN queues : st.queues[j].duration = queues[j].duration
    BY <1>10
  <2>5. Moves(Pending \ S, (active \cap Event) \cup S, timeout) /\ KeepsQueues
    BY <1>10, <1>14, <1>16, <2>1, <2>3, <2>4
  <2> QED
    BY <1>3, <1>8, <2>5
<1>18. CASE n # Len(q)
  <2> DEFINE time == timeout[Head(rest)]
             s == AddPlain(st, i, time)
  <2>1. Become(s)
    BY <1>2, <1>10, <1>18 DEF common_timeout_schedule
  <2>2. rest # <<>> /\ Head(rest) \in ToSet(rest)
    <3>1. rest \in Seq(Event) /\ Len(rest) # 0
      <4>1. n \in Nat /\ Len(q) \in Nat /\ n # Len(q)
        <5>1. n \in 0..Len(q) /\ Len(q) \in Nat
          BY <1>4, <1>5, Zenon
        <5> QED
          BY <1>18, <5>1
      <4>2. rest \in Seq(Event) /\ Len(rest) = Len(q) - n
        BY <1>6
      <4> QED
        BY <4>1, <4>2
    <3>2. rest # <<>>
      BY <3>1
    <3> QED
      BY <3>1, <3>2, Elements
  <2>3. time \in Nat
    BY <1>3, <1>9, <2>2
  <2> HIDE DEF time
  <2>4. i \in Event \cup DOMAIN st.queues
    BY <1>1, <1>10
  <2>5. /\ Good(s) /\ SameQueues(st, s)
        /\ s.heap = st.heap \cup {i} /\ s.active = st.active \ {i}
        /\ s.timeout = [st.timeout EXCEPT ![i] = time]
        /\ In(s) = In(st) \cup ({i} \cap Event)
        /\ s.queues = st.queues
        /\ \A j \in DOMAIN st.queues : j # i /\ Covered(st, j) => Covered(s, j)
    BY <1>1, <1>14, <2>3, <2>4, Facts, AddedPlain
  <2> HIDE DEF s
  <2>6. s.timeout[i] = time /\ \A x \in Event : s.timeout[x] = timeout[x]
    BY <1>1, <1>10, <2>5, Facts, Fields
  <2>7. Head(rest) \in Event
    BY <1>6, <2>2, Elements
  <2>8. Covered(s, i)
    BY <1>10, <2>3, <2>5, <2>6, <2>7 DEF Covered, time
  <2>9. \A j \in DOMAIN queues : Covered(s, j) /\ s.queues[j].duration = queues[j].duration
    BY <1>10, <1>15, <2>5, <2>8
  <2>10. In(s) = In(st) /\ s.active \cap Event = st.active \cap Event
    BY <1>1, <2>5
  <2>11. Moves(Pending \ S, (active \cap Event) \cup S, timeout) /\ KeepsQueues
    BY <1>10, <1>16, <2>1, <2>5, <2>6, <2>9, <2>10
  <2> QED
    BY <1>3, <1>8, <2>11
<1> QED
  BY <1>17, <1>18

\* A new queue changes nothing for the events.
LEMMA QueueAdded ==
  ASSUME CommonAssumption, IInv, NEW d \in Duration, event_base_init_common_timeout(d)
  PROVE  /\ Moves(Pending, active \cap Event, timeout)
         /\ \A tv : Known(tv) => Known(tv)'
<1> DEFINE new == [duration |-> d, events |-> <<>>]
           s == [State EXCEPT !.queues = Append(@, new)]
<1>1. queues \in Seq(Queue) /\ Len(queues) \in Nat /\ DOMAIN queues = 1..Len(queues)
  BY Facts, Fields DEF Values
<1>2. new \in Queue
  BY DEF Queue
<1>3. /\ queues' = Append(queues, new) /\ Len(queues) < MAX_COMMON_TIMEOUTS
      /\ UNCHANGED <<heap, timeout, active>>
  BY DEF event_base_init_common_timeout
<1>4. /\ queues' \in Seq(Queue) /\ Len(queues') = Len(queues) + 1
      /\ DOMAIN queues' = DOMAIN queues \cup {Len(queues) + 1}
      /\ \A i \in DOMAIN queues : queues'[i] = queues[i]
      /\ queues'[Len(queues) + 1].events = <<>>
  <2> HIDE DEF new
  <2>1. /\ queues' \in Seq(Queue) /\ Len(queues') = Len(queues) + 1
        /\ \A i \in 1..Len(queues) : queues'[i] = queues[i]
        /\ queues'[Len(queues) + 1] = new
    BY <1>1, <1>2, <1>3, AppendProperties
  <2>2. DOMAIN queues' = 1..Len(queues) + 1
    BY <2>1
  <2>3. new.events = <<>>
    BY DEF new
  <2>4. 1..Len(queues) + 1 = 1..Len(queues) \cup {Len(queues) + 1}
    BY <1>1
  <2> QED
    BY <1>1, <2>1, <2>2, <2>3, <2>4
<1>5. /\ s \in Values /\ s.queues = queues' /\ s.heap = heap /\ s.timeout = timeout
      /\ s.active = active /\ s.notify = FALSE
  BY <1>3, <1>4, Facts DEF Values
<1> HIDE DEF s
<1>6. /\ \A i \in DOMAIN queues : Events(s, i) = Events(State, i)
      /\ Events(s, Len(queues) + 1) = {}
  <2>1. ToSet(<<>>) = {}
    BY DEF ToSet
  <2> QED
    BY <1>4, <1>5, <2>1, Facts DEF Events
<1>7. In(s) = Pending
  BY <1>4, <1>5, <1>6, Facts DEF In
<1>8. Good(s)
  <2>1. Len(s.queues) <= MAX_COMMON_TIMEOUTS
    BY <1>1, <1>3, <1>4, <1>5 DEF CommonAssumption
  <2>2. s.heap \cup s.active \subseteq Event \cup DOMAIN s.queues
    BY <1>4, <1>5, Facts DEF Good
  <2>3. \A x \in s.heap \cup s.active \cup In(s) : s.timeout[x] \in Nat
    BY <1>5, <1>7, Facts DEF Good
  <2>4. ASSUME NEW i \in DOMAIN s.queues
        PROVE  Sorted(s.queues[i].events, s.timeout) /\ Events(s, i) \cap s.heap = {}
    <3>1. CASE i \in DOMAIN queues
      BY <1>4, <1>5, <1>6, <3>1, Facts DEF Good
    <3>2. CASE i = Len(queues) + 1
      BY <1>4, <1>5, <1>6, <3>2 DEF Sorted
    <3> QED
      BY <1>4, <1>5, <3>1, <3>2
  <2>5. ASSUME NEW i \in DOMAIN s.queues, NEW j \in DOMAIN s.queues, i # j
        PROVE  Events(s, i) \cap Events(s, j) = {}
    <3>1. CASE i \in DOMAIN queues /\ j \in DOMAIN queues
      BY <1>6, <2>5, <3>1, Facts DEF Good
    <3>2. CASE i = Len(queues) + 1 \/ j = Len(queues) + 1
      BY <1>6, <3>2
    <3> QED
      BY <1>4, <1>5, <3>1, <3>2
  <2> QED
    BY <1>5, <2>1, <2>2, <2>3, <2>4, <2>5 DEF Good
<1>9. \A i \in DOMAIN s.queues : Covered(s, i)
  BY <1>4, <1>5, Facts DEF Covered
<1>10. Become(s)
  BY <1>3, <1>5 DEF Become
<1>11. Core' /\ Pending' = In(s)
  BY <1>8, <1>9, <1>10, BecomesCore
<1>12. \A tv : Known(tv) => Known(tv)'
  BY <1>4 DEF Known
<1> QED
  BY <1>3, <1>7, <1>11, <1>12 DEF Moves

\* The steps that leave the containers alone.
LEMMA ContainersStay ==
  ASSUME CommonAssumption, IInv, UNCHANGED <<queues, heap, timeout, active>>
  PROVE  Moves(Pending, active \cap Event, timeout) /\ KeepsQueues
<1>1. Become(State)
  BY Facts DEF Become
<1>2. /\ Core' /\ Pending' = In(State)
  BY <1>1, Facts, BecomesCore
<1> QED
  BY <1>2, Facts DEF Moves, KeepsQueues

\* The queues, once known, stay known.
LEMMA StaysKnown == KeepsQueues => \A tv : Known(tv) => Known(tv)'
  BY DEF KeepsQueues, Known

\* Known durations stay known.
LEMMA IntervalsStay ==
  ASSUME CommonAssumption, IInv, \A tv : Known(tv) => Known(tv)', interval' = interval,
         Event \cap (active' \cup Pending') \subseteq active \cup Pending
  PROVE  IntervalsOK'
  BY DEF IInv, IntervalsOK, CommonAssumption

\* While the loop sleeps, and nothing earlier comes.
LEMMA SleepStays ==
  ASSUME CommonAssumption, IInv, Core', UNCHANGED wait, notified \in BOOLEAN,
         now' \in Nat, now' >= now,
         sleep # Awake => active' \subseteq active,
         sleep # Awake /\ ~notified' =>
           ~notified /\ \A x \in heap' : \E f \in heap : timeout[f] <= timeout'[x]
  PROVE  SleepOK'
<1> USE DEF wait
<1> SUFFICES ASSUME sleep # Awake, ~notified'
             PROVE  \/ sleep # Forever /\ sleep <= now'
                    \/ active' = {}
                       /\ \A x \in heap' : sleep # Forever /\ sleep <= timeout'[x] + lag
  BY DEF SleepOK
<1>1. ~notified /\ sleep \in Nat \cup {Forever} /\ lag \in Nat /\ now \in Nat
  BY Facts DEF IInv, Rest
<1>2. CASE sleep # Forever /\ sleep <= now
  BY <1>1, <1>2
<1>3. CASE active = {} /\ \A x \in heap : sleep # Forever /\ sleep <= timeout[x] + lag
  <2>1. active' = {}
    BY <1>3
  <2>2. ASSUME NEW x \in heap' PROVE sleep # Forever /\ sleep <= timeout'[x] + lag
    <3>1. PICK f \in heap : timeout[f] <= timeout'[x]
      OBVIOUS
    <3>2. sleep # Forever /\ sleep <= timeout[f] + lag /\ sleep \in Nat
      BY <1>1, <1>3, <3>1
    <3>3. timeout[f] \in Nat
      BY <3>1, Facts DEF Good
    <3>4. timeout'[x] \in Nat
      BY DEF Core, Good, State
    <3> QED
      BY <1>1, <3>1, <3>2, <3>3, <3>4
  <2> QED
    BY <2>1, <2>2
<1> QED
  BY <1>1, <1>2, <1>3 DEF IInv, SleepOK

\* The invariant holds initially, and every step keeps it.
LEMMA InitInv == CommonAssumption /\ Init => IInv
<1> SUFFICES ASSUME CommonAssumption, Init PROVE IInv
  OBVIOUS
<1>1. /\ State.queues = <<>> /\ State.heap = {} /\ State.active = {} /\ State.notify = FALSE
      /\ State.timeout = [e \in Event \cup Index |-> Never]
  BY DEF Init, State
<1>2. State \in Values
  BY <1>1 DEF State, Values
<1>3. In(State) = {} /\ Len(State.queues) = 0 /\ DOMAIN State.queues = {}
  BY <1>1 DEF In
<1>4. Good(State)
  BY <1>1, <1>2, <1>3 DEF Good, CommonAssumption
<1>5. Core
  BY <1>3, <1>4 DEF Core, Init
<1>6. SleepOK /\ Rest
  <2>1. SleepOK
    BY DEF Init, SleepOK
  <2>2. interval \in [Event -> Timeval \cup {<<0, Plain>>}]
    BY DEF Init
  <2>3. now \in 0..MaxTime /\ 0 \in 0..now
    BY DEF Init, CommonAssumption
  <2> QED
    BY <2>1, <2>2, <2>3 DEF Init, Rest
<1>7. IntervalsOK
  BY DEF Init, IntervalsOK, Pending, QueueOf
<1> QED
  BY <1>5, <1>6, <1>7 DEF IInv

LEMMA NextInv == CommonAssumption /\ IInv /\ [Next]_vars => IInv'
<1> SUFFICES ASSUME CommonAssumption, IInv, [Next]_vars PROVE IInv'
  OBVIOUS
<1>1. CASE \E d \in Duration : event_base_init_common_timeout(d)
  <2>1. PICK d \in Duration : event_base_init_common_timeout(d)
    BY <1>1
  <2>2. Moves(Pending, active \cap Event, timeout) /\ \A tv : Known(tv) => Known(tv)'
    BY <2>1, QueueAdded
  <2>3. UNCHANGED <<clocks, heap, timeout, interval, active, wait, notified>>
    BY <2>1 DEF event_base_init_common_timeout
  <2>4. IntervalsOK'
    BY <2>2, <2>3, IntervalsStay DEF Moves
  <2> QED
    BY <2>2, <2>3, <2>4 DEF IInv, Moves, SleepOK, Rest, clocks, wait
<1>2. ASSUME NEW e \in Event, NEW tv \in Timeval, event_add(e, tv) PROVE IInv'
  <2>1. /\ Moves(Pending \cup {e}, (active \cap Event) \ {e}, [timeout EXCEPT ![e] = gettime + tv[1]])
        /\ KeepsQueues /\ active' \subseteq active
        /\ sleep # Awake /\ ~notified' =>
             ~notified /\ \A x \in heap' : \E f \in heap : timeout[f] <= timeout'[x]
    BY <1>2, AddMoves
  <2>2. /\ Known(tv) /\ UNCHANGED <<clocks, wait>>
        /\ interval' = IF e \in Persist THEN [interval EXCEPT ![e] = tv] ELSE interval
        /\ notified' \in BOOLEAN
    BY <1>2 DEF event_add, Notify
  <2>3. SleepOK'
    BY <2>1, <2>2, Facts, SleepStays DEF Moves, IInv, Rest, clocks, wait
  <2>4. Rest'
    BY <2>2 DEF IInv, Rest, clocks, wait
  <2>5. ASSUME NEW x \in Persist, x \in active' \cup Pending'
        PROVE  (interval[x] \in Timeval /\ Known(interval[x]))'
    <3>1. CASE x = e
      <4>1. interval'[x] = tv
        BY <2>2, <3>1 DEF IInv, Rest
      <4> QED
        BY <2>1, <2>2, <4>1 DEF Known, KeepsQueues
    <3>2. CASE x # e
      <4>1. x \in active \cup Pending /\ interval'[x] = interval[x]
        BY <2>1, <2>2, <2>5, <3>2 DEF Moves
      <4>2. interval[x] \in Timeval /\ Known(interval[x])
        BY <4>1 DEF IInv, IntervalsOK
      <4> QED
        BY <2>1, <4>1, <4>2 DEF Known, KeepsQueues
    <3> QED
      BY <3>1, <3>2
  <2>6. IntervalsOK'
    BY <2>5 DEF IntervalsOK
  <2> QED
    BY <2>1, <2>3, <2>4, <2>6 DEF IInv, Moves
<1>3. ASSUME NEW e \in Event, event_del(e) PROVE IInv'
  <2>1. /\ Moves(Pending \ {e}, (active \cap Event) \ {e}, timeout)
        /\ KeepsQueues /\ active' \subseteq active /\ heap' \subseteq heap /\ timeout' = timeout
    BY <1>3, DeleteMoves
  <2>2. UNCHANGED <<clocks, interval, wait, notified>>
    BY <1>3 DEF event_del
  <2>3. SleepOK'
    BY <2>1, <2>2 DEF IInv, SleepOK, clocks, wait
  <2>4. IntervalsOK'
    BY <2>1, <2>2, IntervalsStay, StaysKnown DEF Moves
  <2> QED
    BY <2>1, <2>2, <2>3, <2>4 DEF IInv, Moves, Rest, clocks, wait
<1>4. ASSUME NEW e \in Event, RunEvent(e) PROVE IInv'
  <2>1. /\ KeepsQueues /\ active' \subseteq active /\ Core'
        /\ Pending' \subseteq Pending \cup {e} /\ e \in active
    BY <1>4, RunMoves DEF Moves, RunEvent
  <2>2. UNCHANGED <<clocks, interval, wait, notified>> /\ sleep = Awake
    BY <1>4 DEF RunEvent
  <2>3. IntervalsOK'
    BY <2>1, <2>2, IntervalsStay, StaysKnown
  <2> QED
    BY <2>1, <2>2, <2>3 DEF IInv, SleepOK, Rest, clocks, wait
<1>5. ASSUME NEW i \in Index, common_timeout_callback(i) PROVE IInv'
  <2>1. PICK S \in SUBSET (Pending \cap Event) :
           /\ Moves(Pending \ S, (active \cap Event) \cup S, timeout)
           /\ \A x \in S : timeout[x] <= gettime
           /\ KeepsQueues
    BY <1>5, CallbackMoves
  <2>2. UNCHANGED <<clocks, interval, wait, notified>> /\ sleep = Awake
    BY <1>5 DEF common_timeout_callback
  <2>3. IntervalsOK'
    BY <2>1, <2>2, IntervalsStay, StaysKnown DEF Moves
  <2> QED
    BY <2>1, <2>2, <2>3 DEF IInv, Moves, SleepOK, Rest, clocks, wait
<1>6. CASE Sleep
  <2>1. /\ sleep = Awake
        /\ sleep' = IF active = {} /\ heap = {} THEN Forever ELSE now + timeout_next
        /\ lag' = now - gettime /\ tv_cache' = Never
        /\ UNCHANGED <<now, no_cache, queues, heap, timeout, interval, active, notified>>
    BY <1>6 DEF Sleep
  <2>2. Moves(Pending, active \cap Event, timeout) /\ KeepsQueues
    BY <2>1, ContainersStay
  <2>3. IntervalsOK'
    BY <2>1, <2>2, IntervalsStay, StaysKnown DEF Moves
  <2>4. \A x \in heap : timeout[x] \in Nat
    BY Facts DEF Good
  <2>5. now \in Nat /\ gettime \in Nat /\ gettime <= now /\ (no_cache => gettime = now)
    BY Facts DEF IInv, Rest, gettime
  <2>6. /\ lag' \in 0..now /\ (no_cache => lag' = 0) /\ sleep' \in Nat \cup {Forever}
        /\ SleepOK'
    <3>1. CASE active = {} /\ heap = {}
      BY <2>1, <2>5, <3>1 DEF SleepOK
    <3>2. CASE active # {}
      <4>1. timeout_next = 0
        BY <3>2 DEF timeout_next
      <4>2. sleep' = now /\ now # Forever
        BY <2>1, <2>5, <3>2, <4>1 DEF CommonAssumption
      <4> QED
        BY <2>1, <2>5, <4>2 DEF SleepOK
    <3>3. CASE active = {} /\ heap # {}
      <4> DEFINE top == CHOOSE e \in heap : \A f \in heap : timeout[e] <= timeout[f]
      <4>1. PICK m \in { timeout[x] : x \in heap } : \A k \in { timeout[x] : x \in heap } : m <= k
        BY <2>4, <3>3, Least
      <4>2. \E e \in heap : \A f \in heap : timeout[e] <= timeout[f]
        BY <4>1
      <4>3. top \in heap /\ \A f \in heap : timeout[top] <= timeout[f]
        BY <4>2
      <4>4. timeout_next = IF timeout[top] <= gettime THEN 0 ELSE timeout[top] - gettime
        BY <3>3 DEF timeout_next
      <4> HIDE DEF top
      <4>5. timeout[top] \in Nat /\ sleep' = now + timeout_next
        BY <2>1, <2>4, <3>3, <4>3
      <4>6. sleep' \in Nat /\ sleep' # Forever
        <5>1. sleep' \in Nat
          <6>1. CASE timeout[top] <= gettime
            BY <2>5, <4>4, <4>5, <6>1
          <6>2. CASE ~(timeout[top] <= gettime)
            <7>1. timeout_next = timeout[top] - gettime
              BY <4>4, <6>2
            <7> QED
              BY <2>5, <4>5, <6>2, <7>1
          <6> QED
            BY <6>1, <6>2
        <5> QED
          BY <5>1 DEF CommonAssumption
      <4>7. CASE timeout[top] <= gettime
        BY <2>1, <2>5, <4>4, <4>5, <4>6, <4>7 DEF SleepOK
      <4>8. CASE ~(timeout[top] <= gettime)
        <5>1. sleep' = timeout[top] + lag'
          BY <2>1, <2>5, <4>4, <4>5, <4>8
        <5>2. \A f \in heap : sleep' <= timeout[f] + lag'
          BY <2>1, <2>4, <2>5, <4>3, <4>5, <5>1
        <5> QED
          BY <2>1, <2>5, <3>3, <4>6, <5>2 DEF SleepOK
      <4> QED
        BY <4>7, <4>8
    <3> QED
      BY <3>1, <3>2, <3>3
  <2> QED
    BY <2>1, <2>2, <2>3, <2>6 DEF IInv, Moves, Rest
<1>7. CASE Wake
  <2>1. /\ Moves(Pending \ Expired, (active \cap Event) \cup (Expired \cap Event), timeout)
        /\ KeepsQueues /\ Expired \cap Event \subseteq Pending
    BY <1>7, ProcessMoves
  <2>2. /\ sleep' = Awake /\ lag' = 0 /\ notified' = FALSE
        /\ tv_cache' = IF no_cache THEN Never ELSE now
        /\ UNCHANGED <<now, no_cache, interval>>
    BY <1>7 DEF Wake
  <2>3. IntervalsOK'
    BY <2>1, <2>2, IntervalsStay, StaysKnown DEF Moves
  <2>4. now \in 0..now /\ 0 \in 0..now
    BY Facts
  <2> QED
    BY <2>1, <2>2, <2>3, <2>4 DEF IInv, Moves, SleepOK, Rest
<1>8. CASE event_base_update_cache_time \/ Tick
  <2>1. /\ UNCHANGED <<no_cache, queues, heap, timeout, interval, active, wait, notified>>
        /\ now' = now \/ (now' = now + 1 /\ now < MaxTime)
        /\ tv_cache' \in {now, tv_cache} /\ (no_cache => tv_cache' = tv_cache)
    BY <1>8 DEF event_base_update_cache_time, Tick
  <2>2. Moves(Pending, active \cap Event, timeout) /\ KeepsQueues
    BY <2>1, ContainersStay
  <2>3. IntervalsOK'
    BY <2>1, <2>2, IntervalsStay, StaysKnown DEF Moves
  <2>4. now' \in 0..MaxTime /\ now' >= now
    <3>1. now \in Nat /\ MaxTime \in Nat
      BY Facts
    <3>2. now <= MaxTime
      BY <3>1 DEF IInv, Rest
    <3> QED
      BY <2>1, <3>1, <3>2
  <2>5. SleepOK'
    <3>1. \A x \in heap' : \E f \in heap : timeout[f] <= timeout'[x]
      BY <2>1, Facts DEF Good
    <3> QED
      BY <2>1, <2>2, <2>4, <3>1, SleepStays DEF Moves, IInv, Rest
  <2>6. tv_cache' \in 0..now' \cup {Never} /\ lag \in 0..now'
    BY <2>1, <2>4, Facts DEF IInv, Rest
  <2> QED
    BY <2>1, <2>2, <2>3, <2>4, <2>5, <2>6 DEF IInv, Moves, Rest, wait
<1>9. CASE UNCHANGED vars
  <2>1. UNCHANGED <<clocks, queues, heap, timeout, interval, active, wait, notified>>
    BY <1>9 DEF vars
  <2>2. Moves(Pending, active \cap Event, timeout) /\ KeepsQueues
    BY <2>1, ContainersStay
  <2>3. IntervalsOK'
    BY <2>1, <2>2, IntervalsStay, StaysKnown DEF Moves
  <2> QED
    BY <2>1, <2>2, <2>3 DEF IInv, Moves, SleepOK, Rest, clocks, wait
<1> QED
  BY <1>1, <1>2, <1>3, <1>4, <1>5, <1>6, <1>7, <1>8, <1>9 DEF Next

\* The parts of CommonTimeoutsOK.
LEMMA Implied == CommonAssumption /\ IInv => CommonTimeoutsOK
<1> SUFFICES ASSUME CommonAssumption, IInv PROVE CommonTimeoutsOK
  OBVIOUS
<1>1. \A i \in DOMAIN queues : queues[i] \in Queue /\ queues[i].events \in Seq(Event)
  BY Facts, Fields
<1>2. TypeOK
  BY <1>1, Facts DEF TypeOK, Good, Queue, IInv, Rest
<1>3. QueuesOrdered
  <2>1. ASSUME NEW e \in Event
        PROVE  Cardinality(QueueOf(e)) + (IF e \in heap THEN 1 ELSE 0) <= 1
    <3>1. \A i \in QueueOf(e) : i \in DOMAIN queues /\ e \in Events(State, i)
      BY Facts DEF QueueOf, Events
    <3>2. CASE QueueOf(e) = {}
      BY <3>2, FS_EmptySet
    <3>3. CASE QueueOf(e) # {}
      <4>1. PICK i \in QueueOf(e) : TRUE
        BY <3>3
      <4>2. QueueOf(e) = {i} /\ e \notin heap
        BY <3>1, <4>1, Facts DEF Good
      <4>3. Cardinality({i}) = 1
        BY FS_Singleton
      <4> QED
        BY <4>2, <4>3
    <3> QED
      BY <3>2, <3>3
  <2> QED
    BY <2>1, Facts DEF QueuesOrdered, Good, Sorted
<1>4. HeapCoversQueues
  BY DEF HeapCoversQueues, IInv, Core, Covered, State
<1>5. NoOversleep
  <2> SUFFICES ASSUME sleep # Awake, ~notified, NEW e \in Pending,
                      ~(sleep # Forever /\ sleep <= now)
               PROVE  sleep # Forever /\ sleep <= timeout[e] + lag
    BY DEF NoOversleep, IInv, Rest
  <2>1. CASE e \in heap
    BY <2>1 DEF IInv, SleepOK
  <2>2. CASE e \notin heap
    <3>1. PICK i \in DOMAIN queues : e \in ToSet(queues[i].events)
      BY <2>2 DEF Pending, QueueOf
    <3> DEFINE q == queues[i].events
    <3>2. q \in Seq(Event) /\ Sorted(q, timeout) /\ \A x \in ToSet(q) : timeout[x] \in Nat
      BY <1>1, Facts, Fields DEF Good, Events, In
    <3> HIDE DEF q
    <3>3. PICK k \in 1..Len(q) : q[k] = e
      BY <3>1, <3>2, Elements DEF q
    <3>4. 1 \in DOMAIN q /\ k \in DOMAIN q /\ q # <<>> /\ Head(q) = q[1] /\ Head(q) \in ToSet(q)
      BY <3>2, <3>3, Elements
    <3>5. timeout[Head(q)] <= timeout[e] /\ timeout[Head(q)] \in Nat /\ timeout[e] \in Nat
      <4>1. timeout[e] \in Nat /\ timeout[Head(q)] \in Nat
        BY <3>1, <3>2, <3>4 DEF q
      <4>2. CASE k = 1
        BY <3>3, <3>4, <4>1, <4>2
      <4>3. CASE k # 1
        BY <3>2, <3>3, <3>4, <4>1, <4>3 DEF Sorted
      <4> QED
        BY <4>1, <4>2, <4>3
    <3>6. active = {} /\ \A x \in heap : sleep # Forever /\ sleep <= timeout[x] + lag
      BY DEF IInv, SleepOK
    <3>7. i \in heap /\ timeout[i] <= timeout[Head(q)]
      BY <1>4, <3>4, <3>6 DEF HeapCoversQueues, q
    <3>8. timeout[i] \in Nat /\ sleep \in Nat /\ lag \in Nat
      <4>1. timeout[i] \in Nat
        BY <3>7, Facts DEF Good
      <4>2. sleep \in Nat
        BY <3>6, <3>7 DEF IInv, Rest
      <4>3. lag \in 0..now /\ now \in Nat
        BY Facts DEF IInv, Rest
      <4>4. lag \in Nat
        BY <4>3
      <4> QED
        BY <4>1, <4>2, <4>4
    <3> QED
      BY <3>5, <3>6, <3>7, <3>8
  <2> QED
    BY <2>1, <2>2
<1> QED
  BY <1>2, <1>3, <1>4, <1>5 DEF CommonTimeoutsOK

\* event.c, for any events, durations and bound of the queues: an event stands once, in one
\* container; the queues stay in the order of the times although persistent events count from
\* their last round; the heap speaks for every queue; and the loop does not sleep past an event,
\* but by as much as the cached time was old when it computed its wait, and without a cached time
\* not at all.
THEOREM CommonTimeoutsAlwaysOK == ASSUME CommonAssumption PROVE Spec => []CommonTimeoutsOK
<1>1. Init => IInv
  BY InitInv
<1>2. IInv /\ [Next]_vars => IInv'
  BY NextInv
<1>3. IInv => CommonTimeoutsOK
  BY Implied
<1> QED
  BY <1>1, <1>2, <1>3, PTL DEF Spec

-----------------------------------------------------------------------------
(* The refinement: each step is one of Timers, or a stutter.               *)

Deadline == [e \in Event |-> IF e \in Pending THEN timeout[e] ELSE Never]

\* The variables of Timers, where a step moves the events in some way.
LEMMA DeadlineMoves ==
  ASSUME NEW pending, NEW fires, NEW times, Moves(pending, fires, times)
  PROVE  /\ Deadline' = [e \in Event |-> IF e \in pending THEN times[e] ELSE Never]
         /\ (active \cap Event)' = fires
  BY DEF Moves, Deadline

\* An event that gets a time which has not passed for the base.
LEMMA Schedules ==
  ASSUME CommonAssumption, IInv, NEW e \in Event, NEW time \in Nat, time >= gettime, NEW fires,
         Moves(Pending \cup {e}, fires, [timeout EXCEPT ![e] = time])
  PROVE  /\ Deadline' = [Deadline EXCEPT ![e] = Deadline'[e]]
         /\ Deadline'[e] \in Nat /\ Deadline'[e] >= gettime
<1>1. timeout \in [Event \cup Index -> Nat \cup {Never}]
  BY Facts, Fields
<1>2. Deadline' = [x \in Event |-> IF x \in Pending \cup {e}
                                   THEN [timeout EXCEPT ![e] = time][x] ELSE Never]
  BY DEF Deadline, Moves
<1>3. \A x \in Event : Deadline'[x] = IF x = e THEN time ELSE Deadline[x]
  BY <1>1, <1>2 DEF Deadline
<1> QED
  BY <1>2, <1>3 DEF Deadline

\* Every step is one of Timers, or leaves its variables alone.
LEMMA StepImplements ==
  CommonAssumption /\ IInv /\ [Next]_vars => [Abstract!Next]_(Abstract!timersVars)
<1> SUFFICES ASSUME CommonAssumption, IInv, [Next]_vars
             PROVE  Abstract!Next \/ (now' = now /\ gettime' = gettime /\ Deadline' = Deadline
                                       /\ (active \cap Event)' = active \cap Event)
  BY DEF Abstract!timersVars, Deadline
<1> USE DEF Deadline
<1>1. CASE Moves(Pending, active \cap Event, timeout) /\ UNCHANGED clocks
  BY <1>1, DeadlineMoves DEF clocks, gettime
<1>2. ASSUME NEW e \in Event, NEW tv \in Timeval, event_add(e, tv) PROVE Abstract!Add(e)
  <2>1. Moves(Pending \cup {e}, (active \cap Event) \ {e}, [timeout EXCEPT ![e] = gettime + tv[1]])
    BY <1>2, AddMoves
  <2>2. gettime + tv[1] \in Nat /\ gettime + tv[1] >= gettime
    <3>1. tv[1] \in Nat
      BY DEF Timeval, CommonAssumption
    <3> QED
      BY <3>1, Facts
  <2>3. (active \cap Event)' = (active \cap Event) \ {e} /\ UNCHANGED <<now, gettime>>
    BY <1>2, <2>1, DeadlineMoves DEF event_add, clocks, gettime
  <2> QED
    BY <2>1, <2>2, <2>3, Schedules DEF Abstract!Add, Abstract!Schedule
<1>3. ASSUME NEW e \in Event, event_del(e) PROVE Abstract!Delete(e)
  <2>1. Moves(Pending \ {e}, (active \cap Event) \ {e}, timeout) /\ UNCHANGED <<now, gettime>>
    BY <1>3, DeleteMoves DEF event_del, clocks, gettime
  <2>2. Deadline' = [Deadline EXCEPT ![e] = Never]
    BY <2>1 DEF Moves
  <2> QED
    BY <2>1, <2>2, DeadlineMoves DEF Abstract!Delete
<1>4. ASSUME NEW e \in Event, RunEvent(e) PROVE Abstract!Run(e)
  <2>1. e \in active \cap Event /\ UNCHANGED <<now, gettime>>
    BY <1>4 DEF RunEvent, clocks, gettime
  <2>2. CASE e \notin Persist
    <3>1. Moves(Pending, (active \cap Event) \ {e}, timeout)
      BY <1>4, <2>2, RunMoves
    <3> QED
      BY <2>1, <2>2, <3>1, DeadlineMoves DEF Abstract!Run
  <2>3. CASE e \in Persist
    <3>1. /\ Moves(Pending \cup {e}, (active \cap Event) \ {e}, [timeout EXCEPT ![e] = RunAt(e)])
          /\ RunAt(e) \in Nat /\ RunAt(e) >= gettime
      BY <1>4, <2>3, RunMoves
    <3>2. (active \cap Event)' = (active \cap Event) \ {e}
      BY <3>1, DeadlineMoves
    <3> QED
      BY <2>1, <2>3, <3>1, <3>2, Schedules DEF Abstract!Run, Abstract!Schedule
  <2> QED
    BY <2>2, <2>3
<1>5. ASSUME NEW S \in SUBSET (Pending \cap Event), now' = now,
             gettime' >= gettime, gettime' <= now,
             Moves(Pending \ S, (active \cap Event) \cup S, timeout),
             \A x \in S : timeout[x] \in Nat /\ timeout[x] <= gettime'
      PROVE  Abstract!Fire(S)
  <2>1. \A x \in S : Deadline[x] = timeout[x] /\ Deadline[x] # Never
    BY <1>5 DEF CommonAssumption
  <2>2. Deadline' = [x \in Event |-> IF x \in S THEN Never ELSE Deadline[x]]
    BY <1>5, DeadlineMoves
  <2>3. (active \cap Event)' = (active \cap Event) \cup S
    BY <1>5, DeadlineMoves
  <2> QED
    BY <1>5, <2>1, <2>2, <2>3 DEF Abstract!Fire, Abstract!Look
<1>6. \A x \in Pending : timeout[x] \in Nat
  BY Facts DEF Good
<1>7. gettime \in Nat /\ now \in Nat /\ gettime <= now /\ now <= MaxTime
  <2>1. gettime \in Nat /\ now \in Nat /\ gettime <= now /\ MaxTime \in Nat
    BY Facts
  <2>2. now \in 0..MaxTime
    BY DEF IInv, Rest
  <2> QED
    BY <2>1, <2>2
<1>8. CASE Wake
  <2> PICK S : S = Expired \cap Event
    OBVIOUS
  <2>1. /\ Moves(Pending \ Expired, (active \cap Event) \cup S, timeout)
        /\ S \subseteq Pending
    BY <1>8, ProcessMoves, Zenon
  <2>2. \A x \in S : timeout[x] <= now
    BY DEF Expired
  <2>3. Pending \ Expired = Pending \ S
    BY DEF Pending, Expired
  <2>4. now' = now /\ gettime' = now
    BY <1>8 DEF Wake, gettime
  <2>5. S \in SUBSET (Pending \cap Event) /\ S \in SUBSET Event
    BY <2>1
  <2>6. gettime' >= gettime /\ gettime' <= now
    BY <1>7, <2>4
  <2>7. Abstract!Fire(S)
    BY <1>5, <1>6, <2>1, <2>2, <2>3, <2>4, <2>5, <2>6
  <2> QED
    BY <2>5, <2>7 DEF Abstract!Next
<1>9. ASSUME NEW i \in Index, common_timeout_callback(i) PROVE Abstract!Next
  <2>1. PICK S \in SUBSET (Pending \cap Event) :
           /\ Moves(Pending \ S, (active \cap Event) \cup S, timeout)
           /\ \A x \in S : timeout[x] <= gettime
    BY <1>9, CallbackMoves
  <2>2. now' = now /\ gettime' = gettime
    BY <1>9 DEF common_timeout_callback, clocks, gettime
  <2>3. Abstract!Fire(S)
    BY <1>5, <1>6, <1>7, <2>1, <2>2
  <2> QED
    BY <2>3 DEF Abstract!Next
<1>10. CASE \E d \in Duration : event_base_init_common_timeout(d)
  BY <1>1, <1>10, QueueAdded DEF event_base_init_common_timeout
<1>11. CASE UNCHANGED vars
  BY <1>1, <1>11, ContainersStay DEF vars
<1>12. CASE Sleep \/ event_base_update_cache_time \/ Tick
  <2>1. Moves(Pending, active \cap Event, timeout)
    BY <1>12, ContainersStay DEF Sleep, event_base_update_cache_time, Tick
  <2>2. now' \in {now, now + 1} /\ now' <= MaxTime /\ now' \in Nat /\ now' # Never
    BY <1>7, <1>12, Facts DEF Sleep, event_base_update_cache_time, Tick, CommonAssumption
  <2>3. gettime' >= gettime /\ gettime' <= now'
    <3>1. CASE Sleep
      BY <1>7, <3>1 DEF Sleep, gettime
    <3>2. CASE event_base_update_cache_time
      BY <1>7, <2>2, <3>2 DEF event_base_update_cache_time, gettime
    <3>3. CASE Tick
      <4>1. now' = now + 1 /\ gettime' = IF tv_cache = Never THEN now' ELSE gettime
        BY <3>3 DEF Tick, gettime
      <4>2. tv_cache = Never => gettime = now
        BY DEF gettime
      <4> QED
        BY <1>7, <4>1, <4>2
    <3> QED
      BY <1>12, <3>1, <3>2, <3>3
  <2>4. Abstract!Tick
    BY <2>1, <2>2, <2>3, DeadlineMoves DEF Abstract!Tick, Abstract!Look
  <2> QED
    BY <2>4 DEF Abstract!Next
<1> QED
  BY <1>2, <1>3, <1>4, <1>8, <1>9, <1>10, <1>11, <1>12 DEF Next, Abstract!Next

\* event.c, for any events, durations and bound of the queues: with its queues and the heap, the
\* base keeps what Timers promises of a single set of timers.
THEOREM TimersImplemented == ASSUME CommonAssumption PROVE Spec => ImplementsTimers
<1>1. Init => IInv
  BY InitInv
<1>2. IInv /\ [Next]_vars => IInv'
  BY NextInv
<1>3. Init => Abstract!Init
  BY DEF Init, Abstract!Init, Pending, QueueOf, gettime
<1>4. IInv /\ [Next]_vars => [Abstract!Next]_(Abstract!timersVars)
  BY StepImplements
<1> QED
  BY <1>1, <1>2, <1>3, <1>4, PTL DEF Spec, ImplementsTimers, Abstract!Spec
=============================================================================
