--------------------------- MODULE EventBaseProofs ---------------------------
(***************************************************************************)
(* Theorems of EventBase, for any number of threads, events, deferred      *)
(* callbacks and priorities.  The first part shows that every operation of *)
(* EventQueues keeps the queues consistent, the second the types, queues   *)
(* and counters of the base, the third the threads that wait on            *)
(* current_event_cond.                                                     *)
(***************************************************************************)
EXTENDS EventBase, FiniteSetTheorems, SequenceTheorems, WellFoundedInduction, TLAPS

\* What the lemmas assume and prove of a state of the queues.
Good(s) == s \in Queues /\ QueuesOK(s)

-----------------------------------------------------------------------------
(* Sequences without repetition.                                           *)

\* TAILQ_INSERT_TAIL of a callback that is not listed.
LEMMA AppendLists ==
  ASSUME NEW S, NEW s \in Seq(S), NEW T, Lists(s, T), NEW c \in S, c \notin T
  PROVE  Append(s, c) \in Seq(S) /\ Lists(Append(s, c), T \cup {c})
  BY DEF Lists

\* TAILQ_FIRST and the removal of it.
LEMMA TailLists ==
  ASSUME NEW S, NEW s \in Seq(S), NEW T, Lists(s, T), s # << >>
  PROVE  /\ Head(s) \in S /\ Head(s) \in T
         /\ Tail(s) \in Seq(S) /\ Lists(Tail(s), T \ {Head(s)})
<1>1. /\ Head(s) = s[1] /\ s[1] \in S /\ Len(s) \in Nat \ {0}
      /\ Tail(s) \in Seq(S) /\ Len(Tail(s)) = Len(s) - 1
      /\ \A k \in 1 .. Len(s) - 1 : Tail(s)[k] = s[k + 1]
  BY HeadTailProperties
<1>2. \A j, k \in 1 .. Len(Tail(s)) : Tail(s)[j] = Tail(s)[k] => j = k
  BY <1>1 DEF Lists
<1>3. { Tail(s)[k] : k \in 1 .. Len(Tail(s)) } = T \ {s[1]}
  <2>1. ASSUME NEW k \in 1 .. Len(Tail(s))
        PROVE  Tail(s)[k] \in T \ {s[1]}
    BY <1>1 DEF Lists
  <2>2. ASSUME NEW d \in T \ {s[1]}
        PROVE  \E k \in 1 .. Len(Tail(s)) : Tail(s)[k] = d
    <3>1. PICK k \in 1 .. Len(s) : s[k] = d
      BY DEF Lists
    <3>2. k - 1 \in 1 .. Len(Tail(s)) /\ Tail(s)[k - 1] = d
      BY <1>1, <3>1
    <3> QED
      BY <3>2
  <2> QED
    BY <2>1, <2>2
<1> QED
  BY <1>1, <1>2, <1>3 DEF Lists

\* TAILQ_REMOVE of a callback that is listed.
LEMMA UnlinkLists ==
  ASSUME NEW S, NEW s \in Seq(S), NEW T, Lists(s, T), NEW c \in T
  PROVE  Unlink(s, c) \in Seq(S) /\ Lists(Unlink(s, c), T \ {c})
<1> DEFINE i == CHOOSE k \in 1 .. Len(s) : s[k] = c
           u == Unlink(s, c)
<1>1. i \in 1 .. Len(s) /\ s[i] = c
  BY DEF Lists
<1> HIDE DEF i
<1>2. u = SubSeq(s, 1, i - 1) \o SubSeq(s, i + 1, Len(s))
  BY DEF Unlink, i
<1>3. /\ u \in Seq(S)
      /\ Len(u) = Len(s) - 1
      /\ \A k \in 1 .. Len(s) - 1 : u[k] = IF k < i THEN s[k] ELSE s[k + 1]
  <2> DEFINE before == SubSeq(s, 1, i - 1)
             after == SubSeq(s, i + 1, Len(s))
  <2>1. before \in Seq(S) /\ Len(before) = i - 1
        /\ \A k \in 1 .. i - 1 : before[k] = s[k]
    BY <1>1, SubSeqProperties
  <2>2. after \in Seq(S) /\ Len(after) = Len(s) - i
        /\ \A k \in 1 .. Len(s) - i : after[k] = s[k + i]
    BY <1>1, SubSeqProperties
  <2> HIDE DEF before, after
  <2>3. u = before \o after
    BY <1>2 DEF before, after
  <2>4. u \in Seq(S) /\ Len(u) = Len(s) - 1
    BY <1>1, <2>1, <2>2, <2>3
  <2>5. ASSUME NEW k \in 1 .. Len(s) - 1
        PROVE  u[k] = IF k < i THEN s[k] ELSE s[k + 1]
    <3>1. /\ k \in 1 .. Len(before) + Len(after)
          /\ k <= Len(before) <=> k < i
          /\ k >= i => k - Len(before) \in 1 .. Len(s) - i
      BY <1>1, <2>1, <2>2
    <3>2. u[k] = IF k < i THEN before[k] ELSE after[k - Len(before)]
      BY <2>1, <2>2, <2>3, <3>1, ConcatProperties
    <3> QED
      BY <1>1, <2>1, <2>2, <3>1, <3>2
  <2> QED
    BY <2>4, <2>5
<1> HIDE DEF u
<1>4. \A j, k \in 1 .. Len(u) : u[j] = u[k] => j = k
  <2> DEFINE at(k) == IF k < i THEN k ELSE k + 1
  <2>1. \A k \in 1 .. Len(u) : at(k) \in 1 .. Len(s) /\ u[k] = s[at(k)]
    BY <1>1, <1>3
  <2>2. \A j, k \in 1 .. Len(s) : s[j] = s[k] => j = k
    BY DEF Lists
  <2>3. \A j, k \in 1 .. Len(u) : at(j) = at(k) => j = k
    BY <1>1, <1>3
  <2> HIDE DEF at
  <2> QED
    BY <2>1, <2>2, <2>3
<1>5. { u[k] : k \in 1 .. Len(u) } = T \ {c}
  <2>1. ASSUME NEW k \in 1 .. Len(u)
        PROVE  u[k] \in T \ {c}
    BY <1>1, <1>3 DEF Lists
  <2>2. ASSUME NEW d \in T \ {c}
        PROVE  \E k \in 1 .. Len(u) : u[k] = d
    <3>1. PICK k \in 1 .. Len(s) : s[k] = d
      BY DEF Lists
    <3>2. k # i
      BY <1>1, <3>1
    <3>3. CASE k < i
      BY <1>1, <1>3, <3>1, <3>3
    <3>4. CASE k > i
      <4>1. k - 1 \in 1 .. Len(u) /\ u[k - 1] = d
        BY <1>1, <1>3, <3>1, <3>4
      <4> QED
        BY <4>1
    <3> QED
      BY <1>1, <3>2, <3>3, <3>4
  <2> QED
    BY <2>1, <2>2
<1> QED
  BY <1>3, <1>4, <1>5 DEF u, Lists

-----------------------------------------------------------------------------
(* Flags and counters.                                                     *)

\* Every set of callbacks is finite.
LEMMA FiniteCallbacks ==
  ASSUME NEW S \in SUBSET Callback
  PROVE  /\ IsFiniteSet(S) /\ Cardinality(S) \in Nat
         /\ IsFiniteSet(S \ Internal) /\ Cardinality(S \ Internal) \in Nat
<1>1. IsFiniteSet(Callback)
  BY QueuesAssumption
<1>2. IsFiniteSet(S) /\ IsFiniteSet(S \ Internal)
  <2>1. S \ Internal \in SUBSET Callback
    OBVIOUS
  <2> QED
    BY <1>1, <2>1, FS_Subset
<1> QED
  BY <1>2, FS_CardinalityType

\* INCR_EVENT_COUNT
LEMMA CountIn ==
  ASSUME NEW S \in SUBSET Callback, NEW c \in Callback, c \notin S
  PROVE  /\ Cardinality(S \cup {c}) = Cardinality(S) + 1
         /\ Cardinality((S \cup {c}) \ Internal)
              = Cardinality(S \ Internal) + Counted(c)
<1>1. Cardinality(S \cup {c}) = Cardinality(S) + 1
  BY FiniteCallbacks, FS_AddElement
<1>2. CASE c \in Internal
  <2>1. (S \cup {c}) \ Internal = S \ Internal
    BY <1>2
  <2> QED
    BY <1>1, <1>2, <2>1, FiniteCallbacks DEF Counted
<1>3. CASE c \notin Internal
  <2>1. (S \cup {c}) \ Internal = (S \ Internal) \cup {c}
    BY <1>3
  <2>2. c \notin S \ Internal
    OBVIOUS
  <2>3. Cardinality((S \ Internal) \cup {c}) = Cardinality(S \ Internal) + 1
    BY <2>2, FiniteCallbacks, FS_AddElement
  <2> QED
    BY <1>1, <1>3, <2>1, <2>3 DEF Counted
<1> QED
  BY <1>2, <1>3

\* DECR_EVENT_COUNT
LEMMA CountOut ==
  ASSUME NEW S \in SUBSET Callback, NEW c \in S
  PROVE  /\ Cardinality(S \ {c}) = Cardinality(S) - 1
         /\ Cardinality((S \ {c}) \ Internal)
              = Cardinality(S \ Internal) - Counted(c)
<1> DEFINE R == S \ {c}
<1>1. R \in SUBSET Callback /\ c \notin R /\ R \cup {c} = S
  OBVIOUS
<1> HIDE DEF R
<1>2. /\ Cardinality(S) = Cardinality(R) + 1
      /\ Cardinality(S \ Internal) = Cardinality(R \ Internal) + Counted(c)
  BY <1>1, CountIn
<1>3. /\ Cardinality(R) \in Nat /\ Cardinality(R \ Internal) \in Nat
      /\ Counted(c) \in Int
  BY <1>1, FiniteCallbacks DEF Counted
<1>4. /\ Cardinality(R) = Cardinality(S) - 1
      /\ Cardinality(R \ Internal) = Cardinality(S \ Internal) - Counted(c)
  BY <1>2, <1>3
<1> QED
  BY <1>4 DEF R

\* The types of the fields, one by one.
LEMMA QueuesFields ==
  ASSUME NEW s \in Queues
  PROVE  /\ s.flags \in [Callback -> SUBSET Flag]
         /\ s.activequeues \in [Priorities -> Seq(Callback)]
         /\ s.active_later_queue \in Seq(Callback)
         /\ s.timeheap \in SUBSET Event
         /\ s.event_count \in Int
         /\ s.event_count_active \in Int
         /\ \A f : With(s, f) \in SUBSET Callback
  BY DEF Queues, With

\* The flags that are counted.
Registration == {"INSERTED", "TIMEOUT", "ACTIVE", "ACTIVE_LATER"}

\* event_count as the sum of the four kinds of registrations.
LEMMA RegistrationCounts ==
  ASSUME NEW s \in Queues
  PROVE  \A f \in Registration :
           /\ Cardinality(With(s, f)) \in Nat
           /\ Cardinality(With(s, f) \ Internal) \in Nat
  BY FiniteCallbacks, QueuesFields

\* A callback gets one of these flags.
LEMMA FlagIn ==
  ASSUME NEW s \in Queues, NEW r, NEW c \in Callback, NEW f \in Registration,
         f \notin s.flags[c],
         r.flags = [s.flags EXCEPT ![c] = s.flags[c] \cup {f}]
  PROVE  /\ With(r, f) = With(s, f) \cup {c}
         /\ c \notin With(s, f)
         /\ \A g : g # f => With(r, g) = With(s, g)
         /\ Cardinality(With(r, f)) = Cardinality(With(s, f)) + 1
         /\ RegistrationsCounted(s) /\ r.event_count = s.event_count + Counted(c)
              => RegistrationsCounted(r)
<1>1. /\ With(r, f) = With(s, f) \cup {c}
      /\ c \notin With(s, f)
      /\ \A g : g # f => With(r, g) = With(s, g)
  BY QueuesFields DEF With
<1>2. /\ Cardinality(With(r, f)) = Cardinality(With(s, f)) + 1
      /\ Cardinality(With(r, f) \ Internal)
           = Cardinality(With(s, f) \ Internal) + Counted(c)
  BY <1>1, CountIn, QueuesFields
<1>3. RegistrationsCounted(s) /\ r.event_count = s.event_count + Counted(c)
        => RegistrationsCounted(r)
  <2> DEFINE n(g) == Cardinality(With(s, g) \ Internal)
             m(g) == Cardinality(With(r, g) \ Internal)
  <2>1. m(f) = n(f) + Counted(c) /\ \A g \in Registration : g # f => m(g) = n(g)
    BY <1>1, <1>2
  <2>2. /\ n("INSERTED") \in Nat /\ n("TIMEOUT") \in Nat
        /\ n("ACTIVE") \in Nat /\ n("ACTIVE_LATER") \in Nat /\ Counted(c) \in Nat
    BY RegistrationCounts DEF Registration, Counted
  <2>3. SUFFICES
          ASSUME s.event_count
                   = n("INSERTED") + n("TIMEOUT") + n("ACTIVE") + n("ACTIVE_LATER"),
                 r.event_count = s.event_count + Counted(c)
          PROVE  r.event_count
                   = m("INSERTED") + m("TIMEOUT") + m("ACTIVE") + m("ACTIVE_LATER")
    BY DEF RegistrationsCounted
  <2> HIDE DEF n, m
  <2> QED
    BY <2>1, <2>2, <2>3 DEF Registration
<1> QED
  BY <1>1, <1>2, <1>3

\* A callback loses one of them.
LEMMA FlagOut ==
  ASSUME NEW s \in Queues, NEW r, NEW c \in Callback, NEW f \in Registration,
         f \in s.flags[c],
         r.flags = [s.flags EXCEPT ![c] = s.flags[c] \ {f}]
  PROVE  /\ With(r, f) = With(s, f) \ {c}
         /\ c \in With(s, f)
         /\ \A g : g # f => With(r, g) = With(s, g)
         /\ Cardinality(With(r, f)) = Cardinality(With(s, f)) - 1
         /\ RegistrationsCounted(s) /\ r.event_count = s.event_count - Counted(c)
              => RegistrationsCounted(r)
<1>1. /\ With(r, f) = With(s, f) \ {c}
      /\ c \in With(s, f)
      /\ \A g : g # f => With(r, g) = With(s, g)
  BY QueuesFields DEF With
<1>2. /\ Cardinality(With(r, f)) = Cardinality(With(s, f)) - 1
      /\ Cardinality(With(r, f) \ Internal)
           = Cardinality(With(s, f) \ Internal) - Counted(c)
  BY <1>1, CountOut, QueuesFields
<1>3. RegistrationsCounted(s) /\ r.event_count = s.event_count - Counted(c)
        => RegistrationsCounted(r)
  <2> DEFINE n(g) == Cardinality(With(s, g) \ Internal)
             m(g) == Cardinality(With(r, g) \ Internal)
  <2>1. m(f) = n(f) - Counted(c) /\ \A g \in Registration : g # f => m(g) = n(g)
    BY <1>1, <1>2
  <2>2. /\ n("INSERTED") \in Nat /\ n("TIMEOUT") \in Nat
        /\ n("ACTIVE") \in Nat /\ n("ACTIVE_LATER") \in Nat /\ Counted(c) \in Nat
    BY RegistrationCounts DEF Registration, Counted
  <2>3. SUFFICES
          ASSUME s.event_count
                   = n("INSERTED") + n("TIMEOUT") + n("ACTIVE") + n("ACTIVE_LATER"),
                 r.event_count = s.event_count - Counted(c)
          PROVE  r.event_count
                   = m("INSERTED") + m("TIMEOUT") + m("ACTIVE") + m("ACTIVE_LATER")
    BY DEF RegistrationsCounted
  <2> HIDE DEF n, m
  <2> QED
    BY <2>1, <2>2, <2>3 DEF Registration
<1> QED
  BY <1>1, <1>2, <1>3

-----------------------------------------------------------------------------
(* The queue operations.                                                   *)

\* The queues of a new base are consistent.
LEMMA EmptyGood == Good(EmptyQueues)
<1> DEFINE r == EmptyQueues
<1>1. /\ r \in Queues
      /\ r.flags = [c \in Callback |-> {}]
      /\ r.activequeues = [i \in Priorities |-> << >>]
      /\ r.active_later_queue = << >>
      /\ r.timeheap = {}
      /\ r.event_count = 0 /\ r.event_count_active = 0
  BY QueuesAssumption DEF EmptyQueues, Queues
<1> HIDE DEF r
<1>2. \A f : With(r, f) = {}
  BY <1>1 DEF With
<1>3. \A S : S = {} => Cardinality(S) = 0 /\ Cardinality(S \ Internal) = 0
  BY FS_EmptySet, {} \ Internal = {}
<1>4. ActiveListed(r)
  BY <1>1, <1>2 DEF ActiveListed, Lists
<1>5. LaterListed(r) /\ NeverBoth(r) /\ HeapListed(r) /\ OnlyEvents(r)
  BY <1>1, <1>2 DEF LaterListed, NeverBoth, HeapListed, OnlyEvents, Lists
<1>6. ActiveCounted(r) /\ RegistrationsCounted(r)
  <2>1. \A f \in Registration :
          Cardinality(With(r, f)) = 0 /\ Cardinality(With(r, f) \ Internal) = 0
    BY <1>2, <1>3
  <2> QED
    BY <1>1, <2>1 DEF ActiveCounted, RegistrationsCounted, Registration
<1> QED
  BY <1>1, <1>4, <1>5, <1>6 DEF Good, QueuesOK, r

\* event_queue_insert_inserted keeps the queues consistent.
LEMMA InsertInsertedGood ==
  ASSUME NEW s, Good(s), NEW e \in Event, "INSERTED" \notin s.flags[e]
  PROVE  Good(event_queue_insert_inserted(s, e))
<1> DEFINE r == event_queue_insert_inserted(s, e)
<1>1. s \in Queues /\ QueuesOK(s) /\ e \in Callback
  BY DEF Good, Callback
<1>2. /\ r.flags = [s.flags EXCEPT ![e] = s.flags[e] \cup {"INSERTED"}]
      /\ r.activequeues = s.activequeues
      /\ r.active_later_queue = s.active_later_queue
      /\ r.timeheap = s.timeheap
      /\ r.event_count = s.event_count + Counted(e)
      /\ r.event_count_active = s.event_count_active
  BY <1>1 DEF event_queue_insert_inserted, Queues
<1>3. r \in Queues
  <2>1. r.flags \in [Callback -> SUBSET Flag] /\ r.event_count \in Int
    BY <1>1, <1>2, QueuesFields DEF Flag, Counted
  <2> QED
    BY <1>1, <2>1 DEF event_queue_insert_inserted, Queues
<1> HIDE DEF r
<1>4. /\ With(r, "INSERTED") = With(s, "INSERTED") \cup {e}
      /\ With(r, "ACTIVE") = With(s, "ACTIVE")
      /\ With(r, "ACTIVE_LATER") = With(s, "ACTIVE_LATER")
      /\ With(r, "TIMEOUT") = With(s, "TIMEOUT")
      /\ RegistrationsCounted(r)
  <2>1. "INSERTED" \in Registration /\ RegistrationsCounted(s)
    BY <1>1 DEF QueuesOK, Registration
  <2> QED
    BY <1>1, <1>2, <2>1, FlagIn
<1> QED
  BY <1>1, <1>2, <1>3, <1>4
     DEF Good, QueuesOK, ActiveListed, LaterListed, NeverBoth, HeapListed, OnlyEvents,
         ActiveCounted, r

\* event_queue_remove_inserted keeps the queues consistent.
LEMMA RemoveInsertedGood ==
  ASSUME NEW s, Good(s), NEW e \in Event, "INSERTED" \in s.flags[e]
  PROVE  Good(event_queue_remove_inserted(s, e))
<1> DEFINE r == event_queue_remove_inserted(s, e)
<1>1. s \in Queues /\ QueuesOK(s) /\ e \in Callback
  BY DEF Good, Callback
<1>2. /\ r.flags = [s.flags EXCEPT ![e] = s.flags[e] \ {"INSERTED"}]
      /\ r.activequeues = s.activequeues
      /\ r.active_later_queue = s.active_later_queue
      /\ r.timeheap = s.timeheap
      /\ r.event_count = s.event_count - Counted(e)
      /\ r.event_count_active = s.event_count_active
  BY <1>1 DEF event_queue_remove_inserted, Queues
<1>3. r \in Queues
  <2>1. /\ r.flags \in [Callback -> SUBSET Flag] /\ r.event_count \in Int
        /\ r.timeheap \in SUBSET Event
    BY <1>1, <1>2, QueuesFields DEF Flag, Counted
  <2> QED
    BY <1>1, <2>1 DEF event_queue_remove_inserted, Queues
<1> HIDE DEF r
<1>4. /\ With(r, "INSERTED") = With(s, "INSERTED") \ {e}
      /\ With(r, "ACTIVE") = With(s, "ACTIVE")
      /\ With(r, "ACTIVE_LATER") = With(s, "ACTIVE_LATER")
      /\ With(r, "TIMEOUT") = With(s, "TIMEOUT")
      /\ RegistrationsCounted(r)
  <2>1. "INSERTED" \in Registration /\ RegistrationsCounted(s)
    BY <1>1 DEF QueuesOK, Registration
  <2> QED
    BY <1>1, <1>2, <2>1, FlagOut
<1> QED
  BY <1>1, <1>2, <1>3, <1>4
     DEF Good, QueuesOK, ActiveListed, LaterListed, NeverBoth, HeapListed, OnlyEvents,
         ActiveCounted, r

\* event_queue_insert_timeout keeps the queues consistent.
LEMMA InsertTimeoutGood ==
  ASSUME NEW s, Good(s), NEW e \in Event, "TIMEOUT" \notin s.flags[e]
  PROVE  Good(event_queue_insert_timeout(s, e))
<1> DEFINE r == event_queue_insert_timeout(s, e)
<1>1. s \in Queues /\ QueuesOK(s) /\ e \in Callback
  BY DEF Good, Callback
<1>2. /\ r.flags = [s.flags EXCEPT ![e] = s.flags[e] \cup {"TIMEOUT"}]
      /\ r.activequeues = s.activequeues
      /\ r.active_later_queue = s.active_later_queue
      /\ r.timeheap = s.timeheap \cup {e}
      /\ r.event_count = s.event_count + Counted(e)
      /\ r.event_count_active = s.event_count_active
  BY <1>1 DEF event_queue_insert_timeout, Queues
<1>3. r \in Queues
  <2>1. /\ r.flags \in [Callback -> SUBSET Flag] /\ r.event_count \in Int
        /\ r.timeheap \in SUBSET Event
    BY <1>1, <1>2, QueuesFields DEF Flag, Counted
  <2> QED
    BY <1>1, <2>1 DEF event_queue_insert_timeout, Queues
<1> HIDE DEF r
<1>4. /\ With(r, "TIMEOUT") = With(s, "TIMEOUT") \cup {e}
      /\ With(r, "ACTIVE") = With(s, "ACTIVE")
      /\ With(r, "ACTIVE_LATER") = With(s, "ACTIVE_LATER")
      /\ With(r, "INSERTED") = With(s, "INSERTED")
      /\ RegistrationsCounted(r)
  <2>1. "TIMEOUT" \in Registration /\ RegistrationsCounted(s)
    BY <1>1 DEF QueuesOK, Registration
  <2> QED
    BY <1>1, <1>2, <2>1, FlagIn
<1> QED
  BY <1>1, <1>2, <1>3, <1>4
     DEF Good, QueuesOK, ActiveListed, LaterListed, NeverBoth, HeapListed, OnlyEvents,
         ActiveCounted, r

\* event_queue_remove_timeout keeps the queues consistent.
LEMMA RemoveTimeoutGood ==
  ASSUME NEW s, Good(s), NEW e \in Event, "TIMEOUT" \in s.flags[e]
  PROVE  Good(event_queue_remove_timeout(s, e))
<1> DEFINE r == event_queue_remove_timeout(s, e)
<1>1. s \in Queues /\ QueuesOK(s) /\ e \in Callback
  BY DEF Good, Callback
<1>2. /\ r.flags = [s.flags EXCEPT ![e] = s.flags[e] \ {"TIMEOUT"}]
      /\ r.activequeues = s.activequeues
      /\ r.active_later_queue = s.active_later_queue
      /\ r.timeheap = s.timeheap \ {e}
      /\ r.event_count = s.event_count - Counted(e)
      /\ r.event_count_active = s.event_count_active
  BY <1>1 DEF event_queue_remove_timeout, Queues
<1>3. r \in Queues
  <2>1. /\ r.flags \in [Callback -> SUBSET Flag] /\ r.event_count \in Int
        /\ r.timeheap \in SUBSET Event
    BY <1>1, <1>2, QueuesFields DEF Flag, Counted
  <2> QED
    BY <1>1, <2>1 DEF event_queue_remove_timeout, Queues
<1> HIDE DEF r
<1>4. /\ With(r, "TIMEOUT") = With(s, "TIMEOUT") \ {e}
      /\ With(r, "ACTIVE") = With(s, "ACTIVE")
      /\ With(r, "ACTIVE_LATER") = With(s, "ACTIVE_LATER")
      /\ With(r, "INSERTED") = With(s, "INSERTED")
      /\ RegistrationsCounted(r)
  <2>1. "TIMEOUT" \in Registration /\ RegistrationsCounted(s)
    BY <1>1 DEF QueuesOK, Registration
  <2> QED
    BY <1>1, <1>2, <2>1, FlagOut
<1> QED
  BY <1>1, <1>2, <1>3, <1>4
     DEF Good, QueuesOK, ActiveListed, LaterListed, NeverBoth, HeapListed, OnlyEvents,
         ActiveCounted, r

\* event_queue_insert_active of a callback that is on neither queue.
LEMMA InsertActiveGood ==
  ASSUME NEW s, Good(s), NEW c \in Callback,
         "ACTIVE" \notin s.flags[c], "ACTIVE_LATER" \notin s.flags[c]
  PROVE  Good(event_queue_insert_active(s, c))
<1> DEFINE r == event_queue_insert_active(s, c)
           p == Priority[c]
           A(u, i) == { d \in With(u, "ACTIVE") : Priority[d] = i }
<1>1. s \in Queues /\ QueuesOK(s) /\ p \in Priorities
  BY QueuesAssumption DEF Good, Priorities
<1>2. /\ r.flags = [s.flags EXCEPT ![c] = s.flags[c] \cup {"ACTIVE"}]
      /\ r.activequeues = [s.activequeues EXCEPT ![p] = Append(s.activequeues[p], c)]
      /\ r.active_later_queue = s.active_later_queue
      /\ r.timeheap = s.timeheap
      /\ r.event_count = s.event_count + Counted(c)
      /\ r.event_count_active = s.event_count_active + 1
  BY <1>1 DEF event_queue_insert_active, Queues
<1>3. r = [s EXCEPT !.flags = r.flags, !.activequeues = r.activequeues,
                    !.event_count = r.event_count,
                    !.event_count_active = r.event_count_active]
  BY <1>1 DEF event_queue_insert_active, Queues
<1> HIDE DEF r
<1>4. /\ With(r, "ACTIVE") = With(s, "ACTIVE") \cup {c}
      /\ c \notin With(s, "ACTIVE")
      /\ With(r, "ACTIVE_LATER") = With(s, "ACTIVE_LATER")
      /\ With(r, "INSERTED") = With(s, "INSERTED")
      /\ With(r, "TIMEOUT") = With(s, "TIMEOUT")
      /\ Cardinality(With(r, "ACTIVE")) = Cardinality(With(s, "ACTIVE")) + 1
      /\ RegistrationsCounted(r)
  <2>1. "ACTIVE" \in Registration /\ RegistrationsCounted(s)
    BY <1>1 DEF QueuesOK, Registration
  <2> QED
    BY <1>1, <1>2, <2>1, FlagIn
<1>5. ASSUME NEW i \in Priorities
      PROVE  r.activequeues[i] \in Seq(Callback) /\ Lists(r.activequeues[i], A(r, i))
  <2>1. /\ s.activequeues[i] \in Seq(Callback) /\ Lists(s.activequeues[i], A(s, i))
        /\ s.activequeues \in [Priorities -> Seq(Callback)]
    BY <1>1, QueuesFields DEF QueuesOK, ActiveListed
  <2>2. CASE i = p
    <3>1. A(r, i) = A(s, i) \cup {c} /\ c \notin A(s, i)
      BY <1>4, <2>2
    <3>2. r.activequeues[i] = Append(s.activequeues[i], c)
      BY <1>2, <2>1, <2>2
    <3> HIDE DEF A
    <3> QED
      BY <2>1, <3>1, <3>2, AppendLists
  <2>3. CASE i # p
    <3>1. A(r, i) = A(s, i)
      BY <1>4, <2>3
    <3>2. r.activequeues[i] = s.activequeues[i]
      BY <1>2, <2>1, <2>3
    <3> QED
      BY <2>1, <3>1, <3>2
  <2> QED
    BY <2>2, <2>3
<1>6. r \in Queues
  <2>1. /\ r.flags \in [Callback -> SUBSET Flag] /\ r.event_count \in Int
        /\ r.event_count_active \in Int
    BY <1>1, <1>2, QueuesFields DEF Flag, Counted
  <2>2. r.activequeues \in [Priorities -> Seq(Callback)]
    BY <1>1, <1>2, <1>5, QueuesFields
  <2> QED
    BY <1>1, <1>3, <2>1, <2>2 DEF Queues
<1>7. ActiveListed(r)
  BY <1>5 DEF ActiveListed
<1>8. ActiveCounted(r)
  <2>1. /\ Cardinality(With(s, "ACTIVE")) \in Nat
        /\ Cardinality(With(s, "ACTIVE_LATER")) \in Nat
    BY <1>1, RegistrationCounts DEF Registration
  <2>2. s.event_count_active
          = Cardinality(With(s, "ACTIVE")) + Cardinality(With(s, "ACTIVE_LATER"))
    BY <1>1 DEF QueuesOK, ActiveCounted
  <2> QED
    BY <1>2, <1>4, <2>1, <2>2 DEF ActiveCounted
<1>9. LaterListed(r) /\ NeverBoth(r) /\ HeapListed(r) /\ OnlyEvents(r)
  BY <1>1, <1>2, <1>4 DEF QueuesOK, LaterListed, NeverBoth, HeapListed, OnlyEvents, With
<1> QED
  BY <1>4, <1>6, <1>7, <1>8, <1>9 DEF Good, QueuesOK, r

\* event_queue_remove_active keeps the queues consistent.
LEMMA RemoveActiveGood ==
  ASSUME NEW s, Good(s), NEW c \in Callback,
         "ACTIVE" \in s.flags[c]
  PROVE  Good(event_queue_remove_active(s, c))
<1> DEFINE r == event_queue_remove_active(s, c)
           p == Priority[c]
           A(u, i) == { d \in With(u, "ACTIVE") : Priority[d] = i }
<1>1. s \in Queues /\ QueuesOK(s) /\ p \in Priorities
  BY QueuesAssumption DEF Good, Priorities
<1>2. /\ r.flags = [s.flags EXCEPT ![c] = s.flags[c] \ {"ACTIVE"}]
      /\ r.activequeues = [s.activequeues EXCEPT ![p] = Unlink(s.activequeues[p], c)]
      /\ r.active_later_queue = s.active_later_queue
      /\ r.timeheap = s.timeheap
      /\ r.event_count = s.event_count - Counted(c)
      /\ r.event_count_active = s.event_count_active - 1
  BY <1>1 DEF event_queue_remove_active, Queues
<1>3. r = [s EXCEPT !.flags = r.flags, !.activequeues = r.activequeues,
                    !.event_count = r.event_count,
                    !.event_count_active = r.event_count_active]
  BY <1>1 DEF event_queue_remove_active, Queues
<1> HIDE DEF r
<1>4. /\ With(r, "ACTIVE") = With(s, "ACTIVE") \ {c}
      /\ c \in With(s, "ACTIVE")
      /\ With(r, "ACTIVE_LATER") = With(s, "ACTIVE_LATER")
      /\ With(r, "INSERTED") = With(s, "INSERTED")
      /\ With(r, "TIMEOUT") = With(s, "TIMEOUT")
      /\ Cardinality(With(r, "ACTIVE")) = Cardinality(With(s, "ACTIVE")) - 1
      /\ RegistrationsCounted(r)
  <2>1. "ACTIVE" \in Registration /\ RegistrationsCounted(s)
    BY <1>1 DEF QueuesOK, Registration
  <2> QED
    BY <1>1, <1>2, <2>1, FlagOut
<1>5. ASSUME NEW i \in Priorities
      PROVE  r.activequeues[i] \in Seq(Callback) /\ Lists(r.activequeues[i], A(r, i))
  <2>1. /\ s.activequeues[i] \in Seq(Callback) /\ Lists(s.activequeues[i], A(s, i))
        /\ s.activequeues \in [Priorities -> Seq(Callback)]
    BY <1>1, QueuesFields DEF QueuesOK, ActiveListed
  <2>2. CASE i = p
    <3>1. A(r, i) = A(s, i) \ {c} /\ c \in A(s, i)
      BY <1>4, <2>2
    <3>2. r.activequeues[i] = Unlink(s.activequeues[i], c)
      BY <1>2, <2>1, <2>2
    <3> HIDE DEF A
    <3> QED
      BY <2>1, <3>1, <3>2, UnlinkLists
  <2>3. CASE i # p
    <3>1. A(r, i) = A(s, i)
      BY <1>4, <2>3
    <3>2. r.activequeues[i] = s.activequeues[i]
      BY <1>2, <2>1, <2>3
    <3> QED
      BY <2>1, <3>1, <3>2
  <2> QED
    BY <2>2, <2>3
<1>6. r \in Queues
  <2>1. /\ r.flags \in [Callback -> SUBSET Flag] /\ r.event_count \in Int
        /\ r.event_count_active \in Int
    BY <1>1, <1>2, QueuesFields DEF Flag, Counted
  <2>2. r.activequeues \in [Priorities -> Seq(Callback)]
    BY <1>1, <1>2, <1>5, QueuesFields
  <2> QED
    BY <1>1, <1>3, <2>1, <2>2 DEF Queues
<1>7. ActiveListed(r)
  BY <1>5 DEF ActiveListed
<1>8. ActiveCounted(r)
  <2>1. /\ Cardinality(With(s, "ACTIVE")) \in Nat
        /\ Cardinality(With(s, "ACTIVE_LATER")) \in Nat
    BY <1>1, RegistrationCounts DEF Registration
  <2>2. s.event_count_active
          = Cardinality(With(s, "ACTIVE")) + Cardinality(With(s, "ACTIVE_LATER"))
    BY <1>1 DEF QueuesOK, ActiveCounted
  <2> QED
    BY <1>2, <1>4, <2>1, <2>2 DEF ActiveCounted
<1>9. LaterListed(r) /\ NeverBoth(r) /\ HeapListed(r) /\ OnlyEvents(r)
  BY <1>1, <1>2, <1>4 DEF QueuesOK, LaterListed, NeverBoth, HeapListed, OnlyEvents, With
<1> QED
  BY <1>4, <1>6, <1>7, <1>8, <1>9 DEF Good, QueuesOK, r

\* event_queue_insert_active_later of a callback that is on neither queue.
LEMMA InsertLaterGood ==
  ASSUME NEW s, Good(s), NEW c \in Callback,
         "ACTIVE" \notin s.flags[c], "ACTIVE_LATER" \notin s.flags[c]
  PROVE  Good(event_queue_insert_active_later(s, c))
<1> DEFINE r == event_queue_insert_active_later(s, c)
<1>1. s \in Queues /\ QueuesOK(s)
  BY DEF Good
<1>2. /\ r.flags = [s.flags EXCEPT ![c] = s.flags[c] \cup {"ACTIVE_LATER"}]
      /\ r.activequeues = s.activequeues
      /\ r.active_later_queue = Append(s.active_later_queue, c)
      /\ r.timeheap = s.timeheap
      /\ r.event_count = s.event_count + Counted(c)
      /\ r.event_count_active = s.event_count_active + 1
  BY <1>1 DEF event_queue_insert_active_later, Queues
<1>3. r = [s EXCEPT !.flags = r.flags, !.active_later_queue = r.active_later_queue,
                    !.event_count = r.event_count,
                    !.event_count_active = r.event_count_active]
  BY <1>1 DEF event_queue_insert_active_later, Queues
<1> HIDE DEF r
<1>4. /\ With(r, "ACTIVE_LATER") = With(s, "ACTIVE_LATER") \cup {c}
      /\ c \notin With(s, "ACTIVE_LATER")
      /\ With(r, "ACTIVE") = With(s, "ACTIVE")
      /\ With(r, "INSERTED") = With(s, "INSERTED")
      /\ With(r, "TIMEOUT") = With(s, "TIMEOUT")
      /\ Cardinality(With(r, "ACTIVE_LATER"))
           = Cardinality(With(s, "ACTIVE_LATER")) + 1
      /\ RegistrationsCounted(r)
  <2>1. "ACTIVE_LATER" \in Registration /\ RegistrationsCounted(s)
    BY <1>1 DEF QueuesOK, Registration
  <2> QED
    BY <1>1, <1>2, <2>1, FlagIn
<1>5. r.active_later_queue \in Seq(Callback) /\ LaterListed(r)
  <2>1. /\ s.active_later_queue \in Seq(Callback)
        /\ Lists(s.active_later_queue, With(s, "ACTIVE_LATER"))
    BY <1>1, QueuesFields DEF QueuesOK, LaterListed
  <2> QED
    BY <1>2, <1>4, <2>1, AppendLists DEF LaterListed
<1>6. r \in Queues
  <2>1. /\ r.flags \in [Callback -> SUBSET Flag] /\ r.event_count \in Int
        /\ r.event_count_active \in Int
    BY <1>1, <1>2, QueuesFields DEF Flag, Counted
  <2> QED
    BY <1>1, <1>3, <1>5, <2>1 DEF Queues
<1>7. ActiveListed(r)
  BY <1>1, <1>2, <1>4 DEF QueuesOK, ActiveListed
<1>8. ActiveCounted(r)
  <2>1. /\ Cardinality(With(s, "ACTIVE")) \in Nat
        /\ Cardinality(With(s, "ACTIVE_LATER")) \in Nat
    BY <1>1, RegistrationCounts DEF Registration
  <2>2. s.event_count_active
          = Cardinality(With(s, "ACTIVE")) + Cardinality(With(s, "ACTIVE_LATER"))
    BY <1>1 DEF QueuesOK, ActiveCounted
  <2> QED
    BY <1>2, <1>4, <2>1, <2>2 DEF ActiveCounted
<1>9. NeverBoth(r) /\ HeapListed(r) /\ OnlyEvents(r)
  BY <1>1, <1>2, <1>4 DEF QueuesOK, NeverBoth, HeapListed, OnlyEvents, With
<1> QED
  BY <1>4, <1>5, <1>6, <1>7, <1>8, <1>9 DEF Good, QueuesOK, r

\* event_queue_remove_active_later keeps the queues consistent.
LEMMA RemoveLaterGood ==
  ASSUME NEW s, Good(s), NEW c \in Callback,
         "ACTIVE_LATER" \in s.flags[c]
  PROVE  Good(event_queue_remove_active_later(s, c))
<1> DEFINE r == event_queue_remove_active_later(s, c)
<1>1. s \in Queues /\ QueuesOK(s)
  BY DEF Good
<1>2. /\ r.flags = [s.flags EXCEPT ![c] = s.flags[c] \ {"ACTIVE_LATER"}]
      /\ r.activequeues = s.activequeues
      /\ r.active_later_queue = Unlink(s.active_later_queue, c)
      /\ r.timeheap = s.timeheap
      /\ r.event_count = s.event_count - Counted(c)
      /\ r.event_count_active = s.event_count_active - 1
  BY <1>1 DEF event_queue_remove_active_later, Queues
<1>3. r = [s EXCEPT !.flags = r.flags, !.active_later_queue = r.active_later_queue,
                    !.event_count = r.event_count,
                    !.event_count_active = r.event_count_active]
  BY <1>1 DEF event_queue_remove_active_later, Queues
<1> HIDE DEF r
<1>4. /\ With(r, "ACTIVE_LATER") = With(s, "ACTIVE_LATER") \ {c}
      /\ c \in With(s, "ACTIVE_LATER")
      /\ With(r, "ACTIVE") = With(s, "ACTIVE")
      /\ With(r, "INSERTED") = With(s, "INSERTED")
      /\ With(r, "TIMEOUT") = With(s, "TIMEOUT")
      /\ Cardinality(With(r, "ACTIVE_LATER"))
           = Cardinality(With(s, "ACTIVE_LATER")) - 1
      /\ RegistrationsCounted(r)
  <2>1. "ACTIVE_LATER" \in Registration /\ RegistrationsCounted(s)
    BY <1>1 DEF QueuesOK, Registration
  <2> QED
    BY <1>1, <1>2, <2>1, FlagOut
<1>5. r.active_later_queue \in Seq(Callback) /\ LaterListed(r)
  <2>1. /\ s.active_later_queue \in Seq(Callback)
        /\ Lists(s.active_later_queue, With(s, "ACTIVE_LATER"))
    BY <1>1, QueuesFields DEF QueuesOK, LaterListed
  <2> QED
    BY <1>2, <1>4, <2>1, UnlinkLists DEF LaterListed
<1>6. r \in Queues
  <2>1. /\ r.flags \in [Callback -> SUBSET Flag] /\ r.event_count \in Int
        /\ r.event_count_active \in Int
    BY <1>1, <1>2, QueuesFields DEF Flag, Counted
  <2> QED
    BY <1>1, <1>3, <1>5, <2>1 DEF Queues
<1>7. ActiveListed(r)
  BY <1>1, <1>2, <1>4 DEF QueuesOK, ActiveListed
<1>8. ActiveCounted(r)
  <2>1. /\ Cardinality(With(s, "ACTIVE")) \in Nat
        /\ Cardinality(With(s, "ACTIVE_LATER")) \in Nat
    BY <1>1, RegistrationCounts DEF Registration
  <2>2. s.event_count_active
          = Cardinality(With(s, "ACTIVE")) + Cardinality(With(s, "ACTIVE_LATER"))
    BY <1>1 DEF QueuesOK, ActiveCounted
  <2> QED
    BY <1>2, <1>4, <2>1, <2>2 DEF ActiveCounted
<1>9. NeverBoth(r) /\ HeapListed(r) /\ OnlyEvents(r)
  BY <1>1, <1>2, <1>4 DEF QueuesOK, NeverBoth, HeapListed, OnlyEvents, With
<1> QED
  BY <1>4, <1>5, <1>6, <1>7, <1>8, <1>9 DEF Good, QueuesOK, r

\* One iteration of event_queue_make_later_events_active, which leaves the counters.
LEMMA MakeLaterActiveGood ==
  ASSUME NEW s, Good(s), s.active_later_queue # << >>
  PROVE  Good(MakeLaterActive(s))
<1> DEFINE r == MakeLaterActive(s)
           c == Head(s.active_later_queue)
           p == Priority[c]
           A(u, i) == { d \in With(u, "ACTIVE") : Priority[d] = i }
<1>1. /\ s \in Queues /\ QueuesOK(s) /\ c \in Callback /\ p \in Priorities
      /\ c \in With(s, "ACTIVE_LATER")
      /\ Tail(s.active_later_queue) \in Seq(Callback)
      /\ Lists(Tail(s.active_later_queue), With(s, "ACTIVE_LATER") \ {c})
  <2>1. s \in Queues /\ QueuesOK(s)
    BY DEF Good
  <2>2. /\ s.active_later_queue \in Seq(Callback)
        /\ Lists(s.active_later_queue, With(s, "ACTIVE_LATER"))
    BY <2>1, QueuesFields DEF QueuesOK, LaterListed
  <2>3. /\ c \in Callback /\ c \in With(s, "ACTIVE_LATER")
        /\ Tail(s.active_later_queue) \in Seq(Callback)
        /\ Lists(Tail(s.active_later_queue), With(s, "ACTIVE_LATER") \ {c})
    BY <2>2, TailLists
  <2> QED
    BY <2>1, <2>3, QueuesAssumption DEF Priorities
<1>2. /\ r.flags = [s.flags EXCEPT ![c] = (s.flags[c] \ {"ACTIVE_LATER"}) \cup {"ACTIVE"}]
      /\ r.activequeues = [s.activequeues EXCEPT ![p] = Append(s.activequeues[p], c)]
      /\ r.active_later_queue = Tail(s.active_later_queue)
      /\ r.timeheap = s.timeheap
      /\ r.event_count = s.event_count
      /\ r.event_count_active = s.event_count_active
  BY <1>1 DEF MakeLaterActive, Queues
<1>3. r = [s EXCEPT !.flags = r.flags, !.activequeues = r.activequeues,
                    !.active_later_queue = r.active_later_queue]
  BY <1>1 DEF MakeLaterActive, Queues
<1> HIDE DEF r, c
<1>4. /\ With(r, "ACTIVE") = With(s, "ACTIVE") \cup {c}
      /\ With(r, "ACTIVE_LATER") = With(s, "ACTIVE_LATER") \ {c}
      /\ With(r, "INSERTED") = With(s, "INSERTED")
      /\ With(r, "TIMEOUT") = With(s, "TIMEOUT")
      /\ c \notin With(s, "ACTIVE")
  <2>1. s.flags \in [Callback -> SUBSET Flag]
    BY <1>1, QueuesFields
  <2>2. c \notin With(s, "ACTIVE")
    BY <1>1 DEF QueuesOK, NeverBoth
  <2> QED
    BY <1>1, <1>2, <2>1, <2>2 DEF With
<1>5. ASSUME NEW i \in Priorities
      PROVE  r.activequeues[i] \in Seq(Callback) /\ Lists(r.activequeues[i], A(r, i))
  <2>1. /\ s.activequeues[i] \in Seq(Callback) /\ Lists(s.activequeues[i], A(s, i))
        /\ s.activequeues \in [Priorities -> Seq(Callback)]
    BY <1>1, QueuesFields DEF QueuesOK, ActiveListed
  <2>2. CASE i = p
    <3>1. A(r, i) = A(s, i) \cup {c} /\ c \notin A(s, i)
      BY <1>4, <2>2
    <3>2. r.activequeues[i] = Append(s.activequeues[i], c)
      BY <1>2, <2>1, <2>2
    <3> HIDE DEF A
    <3> QED
      BY <1>1, <2>1, <3>1, <3>2, AppendLists
  <2>3. CASE i # p
    <3>1. A(r, i) = A(s, i)
      BY <1>4, <2>3
    <3>2. r.activequeues[i] = s.activequeues[i]
      BY <1>2, <2>1, <2>3
    <3> QED
      BY <2>1, <3>1, <3>2
  <2> QED
    BY <2>2, <2>3
<1>6. r \in Queues
  <2>1. r.flags \in [Callback -> SUBSET Flag]
    BY <1>1, <1>2, QueuesFields DEF Flag
  <2>2. r.activequeues \in [Priorities -> Seq(Callback)]
    BY <1>1, <1>2, <1>5, QueuesFields
  <2>3. r.active_later_queue \in Seq(Callback)
    BY <1>1, <1>2
  <2> QED
    BY <1>1, <1>3, <2>1, <2>2, <2>3 DEF Queues
<1>7. ActiveListed(r)
  BY <1>5 DEF ActiveListed
<1>8. LaterListed(r) /\ NeverBoth(r) /\ HeapListed(r) /\ OnlyEvents(r)
  BY <1>1, <1>2, <1>4 DEF QueuesOK, LaterListed, NeverBoth, HeapListed, OnlyEvents
<1>9. ActiveCounted(r) /\ RegistrationsCounted(r)
  <2> DEFINE a == With(s, "ACTIVE")
             l == With(s, "ACTIVE_LATER")
  <2>1. /\ Cardinality(With(r, "ACTIVE")) = Cardinality(a) + 1
        /\ Cardinality(With(r, "ACTIVE") \ Internal)
             = Cardinality(a \ Internal) + Counted(c)
    BY <1>1, <1>4, CountIn, QueuesFields
  <2>2. /\ Cardinality(With(r, "ACTIVE_LATER")) = Cardinality(l) - 1
        /\ Cardinality(With(r, "ACTIVE_LATER") \ Internal)
             = Cardinality(l \ Internal) - Counted(c)
    BY <1>1, <1>4, CountOut, QueuesFields
  <2>3. /\ Cardinality(a) \in Nat /\ Cardinality(l) \in Nat
        /\ Cardinality(a \ Internal) \in Nat /\ Cardinality(l \ Internal) \in Nat
        /\ Cardinality(With(s, "INSERTED") \ Internal) \in Nat
        /\ Cardinality(With(s, "TIMEOUT") \ Internal) \in Nat
        /\ Counted(c) \in Nat
    BY <1>1, RegistrationCounts DEF Registration, Counted
  <2>4. ActiveCounted(r)
    <3>1. s.event_count_active = Cardinality(a) + Cardinality(l)
      BY <1>1 DEF QueuesOK, ActiveCounted
    <3> HIDE DEF a, l
    <3> QED
      BY <1>2, <2>1, <2>2, <2>3, <3>1 DEF ActiveCounted
  <2>5. RegistrationsCounted(r)
    <3>1. s.event_count = Cardinality(With(s, "INSERTED") \ Internal)
                            + Cardinality(With(s, "TIMEOUT") \ Internal)
                            + Cardinality(a \ Internal) + Cardinality(l \ Internal)
      BY <1>1 DEF QueuesOK, RegistrationsCounted
    <3> DEFINE m(f) == Cardinality(With(r, f) \ Internal)
    <3>2. /\ m("INSERTED") = Cardinality(With(s, "INSERTED") \ Internal)
          /\ m("TIMEOUT") = Cardinality(With(s, "TIMEOUT") \ Internal)
          /\ m("ACTIVE") = Cardinality(a \ Internal) + Counted(c)
          /\ m("ACTIVE_LATER") = Cardinality(l \ Internal) - Counted(c)
      BY <1>4, <2>1, <2>2
    <3>3. SUFFICES r.event_count
                     = m("INSERTED") + m("TIMEOUT") + m("ACTIVE") + m("ACTIVE_LATER")
      BY DEF RegistrationsCounted
    <3> HIDE DEF a, l, m
    <3> QED
      BY <1>2, <2>3, <3>1, <3>2
  <2> QED
    BY <2>4, <2>5
<1> QED
  BY <1>6, <1>7, <1>8, <1>9 DEF Good, QueuesOK, r

\* EVLIST_FINALIZING is no part of what the queues agree on.
LEMMA SetFinalizingGood ==
  ASSUME NEW s, Good(s), NEW c \in Callback
  PROVE  Good(SetFinalizing(s, c))
<1> DEFINE r == SetFinalizing(s, c)
<1>1. s \in Queues /\ QueuesOK(s)
  BY DEF Good
<1>2. /\ r.flags = [s.flags EXCEPT ![c] = s.flags[c] \cup {"FINALIZING"}]
      /\ r = [s EXCEPT !.flags = r.flags]
  BY <1>1 DEF SetFinalizing, Queues
<1> HIDE DEF r
<1>3. /\ r.activequeues = s.activequeues
      /\ r.active_later_queue = s.active_later_queue
      /\ r.timeheap = s.timeheap
      /\ r.event_count = s.event_count
      /\ r.event_count_active = s.event_count_active
  BY <1>1, <1>2 DEF Queues
<1>4. /\ With(r, "INSERTED") = With(s, "INSERTED")
      /\ With(r, "TIMEOUT") = With(s, "TIMEOUT")
      /\ With(r, "ACTIVE") = With(s, "ACTIVE")
      /\ With(r, "ACTIVE_LATER") = With(s, "ACTIVE_LATER")
  BY <1>1, <1>2, QueuesFields DEF With
<1>5. r \in Queues
  <2>1. r.flags \in [Callback -> SUBSET Flag]
    BY <1>1, <1>2, QueuesFields DEF Flag
  <2> QED
    BY <1>1, <1>2, <2>1 DEF Queues
<1> QED
  BY <1>1, <1>3, <1>4, <1>5
     DEF Good, QueuesOK, ActiveListed, LaterListed, NeverBoth, HeapListed, OnlyEvents,
         ActiveCounted, RegistrationsCounted, r

-----------------------------------------------------------------------------
(* The base.                                                               *)

\* What the types do not say of the places of the loop and of the threads.
Located ==
  /\ loop.pc \in {"queue", "count", "callback", "drain", "return", "after"} =>
       base.event_running_priority \in Priorities
  /\ loop.pc \in {"count", "callback", "drain", "return"} => loop.running \in Callback
  /\ \A t \in Thread : th[t].pc # "idle" => th[t].ev \in Event

\* The inductive invariant.
IInv == TypeOK /\ QueuesAlwaysOK /\ Located

-----------------------------------------------------------------------------
(* The functions on the queues.                                            *)

\* The removal from an active queue leaves EVLIST_INSERTED alone.
LEMMA RemovedFlags ==
  ASSUME NEW s, Good(s), NEW c \in Callback
  PROVE  /\ "INSERTED" \in event_queue_remove_active(s, c).flags[c]
              <=> "INSERTED" \in s.flags[c]
         /\ "INSERTED" \in event_queue_remove_active_later(s, c).flags[c]
              <=> "INSERTED" \in s.flags[c]
<1>1. s \in Queues /\ s.flags \in [Callback -> SUBSET Flag]
  BY QueuesFields DEF Good
<1>2. event_queue_remove_active(s, c).flags
        = [s.flags EXCEPT ![c] = s.flags[c] \ {"ACTIVE"}]
  BY <1>1 DEF event_queue_remove_active, Queues
<1>3. event_queue_remove_active_later(s, c).flags
        = [s.flags EXCEPT ![c] = s.flags[c] \ {"ACTIVE_LATER"}]
  BY <1>1 DEF event_queue_remove_active_later, Queues
<1> QED
  BY <1>1, <1>2, <1>3

\* event_del_nolock_ keeps the queues consistent.
LEMMA DelGood ==
  ASSUME NEW s, Good(s), NEW e \in Event
  PROVE  Good(event_del_nolock_(s, e))
<1> DEFINE s1 == IF "TIMEOUT" \in s.flags[e] THEN event_queue_remove_timeout(s, e) ELSE s
           s2 == IF "ACTIVE" \in s.flags[e] THEN event_queue_remove_active(s1, e)
                 ELSE IF "ACTIVE_LATER" \in s.flags[e]
                        THEN event_queue_remove_active_later(s1, e)
                 ELSE s1
<1>1. s.flags \in [Callback -> SUBSET Flag] /\ e \in Callback
  BY QueuesFields DEF Good, Callback
<1>2. Good(s1) /\ \A f : f # "TIMEOUT" => (f \in s1.flags[e] <=> f \in s.flags[e])
  <2>1. CASE "TIMEOUT" \in s.flags[e]
    BY <1>1, <2>1, RemoveTimeoutGood DEF Good, Queues, event_queue_remove_timeout
  <2>2. CASE "TIMEOUT" \notin s.flags[e]
    BY <2>2
  <2> QED
    BY <2>1, <2>2
<1> HIDE DEF s1
<1>4. Good(s2) /\ ("INSERTED" \in s2.flags[e] <=> "INSERTED" \in s.flags[e])
  <2>1. CASE "ACTIVE" \in s.flags[e]
    <3>1. s2 = event_queue_remove_active(s1, e)
      BY <2>1
    <3>2. "INSERTED" \in s2.flags[e] <=> "INSERTED" \in s1.flags[e]
      BY <1>1, <1>2, <3>1, RemovedFlags
    <3> QED
      BY <1>1, <1>2, <2>1, <3>1, <3>2, RemoveActiveGood
  <2>2. CASE "ACTIVE" \notin s.flags[e] /\ "ACTIVE_LATER" \in s.flags[e]
    <3>1. s2 = event_queue_remove_active_later(s1, e)
      BY <2>2
    <3>2. "INSERTED" \in s2.flags[e] <=> "INSERTED" \in s1.flags[e]
      BY <1>1, <1>2, <3>1, RemovedFlags
    <3> QED
      BY <1>1, <1>2, <2>2, <3>1, <3>2, RemoveLaterGood
  <2>3. CASE "ACTIVE" \notin s.flags[e] /\ "ACTIVE_LATER" \notin s.flags[e]
    BY <1>2, <2>3
  <2> QED
    BY <2>1, <2>2, <2>3
<1> HIDE DEF s2
<1>5. event_del_nolock_(s, e)
        = IF "INSERTED" \in s.flags[e] THEN event_queue_remove_inserted(s2, e) ELSE s2
  BY DEF event_del_nolock_, s1, s2
<1> QED
  BY <1>4, <1>5, RemoveInsertedGood

\* event_add_nolock_ keeps the queues consistent, also for a timer that is active.
LEMMA AddGood ==
  ASSUME NEW s, Good(s), NEW e \in Event, NEW tv
  PROVE  Good(event_add_nolock_(s, e, tv))
<1> DEFINE s1 == IF Inserts(s, e) THEN event_queue_insert_inserted(s, e) ELSE s
           s2 == IF "TIMEOUT" \in s.flags[e] THEN event_queue_remove_timeout(s1, e) ELSE s1
           late == "ACTIVE" \in s.flags[e] /\ "EV_TIMEOUT" \in ev[e].res
           s3 == IF late THEN event_queue_remove_active(s2, e) ELSE s2
<1>1. s.flags \in [Callback -> SUBSET Flag] /\ e \in Callback
  BY QueuesFields DEF Good, Callback
<1>2. Good(s1) /\ \A f : f # "INSERTED" => (f \in s1.flags[e] <=> f \in s.flags[e])
  <2>1. CASE Inserts(s, e)
    BY <1>1, <2>1, InsertInsertedGood DEF Inserts, Good, Queues, event_queue_insert_inserted
  <2>2. CASE ~Inserts(s, e)
    BY <2>2
  <2> QED
    BY <2>1, <2>2
<1>3. s1.flags \in [Callback -> SUBSET Flag]
  BY <1>2, QueuesFields DEF Good
<1> HIDE DEF s1
<1>4. /\ Good(s2) /\ "TIMEOUT" \notin s2.flags[e]
      /\ "ACTIVE" \in s2.flags[e] <=> "ACTIVE" \in s.flags[e]
  <2>1. CASE "TIMEOUT" \in s.flags[e]
    BY <1>1, <1>2, <1>3, <2>1, RemoveTimeoutGood DEF Good, Queues, event_queue_remove_timeout
  <2>2. CASE "TIMEOUT" \notin s.flags[e]
    BY <1>2, <2>2
  <2> QED
    BY <2>1, <2>2
<1>5. s2.flags \in [Callback -> SUBSET Flag]
  BY <1>4, QueuesFields DEF Good
<1> HIDE DEF s2
<1>6. Good(s3) /\ "TIMEOUT" \notin s3.flags[e]
  <2>1. CASE late
    <3>1. s3 = event_queue_remove_active(s2, e)
      BY <2>1
    <3>2. "TIMEOUT" \notin s3.flags[e]
      BY <1>1, <1>4, <1>5, <3>1 DEF Good, Queues, event_queue_remove_active
    <3> QED
      BY <1>1, <1>4, <2>1, <3>1, <3>2, RemoveActiveGood
  <2>2. CASE ~late
    BY <1>4, <2>2
  <2> QED
    BY <2>1, <2>2
<1> HIDE DEF s3
<1>7. event_add_nolock_(s, e, tv)
        = IF tv = NoTimeval THEN s1 ELSE event_queue_insert_timeout(s3, e)
  BY DEF event_add_nolock_, s1, s2, s3
<1> QED
  BY <1>2, <1>6, <1>7, InsertTimeoutGood

\* A callback is not on the later queue once it has been taken off it.
LEMMA OffLater ==
  ASSUME NEW s, Good(s), NEW c \in Callback, "ACTIVE_LATER" \in s.flags[c]
  PROVE  LET r == event_queue_remove_active_later(s, c)
         IN  Good(r) /\ "ACTIVE_LATER" \notin r.flags[c]
  BY RemoveLaterGood, QueuesFields DEF Good, Queues, event_queue_remove_active_later

\* event_queue_insert_active, which does nothing for an active callback.
LEMMA InsertActive ==
  ASSUME NEW s, Good(s), NEW c \in Callback, "ACTIVE_LATER" \notin s.flags[c]
  PROVE  Good(event_queue_insert_active(s, c))
<1>1. CASE "ACTIVE" \in s.flags[c]
  BY <1>1 DEF event_queue_insert_active
<1>2. CASE "ACTIVE" \notin s.flags[c]
  BY <1>2, InsertActiveGood
<1> QED
  BY <1>1, <1>2

\* event_callback_activate_nolock_ keeps the queues consistent.
LEMMA ActivateGood ==
  ASSUME NEW s, Good(s), NEW c \in Callback
  PROVE  Good(event_callback_activate_nolock_(s, c))
  BY OffLater, InsertActive DEF event_callback_activate_nolock_

\* event_queue_insert_active_later, which does nothing for an active callback.
LEMMA InsertLater ==
  ASSUME NEW s, Good(s), NEW c \in Callback
  PROVE  Good(event_queue_insert_active_later(s, c))
<1>1. CASE s.flags[c] \cap {"ACTIVE", "ACTIVE_LATER"} # {}
  BY <1>1 DEF event_queue_insert_active_later
<1>2. CASE s.flags[c] \cap {"ACTIVE", "ACTIVE_LATER"} = {}
  BY <1>2, InsertLaterGood
<1> QED
  BY <1>1, <1>2

\* event_callback_cancel_nolock_ keeps the queues consistent.
LEMMA CancelledGood ==
  ASSUME NEW s, Good(s), NEW c \in Callback
  PROVE  Good(Cancelled(s, c))
  BY RemoveActiveGood, RemoveLaterGood DEF Cancelled

\* TAILQ_REMOVE of the callback that event_process_active_single_queue runs.
LEMMA TakenGood ==
  ASSUME Good(q), NEW c \in Callback, "ACTIVE" \in q.flags[c]
  PROVE  Good(Taken(c))
  BY DelGood, RemoveActiveGood DEF Taken

-----------------------------------------------------------------------------
(* The other functions.                                                    *)

\* What only the loop changes in the base.
SameRun(b, n) ==
  /\ n.event_running_priority = b.event_running_priority
  /\ n.th_owner_id = b.th_owner_id
  /\ n.current_event = b.current_event

\* evthread_notify_base changes neither the current event nor its waiters.
LEMMA NotifyTypes ==
  ASSUME NEW b \in BaseFields, NEW a
  PROVE  /\ evthread_notify_base(b, a) \in BaseFields
         /\ SameRun(b, evthread_notify_base(b, a))
         /\ evthread_notify_base(b, a).current_event_waiters = b.current_event_waiters
  BY DEF evthread_notify_base, BaseFields, SameRun

\* gettime and the changes of tv_cache.
LEMMA TimeTypes ==
  ASSUME TypeOK, NEW b \in BaseFields
  PROVE  /\ gettime(b) \in Nat
         /\ clear_time_cache(b) \in BaseFields
         /\ SameRun(b, clear_time_cache(b))
         /\ clear_time_cache(b).current_event_waiters = b.current_event_waiters
         /\ update_time_cache(b) \in BaseFields
         /\ SameRun(b, update_time_cache(b))
         /\ update_time_cache(b).current_event_waiters = b.current_event_waiters
<1>1. clock \in Nat
  BY DEF TypeOK
<1> QED
  BY <1>1 DEF BaseFields, gettime, clear_time_cache, update_time_cache, SameRun,
              Timeval, NoTimeval

\* The part of event_active_nolock_ that sets event_continue.
LEMMA ContinueTypes ==
  ASSUME NEW b \in BaseFields, NEW e
  PROVE  /\ ActiveContinue(b, e) \in BaseFields
         /\ SameRun(b, ActiveContinue(b, e))
         /\ ActiveContinue(b, e).current_event_waiters = b.current_event_waiters
  BY DEF ActiveContinue, BaseFields, SameRun

\* current_event_waiters is incremented.
LEMMA WaitingTypes ==
  ASSUME NEW b \in BaseFields
  PROVE  Waiting(b) \in BaseFields /\ SameRun(b, Waiting(b))
  BY DEF Waiting, BaseFields, SameRun

\* The notification of event_add_nolock_.
LEMMA AddNotifiesTypes ==
  ASSUME NEW s, NEW e, NEW tv, NEW v, NEW b \in BaseFields, NEW a
  PROVE  /\ AddNotifies(s, e, tv, v, b, a) \in BaseFields
         /\ SameRun(b, AddNotifies(s, e, tv, v, b, a))
         /\ AddNotifies(s, e, tv, v, b, a).current_event_waiters = b.current_event_waiters
<1>1. AddNotifies(s, e, tv, v, b, a) \in {b, evthread_notify_base(b, a)}
  BY DEF AddNotifies
<1>2. SameRun(b, b)
  BY DEF SameRun
<1> QED
  BY <1>1, <1>2, NotifyTypes

\* The notification of event_del_nolock_.
LEMMA DelNotifiesTypes ==
  ASSUME NEW e, NEW b \in BaseFields, NEW a
  PROVE  /\ DelNotifies(e, b, a) \in BaseFields
         /\ SameRun(b, DelNotifies(e, b, a))
         /\ DelNotifies(e, b, a).current_event_waiters = b.current_event_waiters
<1>1. DelNotifies(e, b, a) \in {b, evthread_notify_base(b, a)}
  BY DEF DelNotifies
<1>2. SameRun(b, b)
  BY DEF SameRun
<1> QED
  BY <1>1, <1>2, NotifyTypes

\* The fields of an event that event_add_nolock_ sets.
LEMMA AddFieldsTypes ==
  ASSUME TypeOK, NEW e \in Callback, NEW tv \in Timeval, NEW absolute \in BOOLEAN,
         NEW now \in Nat
  PROVE  AddFields(e, tv, absolute, now) \in [Callback -> CallbackFields]
<1>1. ev \in [Callback -> CallbackFields]
  BY DEF TypeOK
<1>2. CASE tv = NoTimeval
  BY <1>1, <1>2 DEF AddFields
<1>3. CASE tv # NoTimeval
  <2> DEFINE t == IF absolute THEN tv ELSE now + tv
             i == IF ev[e].closure = "persist" /\ ~absolute THEN tv ELSE ev[e].io_timeout
  <2>1. t \in Nat /\ i \in Nat
    BY <1>1, <1>3 DEF CallbackFields, Timeval
  <2>2. AddFields(e, tv, absolute, now)
          = [ev EXCEPT ![e] = [ev[e] EXCEPT !.timeout = t, !.io_timeout = i]]
    BY <1>1, <1>3 DEF AddFields, CallbackFields
  <2> HIDE DEF t, i
  <2>3. [ev[e] EXCEPT !.timeout = t, !.io_timeout = i] \in CallbackFields
    BY <1>1, <2>1 DEF CallbackFields
  <2> QED
    BY <1>1, <2>2, <2>3
<1> QED
  BY <1>2, <1>3

\* ev_res after event_active_nolock_.
LEMMA ActiveTypes ==
  ASSUME TypeOK, NEW s, NEW e \in Callback, NEW res \in SUBSET Result
  PROVE  ActiveResult(s, e, res) \in [Callback -> CallbackFields]
  BY DEF TypeOK, ActiveResult, CallbackFields

\* ev_ncalls after event_active_nolock_.
LEMMA ActiveCallsTypes ==
  ASSUME NEW v \in [Callback -> CallbackFields], NEW e \in Callback, NEW n \in Nat
  PROVE  ActiveCalls(v, e, n) \in [Callback -> CallbackFields]
  BY DEF ActiveCalls, CallbackFields

\* Where the loop is.
SameLoop(l, m) == m.pc = l.pc /\ m.running = l.running /\ m.finalizer = l.finalizer

\* *ev_pncalls = 0 leaves the loop where it is.
LEMMA AbortTypes ==
  ASSUME TypeOK, NEW e, NEW l \in AbortLoop(e)
  PROVE  l \in LoopLocals /\ SameLoop(loop, l)
<1>1. loop \in LoopLocals /\ loop.ncalls \in Nat
  BY DEF TypeOK, LoopLocals
<1>2. PICK n \in Nat : l = [loop EXCEPT !.ncalls = n]
  <2>1. l = loop \/ \E n \in {0, Min2(1, loop.ncalls), loop.ncalls} : l = [loop EXCEPT !.ncalls = n]
    BY DEF AbortLoop
  <2>2. loop = [loop EXCEPT !.ncalls = loop.ncalls] /\ Min2(1, loop.ncalls) \in Nat
    BY <1>1 DEF LoopLocals, Min2
  <2> QED
    BY <1>1, <2>1, <2>2
<1> QED
  BY <1>1, <1>2 DEF LoopLocals, SameLoop

\* The history of event_add.
LEMMA AskedTypes ==
  ASSUME TypeOK, NEW e \in Event, NEW tv
  PROVE  Asked(e, tv) \in History
  BY DEF TypeOK, Asked, History, Callback

-----------------------------------------------------------------------------
(* The API keeps the invariant.                                            *)

\* What a call of the API guarantees of everything but the threads.
ApiKeeps ==
  /\ Good(q')
  /\ ev' \in [Callback -> CallbackFields]
  /\ base' \in BaseFields /\ SameRun(base, base')
  /\ loop' \in LoopLocals /\ SameLoop(loop, loop')
  /\ hist' \in History
  /\ clock' = clock

ThreadsKeep ==
  /\ th' \in [Thread -> ThreadLocals]
  /\ \A t \in Thread : th'[t].pc # "idle" => th'[t].ev \in Event

\* The invariant, taken apart.
LEMMA Parts ==
  ASSUME IInv
  PROVE  /\ TypeOK /\ Good(q)
         /\ ev \in [Callback -> CallbackFields]
         /\ base \in BaseFields /\ SameRun(base, base)
         /\ loop \in LoopLocals /\ SameLoop(loop, loop)
         /\ th \in [Thread -> ThreadLocals]
         /\ \A t \in Thread : th[t].pc # "idle" => th[t].ev \in Event
         /\ clock \in Nat
         /\ hist \in History
         /\ Event \subseteq Callback /\ Deferred \subseteq Callback
  BY DEF IInv, TypeOK, QueuesAlwaysOK, Located, Good, SameRun, SameLoop, Callback

\* A call that keeps what is listed above keeps the invariant.
LEMMA ApiStep ==
  ASSUME IInv, ApiKeeps, ThreadsKeep
  PROVE  IInv'
<1>1. TypeOK'
  BY Parts DEF ApiKeeps, ThreadsKeep, Good, TypeOK
<1>2. QueuesAlwaysOK'
  BY DEF ApiKeeps, Good, QueuesAlwaysOK
<1>3. Located'
  BY DEF IInv, Located, ApiKeeps, ThreadsKeep, SameRun, SameLoop
<1> QED
  BY <1>1, <1>2, <1>3 DEF IInv

\* No thread moves.
LEMMA ThreadsSame ==
  ASSUME IInv, UNCHANGED th
  PROVE  ThreadsKeep
  BY Parts DEF ThreadsKeep

\* A thread begins to wait.
LEMMA CondWaitThreads ==
  ASSUME IInv, NEW t, NEW op \in {"add", "del", "active", "finalize"},
         NEW e \in Event, NEW tv \in Timeval, NEW n \in Nat,
         CondWait(t, op, e, tv, n)
  PROVE  ThreadsKeep
  BY Parts DEF CondWait, ThreadsKeep, ThreadLocals

\* A thread returns from its call.
LEMMA IdleThreads ==
  ASSUME IInv, NEW t, th' = [th EXCEPT ![t] = Idle]
  PROVE  ThreadsKeep
  BY Parts DEF Idle, ThreadsKeep, ThreadLocals, Timeval, NoTimeval

\* A thread returns from event_del.
LEMMA DeletedThreads ==
  ASSUME IInv, NEW t, NEW e \in Event, th' = Deleted(t, e)
  PROVE  ThreadsKeep
  BY Parts DEF Deleted, Idle, ThreadsKeep, ThreadLocals, Timeval, NoTimeval

\* event_add_nolock_ after the wait.
LEMMA AddNowKeeps ==
  ASSUME IInv, NEW a, NEW e \in Event, NEW tv \in Timeval, AddNow(a, e, tv),
         UNCHANGED clock
  PROVE  ApiKeeps
<1> DEFINE v == AddFields(e, tv, FALSE, gettime(base))
<1>1. gettime(base) \in Nat
  BY Parts, TimeTypes
<1>2. ev' \in [Callback -> CallbackFields]
  BY <1>1, Parts, AddFieldsTypes DEF AddNow
<1>3. Good(q')
  BY Parts, AddGood DEF AddNow
<1>4. base' \in BaseFields /\ SameRun(base, base')
  BY Parts, AddNotifiesTypes DEF AddNow
<1>5. loop' \in LoopLocals /\ SameLoop(loop, loop')
  <2>1. loop' \in AbortLoop(e) \/ loop' = loop
    BY DEF AddNow
  <2> QED
    BY <2>1, Parts, AbortTypes
<1>6. hist' \in History
  BY Parts, AskedTypes DEF AddNow
<1> QED
  BY <1>2, <1>3, <1>4, <1>5, <1>6 DEF ApiKeeps

\* event_del_nolock_ after the wait.
LEMMA DelNowKeeps ==
  ASSUME IInv, NEW a, NEW e \in Event, DelNow(a, e), UNCHANGED clock
  PROVE  ApiKeeps
<1>1. Good(q')
  BY Parts, DelGood DEF DelNow
<1>2. base' \in BaseFields /\ SameRun(base, base')
  BY Parts, DelNotifiesTypes DEF DelNow
<1>3. loop' \in LoopLocals /\ SameLoop(loop, loop')
  BY Parts, AbortTypes DEF DelNow
<1>4. hist' \in History
  BY Parts DEF DelNow, History
<1> QED
  BY <1>1, <1>2, <1>3, <1>4, Parts DEF ApiKeeps, DelNow

\* event_active_nolock_ after the wait.
LEMMA ActivateNowKeeps ==
  ASSUME IInv, NEW a, NEW e \in Event, NEW n \in Nat,
         NEW v \in [Callback -> CallbackFields],
         NEW b \in BaseFields, SameRun(base, b),
         ActivateNow(a, e, n, v, b), UNCHANGED <<loop, clock>>
  PROVE  ApiKeeps
<1>1. Good(q')
  BY Parts, ActivateGood DEF ActivateNow
<1>2. ev' \in [Callback -> CallbackFields]
  BY Parts, ActiveCallsTypes DEF ActivateNow
<1>3. base' \in BaseFields /\ SameRun(base, base')
  <2>1. base' \in {b, evthread_notify_base(b, a)}
    BY DEF ActivateNow
  <2> QED
    BY <2>1, NotifyTypes DEF SameRun
<1>4. hist' \in History
  BY Parts DEF ActivateNow, History
<1> QED
  BY <1>1, <1>2, <1>3, <1>4, Parts DEF ApiKeeps

\* event_finalize_nolock_ after the wait.
LEMMA FinalizeNowKeeps ==
  ASSUME IInv, NEW a, NEW e \in Event, NEW s, Good(s),
         NEW v \in [Callback -> CallbackFields],
         NEW b \in BaseFields, SameRun(base, b),
         FinalizeNow(a, e, s, v, b)
  PROVE  /\ Good(q')
         /\ ev' \in [Callback -> CallbackFields]
         /\ base' \in BaseFields /\ SameRun(base, base')
<1>1. Good(q')
  <2>1. e \in Callback
    BY Parts
  <2> QED
    BY <2>1, ActivateGood, SetFinalizingGood DEF FinalizeNow
<1>2. ev' \in [Callback -> CallbackFields]
  BY Parts, ActiveCallsTypes DEF FinalizeNow
<1>3. base' \in BaseFields /\ SameRun(base, base')
  <2>1. base' \in {b, evthread_notify_base(b, a)}
    BY DEF FinalizeNow
  <2> QED
    BY <2>1, NotifyTypes DEF SameRun
<1> QED
  BY <1>1, <1>2, <1>3

-----------------------------------------------------------------------------
(* The calls of the API, one by one.                                       *)

\* event_add keeps the invariant.
LEMMA AddStep ==
  ASSUME IInv, NEW a, NEW e \in Event, NEW tv \in Timeval, event_add(a, e, tv)
  PROVE  IInv'
<1>1. CASE Kind[e] = "signal" /\ Running(a, e)
  <2>1. CondWait(a, "add", e, tv, 0) /\ base' = Waiting(base)
        /\ UNCHANGED <<q, ev, loop, hist, clock>>
    BY <1>1 DEF event_add
  <2>2. ThreadsKeep
    BY <2>1, CondWaitThreads
  <2>3. ApiKeeps
    BY <2>1, Parts, WaitingTypes DEF ApiKeeps
  <2> QED
    BY <2>2, <2>3, ApiStep
<1>2. CASE ~(Kind[e] = "signal" /\ Running(a, e))
  <2>1. AddNow(a, e, tv) /\ UNCHANGED <<th, clock>>
    BY <1>2 DEF event_add
  <2> QED
    BY <2>1, AddNowKeeps, ThreadsSame, ApiStep
<1> QED
  BY <1>1, <1>2

\* event_remove_timer keeps the invariant.
LEMMA RemoveTimerStep ==
  ASSUME IInv, NEW a, NEW e \in Event, event_remove_timer(a, e)
  PROVE  IInv'
<1>1. Good(q')
  BY Parts, RemoveTimeoutGood DEF event_remove_timer
<1>2. ev' \in [Callback -> CallbackFields] /\ hist' \in History
  <2>1. hist' \in History
    BY Parts DEF event_remove_timer, History
  <2>2. CASE Kind[e] = "signal"
    <3>1. ev' = [ev EXCEPT ![e].ncalls = 0]
      BY <2>2 DEF event_remove_timer
    <3> QED
      BY <2>1, <3>1, Parts DEF CallbackFields
  <2>3. CASE Kind[e] # "signal"
    <3>1. ev' = [ev EXCEPT ![e].io_timeout = 0]
      BY <2>3 DEF event_remove_timer
    <3> QED
      BY <2>1, <3>1, Parts DEF CallbackFields
  <2> QED
    BY <2>2, <2>3
<1>3. ApiKeeps
  BY <1>1, <1>2, Parts DEF event_remove_timer, ApiKeeps
<1> QED
  BY <1>3, ThreadsSame, ApiStep DEF event_remove_timer

\* event_del, event_del_block and event_del_noblock keep the invariant.
LEMMA DelStep ==
  ASSUME IInv, NEW a, NEW e \in Event, NEW f, event_del(a, e, f)
  PROVE  IInv'
<1>1. CASE f # "event_del_noblock" /\ Running(a, e)
             /\ (f = "event_del_block" \/ e \notin EvFinalize)
  <2>1. CondWait(a, "del", e, NoTimeval, 0) /\ base' = Waiting(base)
        /\ UNCHANGED <<q, ev, loop, hist, clock>>
    BY <1>1 DEF event_del
  <2>2. ThreadsKeep
    BY <2>1, CondWaitThreads DEF Timeval
  <2>3. ApiKeeps
    BY <2>1, Parts, WaitingTypes DEF ApiKeeps
  <2> QED
    BY <2>2, <2>3, ApiStep
<1>2. CASE ~(f # "event_del_noblock" /\ Running(a, e)
               /\ (f = "event_del_block" \/ e \notin EvFinalize))
  <2>1. DelNow(a, e) /\ th' \in {th, Deleted(a, e)} /\ UNCHANGED clock
    BY <1>2 DEF event_del
  <2>2. ThreadsKeep
    BY <2>1, ThreadsSame, DeletedThreads
  <2> QED
    BY <2>1, <2>2, DelNowKeeps, ApiStep
<1> QED
  BY <1>1, <1>2

\* event_active keeps the invariant.
LEMMA ActiveStep ==
  ASSUME IInv, NEW a, NEW e \in Event, NEW n \in Nat, event_active(a, e, n)
  PROVE  IInv'
<1> DEFINE v == ActiveResult(q, e, IF Kind[e] = "signal" THEN {"EV_SIGNAL"} ELSE {"EV_READ"})
           b == ActiveContinue(base, e)
<1>1. v \in [Callback -> CallbackFields]
  <2>1. (IF Kind[e] = "signal" THEN {"EV_SIGNAL"} ELSE {"EV_READ"}) \in SUBSET Result
    BY DEF Result
  <2> QED
    BY <2>1, Parts, ActiveTypes
<1>2. b \in BaseFields /\ SameRun(base, b)
  BY Parts, ContinueTypes
<1>3. UNCHANGED <<loop, clock>>
  BY DEF event_active
<1>4. CASE "ACTIVE" \in q.flags[e]
  <2>1. ev' = v /\ UNCHANGED <<q, base, th, hist>>
    BY <1>4 DEF event_active
  <2>2. ApiKeeps
    BY <1>1, <1>3, <2>1, Parts DEF ApiKeeps
  <2> QED
    BY <2>1, <2>2, ThreadsSame, ApiStep
<1>5. CASE "ACTIVE" \notin q.flags[e] /\ Kind[e] = "signal" /\ Running(a, e)
  <2>1. CondWait(a, "active", e, NoTimeval, n) /\ ev' = v /\ base' = Waiting(b)
        /\ UNCHANGED <<q, hist>>
    BY <1>5 DEF event_active
  <2>2. ThreadsKeep
    BY <2>1, CondWaitThreads DEF Timeval
  <2>3. base' \in BaseFields /\ SameRun(base, base')
    BY <1>2, <2>1, WaitingTypes DEF SameRun
  <2>4. ApiKeeps
    BY <1>1, <1>3, <2>1, <2>3, Parts DEF ApiKeeps
  <2> QED
    BY <2>2, <2>4, ApiStep
<1>6. CASE "ACTIVE" \notin q.flags[e] /\ ~(Kind[e] = "signal" /\ Running(a, e))
  <2>1. ActivateNow(a, e, n, v, b) /\ UNCHANGED th
    BY <1>6 DEF event_active
  <2> HIDE DEF v, b
  <2> QED
    BY <1>1, <1>2, <1>3, <2>1, ActivateNowKeeps, ThreadsSame, ApiStep
<1> QED
  BY <1>4, <1>5, <1>6

\* event_active_later_ keeps the invariant.
LEMMA ActiveLaterStep ==
  ASSUME IInv, NEW a, NEW e \in Event, event_active_later_(a, e)
  PROVE  IInv'
<1>1. ev' \in [Callback -> CallbackFields]
  <2>1. {"EV_READ"} \in SUBSET Result
    BY DEF Result
  <2> QED
    BY <2>1, Parts, ActiveTypes DEF event_active_later_
<1>2. Good(q')
  BY Parts, InsertLater DEF event_active_later_
<1>3. base' \in BaseFields /\ SameRun(base, base')
  BY Parts, NotifyTypes DEF event_active_later_
<1>4. hist' \in History
  BY Parts DEF event_active_later_, History
<1>5. ApiKeeps
  BY <1>1, <1>2, <1>3, <1>4, Parts DEF event_active_later_, ApiKeeps
<1> QED
  BY <1>5, ThreadsSame, ApiStep DEF event_active_later_

\* event_finalize keeps the invariant.
LEMMA FinalizeStep ==
  ASSUME IInv, NEW a, NEW e \in Event, event_finalize(a, e)
  PROVE  IInv'
<1> DEFINE s == event_del_nolock_(q, e)
           v == [ev EXCEPT ![e].closure = "finalize", ![e].res = {"EV_FINALIZE"}]
           b == ActiveContinue(DelNotifies(e, base, a), e)
<1>1. Good(s)
  BY Parts, DelGood
<1>2. v \in [Callback -> CallbackFields]
  BY Parts DEF CallbackFields, Closure, Result
<1>3. b \in BaseFields /\ SameRun(base, b)
  BY Parts, DelNotifiesTypes, ContinueTypes DEF SameRun
<1>4. loop' \in LoopLocals /\ SameLoop(loop, loop')
  BY Parts, AbortTypes DEF event_finalize
<1>5. hist' \in History
  BY Parts DEF event_finalize, History
<1>6. UNCHANGED clock
  BY DEF event_finalize
<1>7. CASE Kind[e] = "signal" /\ Running(a, e)
  <2>1. CondWait(a, "finalize", e, NoTimeval, 1)
        /\ q' = s /\ ev' = v /\ base' = Waiting(b)
    BY <1>7 DEF event_finalize
  <2> HIDE DEF s, v, b
  <2>2. ThreadsKeep
    BY <2>1, CondWaitThreads DEF Timeval
  <2>3. base' \in BaseFields /\ SameRun(base, base')
    BY <1>3, <2>1, WaitingTypes DEF SameRun
  <2>4. ApiKeeps
    BY <1>1, <1>2, <1>4, <1>5, <1>6, <2>1, <2>3 DEF ApiKeeps
  <2> QED
    BY <2>2, <2>4, ApiStep
<1>8. CASE ~(Kind[e] = "signal" /\ Running(a, e))
  <2>1. FinalizeNow(a, e, s, v, b) /\ UNCHANGED th
    BY <1>8 DEF event_finalize
  <2> HIDE DEF s, v, b
  <2>2. Good(q') /\ ev' \in [Callback -> CallbackFields]
        /\ base' \in BaseFields /\ SameRun(base, base')
    BY <1>1, <1>2, <1>3, <2>1, FinalizeNowKeeps
  <2>3. ApiKeeps
    BY <1>4, <1>5, <1>6, <2>2 DEF ApiKeeps
  <2> QED
    BY <2>1, <2>3, ThreadsSame, ApiStep
<1> QED
  BY <1>7, <1>8

\* The functions on deferred callbacks keep the invariant.
LEMMA DeferredStep ==
  ASSUME IInv, NEW a, NEW c \in Deferred,
         \/ event_deferred_cb_schedule_(a, c)
         \/ event_deferred_cb_cancel_(a, c)
         \/ event_callback_finalize_(a, c)
  PROVE  IInv'
<1>1. CASE event_deferred_cb_schedule_(a, c)
  <2>1. Good(q')
    BY <1>1, Parts, InsertLater, ActivateGood DEF event_deferred_cb_schedule_
  <2>2. base' \in BaseFields /\ SameRun(base, base')
    <3> DEFINE n == [base EXCEPT !.n_deferreds_queued = @ + 1]
    <3>1. n \in BaseFields /\ SameRun(base, n)
      BY Parts DEF BaseFields, SameRun
    <3>2. base' \in {base, n, evthread_notify_base(base, a), evthread_notify_base(n, a)}
      BY <1>1 DEF event_deferred_cb_schedule_
    <3> HIDE DEF n
    <3> QED
      BY <3>1, <3>2, Parts, NotifyTypes DEF SameRun
  <2>3. hist' \in History
    BY <1>1, Parts DEF event_deferred_cb_schedule_, History
  <2>4. ApiKeeps
    BY <1>1, <2>1, <2>2, <2>3, Parts DEF event_deferred_cb_schedule_, ApiKeeps
  <2> QED
    BY <1>1, <2>4, ThreadsSame, ApiStep DEF event_deferred_cb_schedule_
<1>2. CASE event_deferred_cb_cancel_(a, c)
  <2>1. Good(q')
    BY <1>2, Parts, CancelledGood DEF event_deferred_cb_cancel_
  <2>2. hist' \in History
    BY <1>2, Parts DEF event_deferred_cb_cancel_, History
  <2>3. ApiKeeps
    BY <1>2, <2>1, <2>2, Parts DEF event_deferred_cb_cancel_, ApiKeeps
  <2> QED
    BY <1>2, <2>3, ThreadsSame, ApiStep DEF event_deferred_cb_cancel_
<1>3. CASE event_callback_finalize_(a, c)
  <2>1. Good(q')
    <3>1. c \in Callback
      BY Parts
    <3> QED
      BY <1>3, <3>1, Parts, CancelledGood, ActivateGood, SetFinalizingGood
         DEF event_callback_finalize_
  <2>2. hist' \in History /\ ev' \in [Callback -> CallbackFields]
    <3>1. hist' \in History
      BY <1>3, Parts DEF event_callback_finalize_, History
    <3>2. ev' \in [Callback -> CallbackFields]
      BY <1>3, Parts DEF event_callback_finalize_, CallbackFields, Closure
    <3> QED
      BY <3>1, <3>2
  <2>3. base' \in BaseFields /\ SameRun(base, base')
    BY <1>3, Parts, NotifyTypes DEF event_callback_finalize_
  <2>4. ApiKeeps
    BY <1>3, <2>1, <2>2, <2>3, Parts DEF event_callback_finalize_, ApiKeeps
  <2> QED
    BY <1>3, <2>4, ThreadsSame, ApiStep DEF event_callback_finalize_
<1> QED
  BY <1>1, <1>2, <1>3

\* event_base_loopexit keeps the invariant.
LEMMA LoopExitStep ==
  ASSUME IInv, NEW a, NEW tv \in Timeval, event_base_loopexit(a, tv)
  PROVE  IInv'
<1>1. ExitEv \in Event
  BY BaseAssumption
<1>2. UNCHANGED <<loop, th, clock>>
  BY DEF event_base_loopexit
<1>3. CASE tv \in {NoTimeval, 0}
  <2> DEFINE v == ActiveResult(q, ExitEv, {"EV_TIMEOUT"})
             b == ActiveContinue(base, ExitEv)
  <2>1. ActivateNow(a, ExitEv, 1, v, b)
    BY <1>3 DEF event_base_loopexit
  <2>2. v \in [Callback -> CallbackFields]
    <3>1. {"EV_TIMEOUT"} \in SUBSET Result
      BY DEF Result
    <3> QED
      BY <1>1, <3>1, Parts, ActiveTypes
  <2>3. b \in BaseFields /\ SameRun(base, b)
    BY Parts, ContinueTypes
  <2> HIDE DEF v, b
  <2>4. ApiKeeps
    BY <1>1, <1>2, <2>1, <2>2, <2>3, ActivateNowKeeps
  <2> QED
    BY <1>2, <2>4, ThreadsSame, ApiStep
<1>4. CASE tv \notin {NoTimeval, 0}
  <2> DEFINE v == AddFields(ExitEv, tv, FALSE, gettime(base))
  <2>1. /\ ev' = v
        /\ q' = event_add_nolock_(q, ExitEv, tv)
        /\ base' = AddNotifies(q, ExitEv, tv, v, base, a)
        /\ hist' = Asked(ExitEv, tv)
    BY <1>4 DEF event_base_loopexit
  <2>2. v \in [Callback -> CallbackFields]
    BY <1>1, Parts, TimeTypes, AddFieldsTypes
  <2> HIDE DEF v
  <2>3. Good(q')
    BY <1>1, <2>1, Parts, AddGood
  <2>4. base' \in BaseFields /\ SameRun(base, base')
    BY <2>1, Parts, AddNotifiesTypes
  <2>5. hist' \in History
    BY <1>1, <2>1, Parts, AskedTypes
  <2>6. ApiKeeps
    BY <1>2, <2>1, <2>2, <2>3, <2>4, <2>5, Parts DEF ApiKeeps
  <2> QED
    BY <1>2, <2>6, ThreadsSame, ApiStep
<1> QED
  BY <1>3, <1>4

\* The calls that change only the base keep the invariant.
LEMMA BaseCallStep ==
  ASSUME IInv, NEW a,
         \/ event_base_loopbreak(a) \/ event_base_loopcontinue(a)
         \/ event_base_add_virtual_(a) \/ event_base_del_virtual_(a)
  PROVE  IInv'
<1>1. UNCHANGED <<q, ev, loop, th, clock, hist>>
  BY DEF event_base_loopbreak, event_base_loopcontinue, event_base_add_virtual_,
         event_base_del_virtual_
<1>2. base' \in BaseFields /\ SameRun(base, base')
  <2>1. CASE event_base_loopbreak(a)
    <3>1. [base EXCEPT !.event_break = TRUE] \in BaseFields
          /\ SameRun(base, [base EXCEPT !.event_break = TRUE])
      BY Parts DEF BaseFields, SameRun
    <3> QED
      BY <2>1, <3>1, NotifyTypes DEF event_base_loopbreak, SameRun
  <2>2. CASE event_base_loopcontinue(a)
    <3>1. [base EXCEPT !.event_continue = TRUE] \in BaseFields
          /\ SameRun(base, [base EXCEPT !.event_continue = TRUE])
      BY Parts DEF BaseFields, SameRun
    <3> QED
      BY <2>2, <3>1, NotifyTypes DEF event_base_loopcontinue, SameRun
  <2>3. CASE event_base_add_virtual_(a)
    BY <2>3, Parts DEF event_base_add_virtual_, BaseFields, SameRun
  <2>4. CASE event_base_del_virtual_(a)
    <3> DEFINE b == [base EXCEPT !.virtual_event_count = @ - 1]
    <3>1. b \in BaseFields /\ SameRun(base, b)
      BY <2>4, Parts DEF event_base_del_virtual_, BaseFields, SameRun
    <3>2. base' \in {b, evthread_notify_base(b, a)}
      BY <2>4 DEF event_base_del_virtual_
    <3> HIDE DEF b
    <3> QED
      BY <3>1, <3>2, NotifyTypes DEF SameRun
  <2> QED
    BY <2>1, <2>2, <2>3, <2>4
<1>3. ApiKeeps
  BY <1>1, <1>2, Parts DEF ApiKeeps
<1> QED
  BY <1>1, <1>3, ThreadsSame, ApiStep

-----------------------------------------------------------------------------
(* The threads.                                                            *)

\* A thread that goes on after its wait keeps the invariant.
LEMMA ResumeStep ==
  ASSUME IInv, NEW t \in Thread, ThreadResume(t)
  PROVE  IInv'
<1> DEFINE e == th[t].ev
<1>1. e \in Event /\ th[t].tv \in Timeval /\ th[t].n \in Nat
  <2>1. th[t] \in ThreadLocals /\ th[t].pc = "woken"
    BY Parts DEF ThreadResume
  <2> QED
    BY <2>1, Parts DEF ThreadLocals
<1>2. UNCHANGED clock
  BY DEF ThreadResume
<1>3. CASE th[t].op = "del" /\ DelNow(t, e) /\ th' = Deleted(t, e)
  BY <1>1, <1>2, <1>3, DelNowKeeps, DeletedThreads, ApiStep
<1>4. CASE AddNow(t, e, th[t].tv) /\ th' = [th EXCEPT ![t] = Idle]
  BY <1>1, <1>2, <1>4, AddNowKeeps, IdleThreads, ApiStep
<1>5. CASE ActivateNow(t, e, th[t].n, ev, base) /\ th' = [th EXCEPT ![t] = Idle]
           /\ UNCHANGED loop
  BY <1>1, <1>2, <1>5, Parts, ActivateNowKeeps, IdleThreads, ApiStep
<1>6. CASE FinalizeNow(t, e, q, ev, base) /\ th' = [th EXCEPT ![t] = Idle]
           /\ UNCHANGED <<loop, hist>>
  <2>1. Good(q') /\ ev' \in [Callback -> CallbackFields]
        /\ base' \in BaseFields /\ SameRun(base, base')
    BY <1>1, <1>6, Parts, FinalizeNowKeeps
  <2>2. ApiKeeps
    BY <1>2, <1>6, <2>1, Parts DEF ApiKeeps
  <2> QED
    BY <1>6, <2>2, IdleThreads, ApiStep
<1> QED
  BY <1>3, <1>4, <1>5, <1>6 DEF ThreadResume

\* A thread that goes on after event_del keeps the invariant.
LEMMA IdleStep ==
  ASSUME IInv, NEW t \in Thread, ThreadIdle(t)
  PROVE  IInv'
<1>1. ApiKeeps
  BY Parts DEF ThreadIdle, ApiKeeps
<1> QED
  BY <1>1, IdleThreads, ApiStep DEF ThreadIdle

-----------------------------------------------------------------------------
(* The steps of event_base_loop.                                           *)

\* A set of natural numbers has a least element.
LEMMA LeastNat ==
  ASSUME NEW T \in SUBSET Nat, T # {}
  PROVE  \E m \in T : \A n \in T : m <= n
<1>1. PICK m \in T : \A n \in T : ~ (<<n, m>> \in OpToRel(<, Nat))
  BY NatLessThanWellFounded, WFMin
<1>2. \A n \in T : ~ (n < m)
  BY <1>1 DEF OpToRel
<1> QED
  BY <1>2

\* A heap that is not empty has a top.
LEMMA EarliestExists ==
  ASSUME NEW S \in SUBSET Event, S # {}, NEW v \in [Callback -> CallbackFields]
  PROVE  \E e \in S : e \in Earliest(S, v)
<1> DEFINE T == { v[e].timeout : e \in S }
<1>1. T \in SUBSET Nat /\ T # {}
  BY DEF CallbackFields, Callback
<1>2. PICK m \in T : \A n \in T : m <= n
  BY <1>1, LeastNat
<1> QED
  BY <1>2 DEF Earliest

\* timeout_next gives no time or a natural number.
LEMMA TimeoutNextType ==
  ASSUME IInv
  PROVE  timeout_next \in Timeval
<1>1. CASE q.timeheap = {}
  BY <1>1 DEF timeout_next, Timeval
<1>2. CASE q.timeheap # {}
  <2> DEFINE top == CHOOSE e \in Earliest(q.timeheap, ev) : TRUE
  <2>1. q.timeheap \in SUBSET Event /\ ev \in [Callback -> CallbackFields]
    BY Parts, QueuesFields DEF Good
  <2>2. top \in Callback
    BY <1>2, <2>1, EarliestExists DEF Earliest, Callback
  <2>3. ev[top].timeout \in Nat
    BY <2>1, <2>2 DEF CallbackFields
  <2>4. gettime(base) \in Nat
    BY Parts, TimeTypes
  <2> HIDE DEF top
  <2>5. Max2(0, ev[top].timeout - gettime(base)) \in Nat
    BY <2>3, <2>4 DEF Max2
  <2>6. timeout_next = Max2(0, ev[top].timeout - gettime(base))
    BY <1>2 DEF timeout_next, top
  <2> QED
    BY <2>5, <2>6 DEF Timeval
<1> QED
  BY <1>1, <1>2

\* The scan of event_process_active over the queues ends.
LEMMA FirstQueueType ==
  ASSUME IInv, NEW i \in 0 .. NPriorities
  PROVE  FirstQueue(i) \in i .. NPriorities
<1> DEFINE T == { j \in i .. NPriorities : j = NPriorities \/ q.activequeues[j] # << >> }
<1>1. NPriorities \in Nat
  BY QueuesAssumption
<1>2. T \in SUBSET Nat /\ NPriorities \in T
  BY <1>1
<1>3. PICK m \in T : \A n \in T : m <= n
  BY <1>2, LeastNat
<1>4. \A k \in i .. m - 1 : q.activequeues[k] = << >>
  BY <1>1, <1>2, <1>3
<1> QED
  BY <1>3, <1>4 DEF FirstQueue

\* The callback at the head of an active queue.
LEMMA HeadActive ==
  ASSUME IInv, NEW i \in Priorities, q.activequeues[i] # << >>
  PROVE  /\ Head(q.activequeues[i]) \in Callback
         /\ "ACTIVE" \in q.flags[Head(q.activequeues[i])]
<1>1. /\ q.activequeues[i] \in Seq(Callback)
      /\ Lists(q.activequeues[i], { c \in With(q, "ACTIVE") : Priority[c] = i })
  BY Parts, QueuesFields DEF Good, QueuesOK, ActiveListed
<1>2. /\ Head(q.activequeues[i]) \in Callback
      /\ Head(q.activequeues[i]) \in { c \in With(q, "ACTIVE") : Priority[c] = i }
  BY <1>1, TailLists
<1> QED
  BY <1>2 DEF With

\* What a step of the loop is to guarantee.
LoopKeeps ==
  /\ Good(q')
  /\ ev' \in [Callback -> CallbackFields]
  /\ base' \in BaseFields
  /\ loop' \in LoopLocals
  /\ hist' \in History
  /\ clock' = clock
  /\ loop'.pc \in {"queue", "count", "callback", "drain", "return", "after"} =>
       base'.event_running_priority \in Priorities
  /\ loop'.pc \in {"count", "callback", "drain", "return"} => loop'.running \in Callback

\* A step of the loop that keeps what is listed above keeps the invariant.
LEMMA LoopKeepsStep ==
  ASSUME IInv, LoopKeeps, ThreadsKeep
  PROVE  IInv'
<1>1. TypeOK'
  BY Parts DEF LoopKeeps, ThreadsKeep, Good, TypeOK
<1>2. QueuesAlwaysOK'
  BY DEF LoopKeeps, Good, QueuesAlwaysOK
<1>3. Located'
  BY DEF Located, LoopKeeps, ThreadsKeep
<1> QED
  BY <1>1, <1>2, <1>3 DEF IInv

\* Zero callbacks counted, and no time.
LEMMA ZeroTypes == 0 \in 0 .. MaxDispatchCallbacks /\ NoTimeval \in Timeval
  BY BaseAssumption DEF Timeval

\* The locals of a loop thread that is not in event_base_loop.
LEMMA OutsideType == Outside \in LoopLocals
  BY BaseAssumption DEF Outside, LoopLocals, LoopPc, Timeval, NoTimeval

\* The loop is at the head of the while loop, has left it, or is about to run a callback.
Turned ==
  /\ base' \in BaseFields /\ loop' \in LoopLocals
  /\ loop'.pc \in {"top", "out", "queue"}
  /\ loop'.pc = "queue" => base'.event_running_priority \in Priorities

\* event_base_loop returns.
LEMMA LoopExitTypes ==
  ASSUME IInv, NEW b \in BaseFields, LoopExit(b)
  PROVE  Turned /\ loop'.pc = "out"
<1>1. clear_time_cache(b) \in BaseFields
  BY Parts, TimeTypes
<1>2. base' \in BaseFields
  BY <1>1 DEF LoopExit, BaseFields
<1>3. loop' \in LoopLocals /\ loop'.pc = "out"
  BY OutsideType DEF LoopExit, Outside
<1> QED
  BY <1>2, <1>3 DEF Turned

\* event_process_active returns.
LEMMA ProcessDoneTypes ==
  ASSUME IInv, NEW b \in BaseFields, NEW l \in LoopLocals, NEW n, ProcessDone(b, l, n)
  PROVE  Turned
<1> DEFINE b1 == [b EXCEPT !.event_running_priority = -1]
<1>1. b1 \in BaseFields
  BY DEF BaseFields
<1>2. CASE LoopExit(b1)
  BY <1>1, <1>2, LoopExitTypes
<1>3. CASE /\ base' = b1
           /\ loop' = [l EXCEPT !.pc = "top", !.count = 0, !.endtime = NoTimeval]
  <2>1. loop' \in LoopLocals /\ loop'.pc = "top"
    BY <1>3, ZeroTypes DEF LoopLocals, LoopPc
  <2> QED
    BY <1>1, <1>3, <2>1 DEF Turned
<1> QED
  BY <1>2, <1>3 DEF ProcessDone

\* event_process_active takes the next queue that is not empty.
LEMMA ProcessFromTypes ==
  ASSUME IInv, NEW b \in BaseFields, NEW l \in LoopLocals, NEW i \in 0 .. NPriorities,
         ProcessFrom(b, l, i)
  PROVE  Turned
<1> DEFINE j == FirstQueue(i)
<1>1. j \in i .. NPriorities
  BY FirstQueueType
<1> HIDE DEF j
<1>2. CASE j = NPriorities
  BY <1>2, ProcessDoneTypes DEF ProcessFrom, j
<1>3. CASE j # NPriorities
  <2>1. /\ base' = [b EXCEPT !.event_running_priority = j]
        /\ loop' = [l EXCEPT !.pc = "queue", !.count = 0]
    BY <1>3 DEF ProcessFrom, j
  <2>2. j \in Priorities
    BY <1>1, <1>3, QueuesAssumption DEF Priorities
  <2>3. base' \in BaseFields /\ base'.event_running_priority \in Priorities
    BY <2>1, <2>2 DEF BaseFields
  <2>4. loop' \in LoopLocals /\ loop'.pc = "queue"
    BY <2>1, ZeroTypes DEF LoopLocals, LoopPc
  <2> QED
    BY <2>3, <2>4 DEF Turned
<1> QED
  BY <1>2, <1>3

\* event_process_active_single_queue returns.
LEMMA QueueDoneTypes ==
  ASSUME IInv, NEW b \in BaseFields, NEW l \in LoopLocals,
         b.event_running_priority \in Priorities, QueueDone(b, l)
  PROVE  Turned
<1>1. b.event_running_priority + 1 \in 0 .. NPriorities
  BY QueuesAssumption DEF Priorities
<1> QED
  BY <1>1, ProcessDoneTypes, ProcessFromTypes DEF QueueDone

\* A step of one of these keeps the invariant.
LEMMA TurnedStep ==
  ASSUME IInv, Turned, UNCHANGED <<q, ev, th, clock, hist>>
  PROVE  IInv'
<1>1. LoopKeeps
  BY Parts DEF Turned, LoopKeeps
<1> QED
  BY <1>1, ThreadsSame, LoopKeepsStep

\* A step of the loop that keeps the event_base's queue number and lets the threads be.
LEMMA SimpleStep ==
  ASSUME IInv, LoopKeeps, UNCHANGED th
  PROVE  IInv'
  BY ThreadsSame, LoopKeepsStep

\* event_base_loop is called.
LEMMA EnterStep ==
  ASSUME IInv, LoopEnter
  PROVE  IInv'
<1>1. PICK f \in LoopFlags : loop' = [loop EXCEPT !.pc = "top", !.flags = f]
  BY DEF LoopEnter
<1>2. loop' \in LoopLocals /\ loop'.pc = "top"
  <2>1. f \in SUBSET {"ONCE", "NONBLOCK", "NO_EXIT_ON_EMPTY"}
    BY BaseAssumption
  <2> QED
    BY <1>1, <2>1, Parts DEF LoopLocals, LoopPc
<1>3. clear_time_cache(base) \in BaseFields
  BY Parts, TimeTypes
<1>4. base' \in BaseFields
  BY <1>3 DEF LoopEnter, BaseFields, Actor
<1>5. hist' \in History
  <2>1. 0 \in 0 .. 2
    OBVIOUS
  <2> QED
    BY <2>1, Parts DEF LoopEnter, History
<1>6. LoopKeeps
  BY <1>2, <1>4, <1>5, Parts DEF LoopEnter, LoopKeeps
<1> QED
  BY <1>6, SimpleStep DEF LoopEnter

\* The head of the loop of event_base_loop keeps the invariant.
LEMMA TopStep ==
  ASSUME IInv, LoopTop
  PROVE  IInv'
<1> DEFINE b == [base EXCEPT !.event_continue = FALSE, !.n_deferreds_queued = 0]
           tv == IF N_ACTIVE_CALLBACKS = 0 /\ "NONBLOCK" \notin loop.flags
                   THEN timeout_next ELSE 0
<1>1. b \in BaseFields
  BY Parts DEF BaseFields
<1>2. tv \in Timeval
  BY TimeoutNextType DEF Timeval
<1>3. UNCHANGED <<q, ev, th, clock, hist>>
  BY DEF LoopTop
<1>4. CASE LoopExit(b)
  <2>1. Turned
    BY <1>1, <1>4, LoopExitTypes
  <2> QED
    BY <1>3, <2>1, TurnedStep
<1>5. CASE base' = b /\ loop' = [loop EXCEPT !.pc = "later", !.tv = tv]
  <2> HIDE DEF b, tv
  <2>1. loop' \in LoopLocals /\ loop'.pc = "later"
    BY <1>2, <1>5, Parts DEF LoopLocals, LoopPc
  <2>2. LoopKeeps
    BY <1>1, <1>3, <1>5, <2>1, Parts DEF LoopKeeps
  <2> QED
    BY <1>3, <2>2, SimpleStep
<1> QED
  BY <1>4, <1>5 DEF LoopTop

\* event_queue_make_later_events_active keeps the invariant.
LEMMA LaterStep ==
  ASSUME IInv, LoopMakeLaterActive
  PROVE  IInv'
<1> DEFINE k == IF ev[Head(q.active_later_queue)].closure = "self" THEN 1 ELSE 0
<1>1. Good(q')
  BY Parts, MakeLaterActiveGood DEF LoopMakeLaterActive
<1>2. base' = [base EXCEPT !.n_deferreds_queued = @ + k] /\ k \in Nat
  BY DEF LoopMakeLaterActive
<1> HIDE DEF k
<1>3. base' \in BaseFields
  BY <1>2, Parts DEF BaseFields
<1>4. UNCHANGED <<ev, loop, th, clock, hist>> /\ loop.pc = "later"
  BY DEF LoopMakeLaterActive
<1>5. LoopKeeps
  BY <1>1, <1>3, <1>4, Parts DEF LoopKeeps
<1> QED
  BY <1>4, <1>5, SimpleStep

\* The call of the backend keeps the invariant: it polls only events.
LEMMA DispatchStep ==
  ASSUME IInv, LoopDispatch
  PROVE  IInv'
<1> DEFINE tv == IF loop.tv = NoTimeval THEN NoTimeval ELSE clock + loop.tv
           polled == { e \in With(q, "INSERTED") : Kind[e] = "io" }
<1>1. /\ base' = clear_time_cache(base)
      /\ loop' = [loop EXCEPT !.pc = "select", !.tv = tv, !.polled = polled]
      /\ UNCHANGED <<q, ev, th, clock, hist>>
  BY DEF LoopDispatch
<1>2. tv \in Timeval
  <2>1. loop.tv \in Timeval
    BY Parts DEF LoopLocals
  <2> QED
    BY <2>1, Parts DEF Timeval, NoTimeval
<1>3. polled \in SUBSET Event
  BY Parts DEF Good, QueuesOK, OnlyEvents
<1> HIDE DEF tv, polled
<1>4. base' \in BaseFields
  BY <1>1, Parts, TimeTypes
<1>5. loop' \in LoopLocals /\ loop'.pc = "select"
  BY <1>1, <1>2, <1>3, Parts DEF LoopLocals, LoopPc
<1>6. LoopKeeps
  BY <1>1, <1>4, <1>5, Parts DEF LoopKeeps
<1> QED
  BY <1>1, <1>6, SimpleStep

\* The return of the backend keeps the invariant.
LEMMA SelectStep ==
  ASSUME IInv, NEW ready \in SUBSET Event, SelectReturn(ready)
  PROVE  IInv'
<1>1. ready \cup NotifyReady \in SUBSET Event
  BY BaseAssumption DEF NotifyReady
<1>2. loop' = [loop EXCEPT !.pc = "selected", !.ready = ready \cup NotifyReady,
                           !.polled = {}, !.tv = NoTimeval]
      /\ UNCHANGED <<q, ev, base, th, clock, hist>>
  BY DEF SelectReturn
<1>3. loop' \in LoopLocals /\ loop'.pc = "selected"
  BY <1>1, <1>2, ZeroTypes, Parts DEF LoopLocals, LoopPc
<1>4. LoopKeeps
  BY <1>2, <1>3, Parts DEF LoopKeeps
<1> QED
  BY <1>2, <1>4, SimpleStep

\* The failure of the backend keeps the invariant.
LEMMA SelectFailsStep ==
  ASSUME IInv, SelectFails
  PROVE  IInv'
<1>1. Turned
  BY Parts, LoopExitTypes DEF SelectFails
<1> QED
  BY <1>1, TurnedStep DEF SelectFails

\* The lock is acquired again.
LEMMA RelockStep ==
  ASSUME IInv, LoopRelock
  PROVE  IInv'
<1>1. loop' \in LoopLocals /\ loop'.pc = "activate"
  BY Parts DEF LoopRelock, LoopLocals, LoopPc
<1>2. LoopKeeps
  BY <1>1, Parts DEF LoopRelock, LoopKeeps
<1> QED
  BY <1>2, SimpleStep DEF LoopRelock

\* evmap_io_active_ keeps the invariant.
LEMMA ActivateStep ==
  ASSUME IInv, NEW e \in Event, LoopActivate(e)
  PROVE  IInv'
<1>1. loop' \in LoopLocals /\ loop'.pc = "activate"
  BY Parts DEF LoopActivate, LoopLocals
<1>2. UNCHANGED <<th, clock, hist>>
  BY DEF LoopActivate
<1>3. CASE UNCHANGED <<q, ev, base>>
  <2>1. LoopKeeps
    BY <1>1, <1>2, <1>3, Parts DEF LoopKeeps
  <2> QED
    BY <1>2, <2>1, SimpleStep
<1>4. CASE /\ ev' = ActiveResult(q, e, {"EV_READ"})
           /\ q' = event_callback_activate_nolock_(q, e)
           /\ base' \in {base, ActiveContinue(base, e)}
  <2>1. ev' \in [Callback -> CallbackFields]
    <3>1. {"EV_READ"} \in SUBSET Result
      BY DEF Result
    <3> QED
      BY <1>4, <3>1, Parts, ActiveTypes
  <2>2. Good(q')
    BY <1>4, Parts, ActivateGood
  <2>3. base' \in BaseFields
    BY <1>4, Parts, ContinueTypes
  <2>4. LoopKeeps
    BY <1>1, <1>2, <2>1, <2>2, <2>3, Parts DEF LoopKeeps
  <2> QED
    BY <1>2, <2>4, SimpleStep
<1> QED
  BY <1>3, <1>4 DEF LoopActivate

\* update_time_cache after the backend keeps the invariant.
LEMMA UpdateTimeStep ==
  ASSUME IInv, LoopUpdateTime
  PROVE  IInv'
<1>1. loop' \in LoopLocals /\ loop'.pc = "timeouts"
  BY Parts DEF LoopUpdateTime, LoopLocals, LoopPc
<1>2. base' \in BaseFields
  BY Parts, TimeTypes DEF LoopUpdateTime
<1>3. LoopKeeps
  BY <1>1, <1>2, Parts DEF LoopUpdateTime, LoopKeeps
<1> QED
  BY <1>3, SimpleStep DEF LoopUpdateTime

\* timeout_process of one event keeps the invariant.
LEMMA TimeoutStep ==
  ASSUME IInv, NEW e \in Event, LoopTimeout(e)
  PROVE  IInv'
<1> DEFINE s == event_del_nolock_(q, e)
           v == ActiveResult(s, e, {"EV_TIMEOUT"})
<1>1. Good(s)
  BY Parts, DelGood
<1>2. v \in [Callback -> CallbackFields]
  <2>1. {"EV_TIMEOUT"} \in SUBSET Result
    BY DEF Result
  <2> QED
    BY <2>1, Parts, ActiveTypes
<1>3. /\ q' \in {s, event_callback_activate_nolock_(s, e)}
      /\ ev' = ActiveCalls(v, e, 1)
      /\ base' = ActiveContinue(base, e)
      /\ loop' \in AbortLoop(e)
      /\ loop.pc = "timeouts"
      /\ UNCHANGED <<th, clock, hist>>
  BY DEF LoopTimeout
<1> HIDE DEF s, v
<1>4. Good(q')
  BY <1>1, <1>3, Parts, ActivateGood
<1>5. ev' \in [Callback -> CallbackFields]
  BY <1>2, <1>3, Parts, ActiveCallsTypes
<1>6. base' \in BaseFields
  BY <1>3, Parts, ContinueTypes
<1>7. loop' \in LoopLocals /\ loop'.pc = "timeouts"
  BY <1>3, Parts, AbortTypes DEF SameLoop
<1>8. LoopKeeps
  BY <1>3, <1>4, <1>5, <1>6, <1>7, Parts DEF LoopKeeps
<1> QED
  BY <1>3, <1>8, SimpleStep

\* The end of timeout_process keeps the invariant.
LEMMA TimeoutsDoneStep ==
  ASSUME IInv, LoopTimeoutsDone
  PROVE  IInv'
<1>1. loop' \in LoopLocals /\ loop'.pc = "process"
  BY Parts DEF LoopTimeoutsDone, LoopLocals, LoopPc
<1>2. LoopKeeps
  BY <1>1, Parts DEF LoopTimeoutsDone, LoopKeeps
<1> QED
  BY <1>2, SimpleStep DEF LoopTimeoutsDone

\* The start of event_process_active keeps the invariant.
LEMMA ProcessStep ==
  ASSUME IInv, LoopProcess
  PROVE  IInv'
<1> DEFINE b == IF MaxDispatchTime = -1 THEN base ELSE update_time_cache(base)
           end == IF MaxDispatchTime = -1 THEN NoTimeval
                  ELSE gettime(b) + MaxDispatchTime
           l == [loop EXCEPT !.endtime = end]
<1>1. b \in BaseFields
  BY Parts, TimeTypes
<1> HIDE DEF b
<1>2. end \in Timeval
  <2>1. gettime(b) \in Nat
    BY <1>1, Parts, TimeTypes
  <2> QED
    BY <2>1, BaseAssumption DEF Timeval
<1> HIDE DEF end
<1>3. l \in LoopLocals
  BY <1>2, Parts DEF LoopLocals
<1> HIDE DEF l
<1>4. UNCHANGED <<q, ev, th, clock, hist>>
  BY DEF LoopProcess
<1>5. CASE ProcessFrom(b, l, 0)
  <2>1. 0 \in 0 .. NPriorities
    BY QueuesAssumption
  <2>2. Turned
    BY <1>1, <1>3, <1>5, <2>1, ProcessFromTypes
  <2> QED
    BY <1>4, <2>2, TurnedStep
<1>6. CASE LoopExit(base)
  <2>1. Turned
    BY <1>6, Parts, LoopExitTypes
  <2> QED
    BY <1>4, <2>1, TurnedStep
<1>7. CASE loop' = [loop EXCEPT !.pc = "top"] /\ UNCHANGED base
  <2>1. Turned
    BY <1>7, Parts DEF Turned, LoopLocals, LoopPc
  <2> QED
    BY <1>4, <2>1, TurnedStep
<1> QED
  BY <1>5, <1>6, <1>7 DEF LoopProcess, b, end, l

\* event_process_active_single_queue takes a callback and runs its closure: the
\* re-scheduled timeout is no earlier than now, and no call of a signal is below zero.
LEMMA RunStep ==
  ASSUME IInv, LoopRun
  PROVE  IInv'
<1> DEFINE i == base.event_running_priority
           c == Head(q.activequeues[i])
           signal == ev[c].closure = "signal"
           finalizer == ev[c].closure \in {"finalize", "cb_finalize"}
           k == IF signal THEN ev[c].ncalls ELSE 0
           now == gettime(base)
           count == Min2(loop.count + Counted(c), MaxDispatchCallbacks)
           next == IF ~signal THEN "callback" ELSE IF k > 0 THEN "count" ELSE "return"
<1>1. loop.pc = "queue" /\ i \in Priorities /\ q.activequeues[i] # << >>
  BY DEF LoopRun, IInv, Located
<1>2. c \in Callback /\ "ACTIVE" \in q.flags[c]
  BY <1>1, HeadActive
<1>3. /\ q' = IF Rescheduled(c) THEN event_add_nolock_(Taken(c), c, RunAt(c, now))
              ELSE Taken(c)
      /\ ev' = IF Rescheduled(c) THEN AddFields(c, RunAt(c, now), TRUE, now)
               ELSE IF k > 0 THEN [ev EXCEPT ![c].pncalls = TRUE] ELSE ev
      /\ base' = [base EXCEPT !.current_event = IF finalizer THEN NoCallback ELSE c,
                              !.current_event_waiters = 0]
      /\ loop' = [loop EXCEPT !.pc = next, !.count = count, !.running = c,
                              !.finalizer = finalizer, !.ncalls = k]
      /\ hist' = Started(c)
      /\ UNCHANGED <<th, clock>>
  BY DEF LoopRun
<1> HIDE DEF i, c
<1>4. /\ ev[c] \in CallbackFields /\ now \in Nat
      /\ k \in Nat /\ finalizer \in BOOLEAN
  <2>1. ev[c] \in CallbackFields
    BY <1>2, Parts
  <2>2. now \in Nat
    BY Parts, TimeTypes
  <2> QED
    BY <2>1, <2>2 DEF CallbackFields
<1>5. count \in 0 .. MaxDispatchCallbacks
  <2>1. loop.count \in 0 .. MaxDispatchCallbacks /\ Counted(c) \in {0, 1}
    BY Parts DEF LoopLocals, Counted
  <2> QED
    BY <2>1, BaseAssumption DEF Min2
<1>6. RunAt(c, now) \in Nat
  <2>1. ev[c].timeout \in Nat /\ ev[c].io_timeout \in Nat
    BY <1>4 DEF CallbackFields
  <2> HIDE DEF now
  <2> QED
    BY <1>4, <2>1 DEF RunAt
<1> HIDE DEF now, count
<1>7. Good(q')
  <2>1. Good(Taken(c))
    BY <1>2, Parts, TakenGood
  <2>2. CASE Rescheduled(c)
    BY <1>3, <2>1, <2>2, AddGood DEF Rescheduled
  <2> QED
    BY <1>3, <2>1, <2>2
<1>8. ev' \in [Callback -> CallbackFields]
  <2>1. CASE Rescheduled(c)
    <3>1. RunAt(c, now) \in Timeval
      BY <1>6 DEF Timeval
    <3> QED
      BY <1>2, <1>3, <1>4, <2>1, <3>1, Parts, AddFieldsTypes
  <2>2. CASE ~Rescheduled(c) /\ k > 0
    <3>1. ev' = [ev EXCEPT ![c].pncalls = TRUE]
      BY <1>3, <2>2
    <3> QED
      BY <1>2, <3>1, Parts DEF CallbackFields
  <2>3. CASE ~Rescheduled(c) /\ ~(k > 0)
    BY <1>3, <2>3, Parts
  <2> QED
    BY <2>1, <2>2, <2>3
<1>9. base' \in BaseFields /\ base'.event_running_priority = i
  BY <1>2, <1>3, Parts DEF BaseFields, i
<1>10. loop' \in LoopLocals /\ loop'.pc \in {"count", "callback", "return"} /\ loop'.running = c
  <2>1. next \in {"count", "callback", "return"}
    OBVIOUS
  <2> HIDE DEF next, k, finalizer
  <2> QED
    BY <1>2, <1>3, <1>4, <1>5, <2>1, Parts DEF LoopLocals, LoopPc
<1>11. hist' \in History
  <2> DEFINE gone == c \in Event /\ c \notin Persist
             asked == IF gone THEN [hist.asked EXCEPT ![c] = "no"] ELSE hist.asked
             armed == IF gone \/ c \in Deferred THEN [hist.armed EXCEPT ![c] = FALSE]
                      ELSE hist.armed
             late == IF base.event_break THEN Min2(2, hist.late + 1) ELSE 0
  <2>1. Started(c) = [hist EXCEPT !.asked = asked, !.armed = armed, !.late = late]
    BY Parts DEF Started, History
  <2>2. /\ asked \in [Event -> {"no", "forever", "timed"}]
        /\ armed \in [Callback -> BOOLEAN]
    BY Parts DEF History
  <2>3. late \in 0 .. 2
    <3>1. hist.late \in 0 .. 2
      BY Parts DEF History
    <3> QED
      BY <3>1 DEF Min2
  <2> HIDE DEF asked, armed, late
  <2> QED
    BY <1>3, <2>1, <2>2, <2>3, Parts DEF History
<1>12. LoopKeeps
  BY <1>1, <1>2, <1>3, <1>7, <1>8, <1>9, <1>10, <1>11 DEF LoopKeeps
<1> QED
  BY <1>3, <1>12, SimpleStep

\* The end of a queue keeps the invariant.
LEMMA QueueEmptyStep ==
  ASSUME IInv, LoopQueueEmpty
  PROVE  IInv'
<1>1. base.event_running_priority \in Priorities
  BY DEF IInv, Located, LoopQueueEmpty
<1>2. Turned
  BY <1>1, Parts, QueueDoneTypes DEF LoopQueueEmpty
<1> QED
  BY <1>2, TurnedStep DEF LoopQueueEmpty

\* event_signal_closure keeps the invariant.
LEMMA SignalStep ==
  ASSUME IInv, SignalCount \/ SignalAgain
  PROVE  IInv'
<1> DEFINE c == loop.running
           k == loop.ncalls
<1>1. /\ loop.pc \in {"count", "callback"} /\ c \in Callback
      /\ base.event_running_priority \in Priorities /\ k \in Nat
  BY Parts DEF SignalCount, SignalAgain, IInv, Located, LoopLocals
<1>2. UNCHANGED <<q, base, th, clock, hist>>
  BY DEF SignalCount, SignalAgain
<1>3. CASE UNCHANGED ev /\ loop' \in {[loop EXCEPT !.pc = "return"], [loop EXCEPT !.pc = "count"]}
  <2>1. loop' \in LoopLocals /\ loop'.pc \in {"return", "count"} /\ loop'.running = c
    BY <1>3, Parts DEF LoopLocals, LoopPc
  <2>2. LoopKeeps
    BY <1>1, <1>2, <1>3, <2>1, Parts DEF LoopKeeps
  <2> QED
    BY <1>2, <2>2, SimpleStep
<1>4. CASE /\ k # 0 /\ ev' = SignalCall(c, k)
           /\ loop' = [loop EXCEPT !.pc = "callback", !.ncalls = k - 1]
  <2>1. k - 1 \in Nat /\ (ev[c].pncalls /\ k > 1) \in BOOLEAN
    BY <1>1, <1>4
  <2>2. loop' \in LoopLocals /\ loop'.pc = "callback" /\ loop'.running = c
    BY <1>1, <1>4, <2>1, Parts DEF LoopLocals, LoopPc
  <2>3. ev' = [ev EXCEPT ![c].ncalls = k - 1, ![c].pncalls = ev[c].pncalls /\ k > 1]
    BY <1>4 DEF SignalCall
  <2> HIDE DEF c, k
  <2>4. ev' \in [Callback -> CallbackFields]
    BY <1>1, <2>1, <2>3, Parts DEF CallbackFields
  <2>5. LoopKeeps
    BY <1>1, <1>2, <2>2, <2>4, Parts DEF LoopKeeps, c
  <2> QED
    BY <1>2, <2>5, SimpleStep
<1> QED
  BY <1>3, <1>4 DEF SignalCount, SignalAgain

\* evthread_notify_drain_default keeps the invariant.
LEMMA DrainStep ==
  ASSUME IInv, NotifyDrain \/ NotifyDrained
  PROVE  IInv'
<1>1. /\ loop.running \in Callback
      /\ base.event_running_priority \in Priorities
  BY DEF NotifyDrain, NotifyDrained, IInv, Located
<1>2. /\ base' \in BaseFields
      /\ base'.event_running_priority = base.event_running_priority
  BY Parts DEF NotifyDrain, NotifyDrained, BaseFields
<1>3. /\ loop' \in LoopLocals
      /\ loop'.pc \in {"drain", "return"} /\ loop'.running = loop.running
  BY Parts DEF NotifyDrain, NotifyDrained, LoopLocals, LoopPc
<1>4. UNCHANGED <<q, ev, th, clock, hist>>
  BY DEF NotifyDrain, NotifyDrained
<1>5. LoopKeeps
  BY <1>1, <1>2, <1>3, <1>4, Parts DEF LoopKeeps
<1> QED
  BY <1>4, <1>5, SimpleStep

\* The return of a callback keeps the invariant.
LEMMA ReturnStep ==
  ASSUME IInv, LoopReturn
  PROVE  IInv'
<1> DEFINE c == loop.running
<1>1. c \in Callback /\ base.event_running_priority \in Priorities
  BY DEF LoopReturn, IInv, Located
<1>2. base' \in BaseFields
      /\ base'.event_running_priority = base.event_running_priority
  BY Parts DEF LoopReturn, BaseFields
<1>3. loop' \in LoopLocals /\ loop'.pc = "after"
  BY Parts DEF LoopReturn, LoopLocals, LoopPc
<1>4. ev' \in [Callback -> CallbackFields]
  BY <1>1, Parts DEF LoopReturn, CallbackFields
<1>5. hist' \in History
  <2>1. hist' = hist \/ \E f \in {"done", "twice"} :
                          hist' = [hist EXCEPT !.finalized[c] = f]
    BY DEF LoopReturn
  <2> QED
    BY <1>1, <2>1, Parts DEF History
<1>6. UNCHANGED <<q, clock>>
  BY DEF LoopReturn
<1>7. LoopKeeps
  BY <1>1, <1>2, <1>3, <1>4, <1>5, <1>6, Parts DEF LoopKeeps
<1>8. ThreadsKeep
  <2>1. CASE th' = th
    BY <2>1, ThreadsSame
  <2>2. CASE th' = EVTHREAD_COND_BROADCAST
    <3>1. ASSUME NEW t \in Thread
          PROVE  /\ th'[t] \in ThreadLocals
                 /\ th'[t].pc # "idle" => th'[t].ev \in Event
      <4>1. th[t] \in ThreadLocals
        BY Parts
      <4>2. CASE t \in CondWaiters
        <5>1. th'[t] = [th[t] EXCEPT !.pc = "woken"] /\ th[t].pc = "wait"
          BY <2>2, <4>2 DEF EVTHREAD_COND_BROADCAST, Woken, CondWaiters
        <5> QED
          BY <4>1, <5>1, Parts DEF ThreadLocals
      <4>3. CASE t \notin CondWaiters
        <5>1. th'[t] = th[t]
          BY <2>2, <4>3 DEF EVTHREAD_COND_BROADCAST, Woken
        <5> QED
          BY <5>1, Parts
      <4> QED
        BY <4>2, <4>3
    <3>2. th' \in [Thread -> ThreadLocals]
      BY <2>2, <3>1 DEF EVTHREAD_COND_BROADCAST, Woken
    <3> QED
      BY <3>1, <3>2 DEF ThreadsKeep
  <2> QED
    BY <2>1, <2>2 DEF LoopReturn
<1> QED
  BY <1>7, <1>8, LoopKeepsStep

\* The tests after a callback keep the invariant.
LEMMA AfterStep ==
  ASSUME IInv, LoopAfter
  PROVE  IInv'
<1> DEFINE limited == base.event_running_priority >= LimitCallbacksAfterPrio
           timed == limited /\ loop.count > 0 /\ loop.endtime # NoTimeval
           b == IF timed THEN update_time_cache(base) ELSE base
<1>1. base.event_running_priority \in Priorities /\ loop.pc = "after"
  BY DEF LoopAfter, IInv, Located
<1>2. /\ b \in BaseFields
      /\ b.event_running_priority = base.event_running_priority
  BY Parts, TimeTypes DEF SameRun
<1> HIDE DEF b
<1>3. \/ \E n : ProcessDone(base, loop, n)
      \/ \E n : ProcessDone(b, loop, n)
      \/ QueueDone(b, loop)
      \/ base' = b /\ loop' = [loop EXCEPT !.pc = "queue"]
  BY DEF LoopAfter, b
<1>4. UNCHANGED <<q, ev, th, clock, hist>>
  BY DEF LoopAfter
<1>5. CASE base' = b /\ loop' = [loop EXCEPT !.pc = "queue"]
  <2>1. loop' \in LoopLocals /\ loop'.pc = "queue"
    BY <1>5, Parts DEF LoopLocals, LoopPc
  <2> QED
    BY <1>1, <1>2, <1>4, <1>5, <2>1, TurnedStep DEF Turned
<1>6. CASE \E n : ProcessDone(base, loop, n)
  BY <1>4, <1>6, Parts, ProcessDoneTypes, TurnedStep
<1>7. CASE \E n : ProcessDone(b, loop, n)
  BY <1>2, <1>4, <1>7, Parts, ProcessDoneTypes, TurnedStep
<1>8. CASE QueueDone(b, loop)
  BY <1>1, <1>2, <1>4, <1>8, Parts, QueueDoneTypes, TurnedStep
<1> QED
  BY <1>3, <1>5, <1>6, <1>7, <1>8

-----------------------------------------------------------------------------
(* The invariant.                                                          *)

\* The invariant holds of a new base.
LEMMA InitIInv == Init => IInv
<1> SUFFICES ASSUME Init
             PROVE  IInv
  OBVIOUS
<1>1. /\ NotifyEv \in Event /\ NotifyEv \in Callback
      /\ Event \subseteq Callback /\ Deferred \subseteq Callback
  BY BaseAssumption DEF Callback
<1>2. Good(q)
  <2>1. "INSERTED" \notin EmptyQueues.flags[NotifyEv]
    BY <1>1 DEF EmptyQueues
  <2> QED
    BY <1>1, <2>1, EmptyGood, InsertInsertedGood DEF Init
<1>3. ev \in [Callback -> CallbackFields]
  BY DEF Init, CallbackFields, Closure, Result
<1>4. base \in BaseFields
  BY ZeroTypes DEF Init, BaseFields
<1>5. loop \in LoopLocals /\ loop.pc = "out"
  BY OutsideType DEF Init, Outside
<1>6. /\ th \in [Thread -> ThreadLocals]
      /\ \A t \in Thread : th[t].pc = "idle"
  BY ZeroTypes DEF Init, Idle, ThreadLocals
<1>7. clock \in Nat
  BY DEF Init
<1>8. hist \in History
  BY DEF Init, History
<1>9. TypeOK
  BY <1>2, <1>3, <1>4, <1>5, <1>6, <1>7, <1>8 DEF TypeOK, Good
<1> QED
  BY <1>2, <1>5, <1>6, <1>9 DEF IInv, Good, QueuesAlwaysOK, Located

\* Every call of the API keeps the invariant.
LEMMA ApiIInv ==
  ASSUME IInv, NEW a \in Actor, Api(a)
  PROVE  IInv'
<1>1. UserEvent \subseteq Event /\ Delays \subseteq Timeval /\ NoTimeval \in Timeval
  BY BaseAssumption DEF UserEvent, Timeval
<1>2. ASSUME NEW e \in UserEvent,
             NEW tv \in Delays \cup (IF Kind[e] = "timer" THEN {} ELSE {NoTimeval}),
             event_add(a, e, tv)
      PROVE  IInv'
  BY <1>1, <1>2, AddStep
<1>3. ASSUME NEW e \in UserEvent, event_remove_timer(a, e)
      PROVE  IInv'
  BY <1>1, <1>3, RemoveTimerStep
<1>4. ASSUME NEW e \in UserEvent, NEW f, event_del(a, e, f)
      PROVE  IInv'
  BY <1>1, <1>4, DelStep
<1>5. ASSUME NEW e \in UserEvent,
             NEW n \in 1 .. (IF Kind[e] = "signal" THEN MaxCalls ELSE 1),
             event_active(a, e, n)
      PROVE  IInv'
  <2>1. n \in Nat
    BY BaseAssumption
  <2> QED
    BY <1>1, <1>5, <2>1, ActiveStep
<1>6. ASSUME NEW e \in UserEvent, event_active_later_(a, e)
      PROVE  IInv'
  BY <1>1, <1>6, ActiveLaterStep
<1>7. ASSUME NEW e \in UserEvent, event_finalize(a, e)
      PROVE  IInv'
  BY <1>1, <1>7, FinalizeStep
<1>8. ASSUME NEW c \in Deferred,
             \/ event_deferred_cb_schedule_(a, c)
             \/ event_deferred_cb_cancel_(a, c)
             \/ event_callback_finalize_(a, c)
      PROVE  IInv'
  BY <1>8, DeferredStep
<1>9. ASSUME NEW tv \in Delays \cup {NoTimeval}, event_base_loopexit(a, tv)
      PROVE  IInv'
  BY <1>1, <1>9, LoopExitStep
<1>10. CASE \/ event_base_loopbreak(a) \/ event_base_loopcontinue(a)
            \/ event_base_add_virtual_(a) \/ event_base_del_virtual_(a)
  BY <1>10, BaseCallStep
<1> QED
  BY <1>2, <1>3, <1>4, <1>5, <1>6, <1>7, <1>8, <1>9, <1>10 DEF Api

\* Every step of the loop thread keeps the invariant.
LEMMA LoopIInv ==
  ASSUME IInv, LoopStep \/ FdsReady \/ SelectFails \/ LoopEnter
  PROVE  IInv'
<1>1. ASSUME FdsReady
      PROVE  IInv'
  <2>1. loop.polled \in SUBSET Event
    BY Parts DEF LoopLocals
  <2> QED
    BY <1>1, <2>1, SelectStep DEF FdsReady
<1>2. ASSUME SelectReturn({})
      PROVE  IInv'
  BY <1>2, SelectStep
<1>3. ASSUME NEW e \in Event, LoopActivate(e) \/ LoopTimeout(e)
      PROVE  IInv'
  BY <1>3, ActivateStep, TimeoutStep
<1> QED
  BY <1>1, <1>2, <1>3, EnterStep, TopStep, LaterStep, DispatchStep, SelectFailsStep,
     RelockStep, UpdateTimeStep, TimeoutsDoneStep, ProcessStep, RunStep,
     QueueEmptyStep, SignalStep, DrainStep, ReturnStep, AfterStep
     DEF LoopStep

\* Every step keeps the invariant.
LEMMA NextIInv == IInv /\ [Next]_vars => IInv'
<1> SUFFICES ASSUME IInv, [Next]_vars
             PROVE  IInv'
  OBVIOUS
<1>1. CASE \E a \in Actor : Api(a)
  BY <1>1, ApiIInv
<1>2. CASE \E t \in Thread : ThreadResume(t) \/ ThreadIdle(t)
  BY <1>2, ResumeStep, IdleStep
<1>3. CASE LoopStep \/ FdsReady \/ SelectFails \/ LoopEnter
  BY <1>3, LoopIInv
<1>4. CASE Tick
  <2>1. clock' \in Nat /\ UNCHANGED <<q, ev, base, loop, th, hist>>
    BY <1>4, Parts DEF Tick
  <2> QED
    BY <2>1, Parts DEF IInv, TypeOK, QueuesAlwaysOK, Located
<1>5. CASE UNCHANGED vars
  BY <1>5 DEF vars, IInv, TypeOK, QueuesAlwaysOK, Located, timeout_next
<1> QED
  BY <1>1, <1>2, <1>3, <1>4, <1>5 DEF Next

\* The inductive invariant holds in every state of every behaviour.
THEOREM Invariant == Spec => []IInv
<1> QED
  BY InitIInv, NextIInv, PTL DEF Spec

\* Every variable keeps its type: no counter of the base becomes negative, whatever
\* the threads, the callbacks and the loop do.
THEOREM TypeCorrect == Spec => []TypeOK
<1>1. IInv => TypeOK
  BY DEF IInv
<1> QED
  BY <1>1, Invariant, PTL

\* event_base_assert_ok_nolock_ never fails, and the counters by which the loop
\* decides to poll, to wait or to return are those of the queues.
THEOREM QueuesConsistent == Spec => []QueuesAlwaysOK
<1>1. IInv => QueuesAlwaysOK
  BY DEF IInv
<1> QED
  BY <1>1, Invariant, PTL

-----------------------------------------------------------------------------
(* The threads that wait for the end of a callback: the loop broadcasts    *)
(* current_event_cond for each of them.                                    *)


\* The inductive invariant behind WaitersServed: current_event is set only while the
\* loop thread runs that callback, and only other threads than it wait.
WInv ==
  /\ base.current_event_waiters = Cardinality(CondWaiters)
  /\ \A t \in CondWaiters : th[t].ev = base.current_event
  /\ base.current_event # NoCallback =>
       /\ loop.pc \in {"count", "callback", "drain", "return"}
       /\ loop.running = base.current_event
  /\ loop.pc # "out" => base.th_owner_id = LoopThread

\* What the condition variable depends on is the same in the bases b and n.
SameCond(b, n) ==
  /\ n.current_event = b.current_event
  /\ n.current_event_waiters = b.current_event_waiters
  /\ n.th_owner_id = b.th_owner_id

\* No thread begins to wait or is woken.
SameWaiters ==
  CondWaiters' = CondWaiters /\ \A t \in CondWaiters : th'[t].ev = th[t].ev

\* No thread moves, so none begins to wait.
LEMMA SameWaitersThreads ==
  ASSUME UNCHANGED th
  PROVE  SameWaiters
  BY DEF SameWaiters, CondWaiters

\* A thread that did not wait moves and does not wait.
LEMMA SameWaitersExcept ==
  ASSUME IInv, NEW t \in Thread, th[t].pc # "wait", NEW r, r.pc # "wait",
         th' = [th EXCEPT ![t] = r]
  PROVE  SameWaiters
<1>1. th \in [Thread -> ThreadLocals]
  BY Parts
<1>2. \A s \in Thread : th'[s] = IF s = t THEN r ELSE th[s]
  BY <1>1
<1> QED
  BY <1>2 DEF SameWaiters, CondWaiters

\* Nobody waits when no callback is current.
LEMMA NobodyWaits ==
  ASSUME IInv, WInv, base.current_event = NoCallback
  PROVE  CondWaiters = {} /\ base.current_event_waiters = 0
<1>1. \A t \in CondWaiters : th[t].ev \in Callback
  BY Parts DEF CondWaiters
<1>2. CondWaiters = {}
  BY <1>1, BaseAssumption DEF WInv
<1> QED
  BY <1>2, FS_EmptySet DEF WInv

\* A step that disturbs neither the loop nor the waiters.
LEMMA QuietStep ==
  ASSUME WInv, SameWaiters, SameCond(base, base'), SameLoop(loop, loop')
  PROVE  WInv'
  BY DEF WInv, SameWaiters, SameCond, SameLoop

\* A step of the loop outside of the callbacks.
LEMMA IdleLoopStep ==
  ASSUME WInv, SameWaiters, SameCond(base, base'),
         loop.pc \notin {"count", "callback", "drain", "return", "out"}
  PROVE  WInv'
  BY DEF WInv, SameWaiters, SameCond

\* A thread begins to wait: it is not the loop thread, and not counted yet.
LEMMA CondWaitStep ==
  ASSUME IInv, WInv, NEW a \in Actor, NEW f, CanCall(a, f), NEW op, NEW e \in Event,
         NEW tv, NEW n, Running(a, e), CondWait(a, op, e, tv, n),
         NEW b \in BaseFields, SameCond(base, b), base' = Waiting(b),
         SameLoop(loop, loop')
  PROVE  WInv'
<1>1. e = base.current_event /\ e # NoCallback
  BY BaseAssumption DEF Running, Callback
<1>2. a \in Thread /\ th[a].pc = "idle"
  BY <1>1 DEF Running, EVBASE_IN_THREAD, WInv, Actor, CanCall
<1>3. th' = [th EXCEPT ![a] = [pc |-> "wait", op |-> op, ev |-> e, tv |-> tv, n |-> n]]
  BY DEF CondWait
<1>4. \A t \in Thread : th'[t] = IF t = a
                                  THEN [pc |-> "wait", op |-> op, ev |-> e, tv |-> tv, n |-> n]
                                  ELSE th[t]
  BY <1>2, <1>3, Parts
<1>5. CondWaiters' = CondWaiters \cup {a} /\ a \notin CondWaiters
  BY <1>2, <1>4 DEF CondWaiters
<1>6. IsFiniteSet(CondWaiters)
  BY BaseAssumption, FS_Subset DEF CondWaiters
<1>7. Cardinality(CondWaiters') = Cardinality(CondWaiters) + 1
  BY <1>5, <1>6, FS_AddElement
<1>8. /\ base'.current_event_waiters = base.current_event_waiters + 1
      /\ base'.current_event = base.current_event
      /\ base'.th_owner_id = base.th_owner_id
  BY DEF Waiting, SameCond, BaseFields
<1>9. \A t \in CondWaiters' : th'[t].ev = base'.current_event
  BY <1>1, <1>4, <1>5, <1>8 DEF WInv, CondWaiters
<1> QED
  BY <1>7, <1>8, <1>9 DEF WInv, SameLoop

\* A notification does not disturb the waiters.
LEMMA NotifyCond ==
  ASSUME NEW b \in BaseFields, SameCond(base, b), NEW a,
         base' \in {b, evthread_notify_base(b, a)}
  PROVE  SameCond(base, base')
  BY NotifyTypes DEF SameRun, SameCond

\* Nor does event_continue.
LEMMA ContinueCond ==
  ASSUME NEW b \in BaseFields, SameCond(base, b), NEW e
  PROVE  ActiveContinue(b, e) \in BaseFields /\ SameCond(base, ActiveContinue(b, e))
  BY ContinueTypes DEF SameRun, SameCond

\* Nor does *ev_pncalls = 0.
LEMMA AbortLoopSame ==
  ASSUME IInv, NEW e, loop' \in AbortLoop(e) \cup {loop}
  PROVE  SameLoop(loop, loop')
  BY Parts, AbortTypes

\* Nor does event_add_nolock_ after the wait.
LEMMA AddNowCond ==
  ASSUME IInv, NEW a, NEW e, NEW tv, AddNow(a, e, tv)
  PROVE  SameCond(base, base') /\ SameLoop(loop, loop')
<1>1. SameCond(base, base')
  <2>1. \E v : base' = AddNotifies(q, e, tv, v, base, a)
    BY DEF AddNow
  <2> QED
    BY <2>1, Parts, AddNotifiesTypes DEF SameRun, SameCond
<1>2. loop' \in AbortLoop(e) \cup {loop}
  BY DEF AddNow
<1> QED
  BY <1>1, <1>2, AbortLoopSame

\* Nor does event_del_nolock_ after the wait.
LEMMA DelNowCond ==
  ASSUME IInv, NEW a, NEW e, DelNow(a, e)
  PROVE  SameCond(base, base') /\ SameLoop(loop, loop')
<1>1. SameCond(base, base')
  BY Parts, DelNotifiesTypes DEF DelNow, SameRun, SameCond
<1>2. loop' \in AbortLoop(e) \cup {loop}
  BY DEF DelNow
<1> QED
  BY <1>1, <1>2, AbortLoopSame

\* A base is the same as itself.
LEMMA SameBase ==
  ASSUME NEW b
  PROVE  SameCond(b, b)
  BY DEF SameCond

\* Every call of the API keeps WInv.
LEMMA ApiWInv ==
  ASSUME IInv, WInv, NEW a \in Actor, Api(a)
  PROVE  WInv'
<1>1. UserEvent \subseteq Event /\ ExitEv \in Event
  BY BaseAssumption DEF UserEvent
<1>2. base \in BaseFields /\ SameCond(base, base) /\ SameLoop(loop, loop)
  BY Parts, SameBase
<1>3. ASSUME NEW e \in UserEvent, NEW tv, event_add(a, e, tv)
      PROVE  WInv'
  <2>1. CASE Kind[e] = "signal" /\ Running(a, e)
    <3>1. /\ CondWait(a, "add", e, tv, 0) /\ base' = Waiting(base) /\ UNCHANGED loop
          /\ CanCall(a, "event_add") /\ Running(a, e)
      BY <1>3, <2>1 DEF event_add
    <3> QED
      BY <1>1, <1>2, <3>1, CondWaitStep
  <2>2. CASE ~(Kind[e] = "signal" /\ Running(a, e))
    BY <1>3, <2>2, AddNowCond, SameWaitersThreads, QuietStep DEF event_add
  <2> QED
    BY <2>1, <2>2
<1>4. ASSUME NEW e \in UserEvent, event_remove_timer(a, e)
      PROVE  WInv'
  BY <1>2, <1>4, SameWaitersThreads, QuietStep DEF event_remove_timer
<1>5. ASSUME NEW e \in UserEvent, NEW f, event_del(a, e, f)
      PROVE  WInv'
  <2>1. CASE f # "event_del_noblock" /\ Running(a, e)
               /\ (f = "event_del_block" \/ e \notin EvFinalize)
    <3>1. /\ CondWait(a, "del", e, NoTimeval, 0) /\ base' = Waiting(base) /\ UNCHANGED loop
          /\ CanCall(a, f) /\ Running(a, e)
      BY <1>5, <2>1 DEF event_del
    <3> QED
      BY <1>1, <1>2, <3>1, CondWaitStep
  <2>2. CASE ~(f # "event_del_noblock" /\ Running(a, e)
                 /\ (f = "event_del_block" \/ e \notin EvFinalize))
    <3>1. DelNow(a, e)
      BY <1>5, <2>2 DEF event_del
    <3>2. CASE a \in Thread /\ th' = Deleted(a, e)
      <4>1. th[a].pc = "idle"
        BY <1>5, <3>2, BaseAssumption DEF event_del, CanCall
      <4>2. SameWaiters
        BY <3>2, <4>1, SameWaitersExcept DEF Deleted, Idle
      <4> QED
        BY <3>1, <4>2, DelNowCond, QuietStep
    <3>3. CASE a \in Thread /\ f # "event_del_noblock" /\ e \notin EvFinalize
      <4>1. th' = Deleted(a, e)
        BY <1>5, <2>2, <3>3 DEF event_del
      <4> QED
        BY <3>1, <3>2, <3>3, <4>1
    <3>4. CASE ~(a \in Thread /\ f # "event_del_noblock" /\ e \notin EvFinalize)
      <4>1. th' = th
        BY <1>5, <2>2, <3>4 DEF event_del
      <4> QED
        BY <3>1, <4>1, DelNowCond, SameWaitersThreads, QuietStep
    <3> QED
      BY <3>3, <3>4
  <2> QED
    BY <2>1, <2>2
<1>6. ASSUME NEW e \in UserEvent, NEW n, event_active(a, e, n)
      PROVE  WInv'
  <2> DEFINE b == ActiveContinue(base, e)
  <2>1. b \in BaseFields /\ SameCond(base, b)
    BY <1>2, ContinueCond
  <2> HIDE DEF b
  <2>2. UNCHANGED loop /\ CanCall(a, "event_active")
    BY <1>6 DEF event_active
  <2>3. \/ UNCHANGED <<base, th>>
        \/ CondWait(a, "active", e, NoTimeval, n) /\ base' = Waiting(b) /\ Running(a, e)
        \/ base' \in {b, evthread_notify_base(b, a)} /\ UNCHANGED th
    BY <1>6 DEF event_active, ActivateNow, b
  <2>4. CASE UNCHANGED <<base, th>>
    BY <1>2, <2>2, <2>4, SameWaitersThreads, QuietStep
  <2>5. CASE CondWait(a, "active", e, NoTimeval, n) /\ base' = Waiting(b) /\ Running(a, e)
    BY <1>1, <1>2, <2>1, <2>2, <2>5, CondWaitStep
  <2>6. CASE base' \in {b, evthread_notify_base(b, a)} /\ UNCHANGED th
    BY <1>2, <2>1, <2>2, <2>6, NotifyCond, SameWaitersThreads, QuietStep
  <2> QED
    BY <2>3, <2>4, <2>5, <2>6
<1>7. ASSUME NEW e \in UserEvent, event_active_later_(a, e)
      PROVE  WInv'
  <2>1. base' \in {base, evthread_notify_base(base, a)} /\ UNCHANGED <<loop, th>>
    BY <1>7 DEF event_active_later_
  <2> QED
    BY <1>2, <2>1, NotifyCond, SameWaitersThreads, QuietStep
<1>8. ASSUME NEW e \in UserEvent, event_finalize(a, e)
      PROVE  WInv'
  <2> DEFINE b1 == DelNotifies(e, base, a)
             b == ActiveContinue(b1, e)
  <2>1. b1 \in BaseFields /\ SameCond(base, b1)
    BY <1>2, DelNotifiesTypes DEF SameRun, SameCond
  <2> HIDE DEF b1
  <2>2. b \in BaseFields /\ SameCond(base, b)
    BY <2>1, ContinueCond
  <2> HIDE DEF b
  <2>3. CanCall(a, "event_finalize") /\ loop' \in AbortLoop(e)
    BY <1>8 DEF event_finalize
  <2>4. SameLoop(loop, loop')
    BY <2>3, AbortLoopSame
  <2>5. \/ CondWait(a, "finalize", e, NoTimeval, 1) /\ base' = Waiting(b) /\ Running(a, e)
        \/ base' \in {b, evthread_notify_base(b, a)} /\ UNCHANGED th
    BY <1>8 DEF event_finalize, FinalizeNow, b, b1
  <2>6. CASE CondWait(a, "finalize", e, NoTimeval, 1) /\ base' = Waiting(b) /\ Running(a, e)
    BY <1>1, <2>2, <2>3, <2>4, <2>6, CondWaitStep
  <2>7. CASE base' \in {b, evthread_notify_base(b, a)} /\ UNCHANGED th
    BY <2>2, <2>4, <2>7, NotifyCond, SameWaitersThreads, QuietStep
  <2> QED
    BY <2>5, <2>6, <2>7
<1>9. ASSUME NEW c \in Deferred,
             \/ event_deferred_cb_schedule_(a, c)
             \/ event_deferred_cb_cancel_(a, c)
             \/ event_callback_finalize_(a, c)
      PROVE  WInv'
  <2> DEFINE b1 == [base EXCEPT !.n_deferreds_queued = @ + 1]
  <2>1. b1 \in BaseFields /\ SameCond(base, b1)
    BY <1>2 DEF BaseFields, SameCond
  <2>2. base' \in {base, evthread_notify_base(base, a), b1, evthread_notify_base(b1, a)}
        /\ UNCHANGED <<loop, th>>
    BY <1>9 DEF event_deferred_cb_schedule_, event_deferred_cb_cancel_, event_callback_finalize_
  <2> HIDE DEF b1
  <2> QED
    BY <1>2, <2>1, <2>2, NotifyCond, SameWaitersThreads, QuietStep
<1>10. ASSUME NEW tv, event_base_loopexit(a, tv)
       PROVE  WInv'
  <2> DEFINE b == ActiveContinue(base, ExitEv)
  <2>1. b \in BaseFields /\ SameCond(base, b)
    BY <1>2, ContinueCond
  <2> HIDE DEF b
  <2>2. UNCHANGED <<loop, th>>
    BY <1>10 DEF event_base_loopexit
  <2>3. CASE tv \in {NoTimeval, 0}
    <3>1. base' \in {b, evthread_notify_base(b, a)}
      BY <1>10, <2>3 DEF event_base_loopexit, ActivateNow, b
    <3> QED
      BY <1>2, <2>1, <2>2, <3>1, NotifyCond, SameWaitersThreads, QuietStep
  <2>4. CASE tv \notin {NoTimeval, 0}
    <3>1. \E v : base' = AddNotifies(q, ExitEv, tv, v, base, a)
      BY <1>10, <2>4 DEF event_base_loopexit
    <3>2. SameCond(base, base')
      BY <1>2, <3>1, AddNotifiesTypes DEF SameRun, SameCond
    <3> QED
      BY <1>2, <2>2, <3>2, SameWaitersThreads, QuietStep
  <2> QED
    BY <2>3, <2>4
<1>11. CASE \/ event_base_loopbreak(a) \/ event_base_loopcontinue(a)
            \/ event_base_add_virtual_(a) \/ event_base_del_virtual_(a)
  <2> DEFINE b1 == [base EXCEPT !.event_break = TRUE]
             b2 == [base EXCEPT !.event_continue = TRUE]
             b3 == [base EXCEPT !.virtual_event_count = @ + 1]
             b4 == [base EXCEPT !.virtual_event_count = @ - 1]
  <2>1. /\ b1 \in BaseFields /\ SameCond(base, b1)
        /\ b2 \in BaseFields /\ SameCond(base, b2)
        /\ b3 \in BaseFields /\ SameCond(base, b3)
        /\ base.virtual_event_count > 0 => b4 \in BaseFields /\ SameCond(base, b4)
    <3>1. b1 \in BaseFields /\ SameCond(base, b1)
      BY <1>2 DEF BaseFields, SameCond
    <3>2. b2 \in BaseFields /\ SameCond(base, b2)
      BY <1>2 DEF BaseFields, SameCond
    <3>3. b3 \in BaseFields /\ SameCond(base, b3)
      BY <1>2 DEF BaseFields, SameCond
    <3>4. ASSUME base.virtual_event_count > 0
          PROVE  b4 \in BaseFields /\ SameCond(base, b4)
      BY <1>2, <3>4 DEF BaseFields, SameCond
    <3> QED
      BY <3>1, <3>2, <3>3, <3>4
  <2>2. /\ \/ base' = evthread_notify_base(b1, a)
           \/ base' = evthread_notify_base(b2, a)
           \/ base' = b3
           \/ base.virtual_event_count > 0 /\ base' \in {b4, evthread_notify_base(b4, a)}
        /\ UNCHANGED <<loop, th>>
    BY <1>11 DEF event_base_loopbreak, event_base_loopcontinue, event_base_add_virtual_,
                 event_base_del_virtual_
  <2> HIDE DEF b1, b2, b3, b4
  <2>3. SameCond(base, base')
    BY <2>1, <2>2, NotifyCond
  <2> QED
    BY <1>2, <2>2, <2>3, SameWaitersThreads, QuietStep
<1> QED
  BY <1>3, <1>4, <1>5, <1>6, <1>7, <1>8, <1>9, <1>10, <1>11 DEF Api

\* A thread that goes on after its wait keeps WInv.
LEMMA ThreadWInv ==
  ASSUME IInv, WInv, NEW t \in Thread, ThreadResume(t) \/ ThreadIdle(t)
  PROVE  WInv'
<1> DEFINE e == th[t].ev
<1>1. CASE ThreadResume(t)
  <2>1. th[t].pc = "woken" /\ th' \in {[th EXCEPT ![t] = Idle], Deleted(t, e)}
    BY <1>1 DEF ThreadResume
  <2>2. SameWaiters
    BY <2>1, SameWaitersExcept DEF Deleted, Idle
  <2>3. \/ DelNow(t, e) \/ AddNow(t, e, th[t].tv)
        \/ base' \in {base, evthread_notify_base(base, t)} /\ UNCHANGED loop
    BY <1>1 DEF ThreadResume, ActivateNow, FinalizeNow
  <2>4. SameCond(base, base') /\ SameLoop(loop, loop')
    BY <2>3, DelNowCond, AddNowCond, NotifyCond, SameBase, Parts
  <2> QED
    BY <2>2, <2>4, QuietStep
<1>2. CASE ThreadIdle(t)
  <2>1. SameWaiters /\ UNCHANGED <<base, loop>>
    BY <1>2, SameWaitersExcept DEF ThreadIdle, Idle
  <2> QED
    BY <2>1, SameBase, Parts, QuietStep
<1> QED
  BY <1>1, <1>2

\* The return of event_base_loop does not disturb the waiters.
LEMMA ExitCond ==
  ASSUME NEW b \in BaseFields, SameCond(base, b), LoopExit(b)
  PROVE  SameCond(base, base')
<1>1. base' = [clear_time_cache(b) EXCEPT !.running_loop = FALSE]
  BY DEF LoopExit
<1> QED
  BY <1>1 DEF clear_time_cache, BaseFields, SameCond

\* Nor does the return of event_process_active.
LEMMA ProcessDoneCond ==
  ASSUME NEW b \in BaseFields, SameCond(base, b), NEW l, NEW n, ProcessDone(b, l, n)
  PROVE  SameCond(base, base')
<1> DEFINE b1 == [b EXCEPT !.event_running_priority = -1]
<1>1. b1 \in BaseFields /\ SameCond(base, b1)
  BY DEF BaseFields, SameCond
<1>2. LoopExit(b1) \/ base' = b1
  BY DEF ProcessDone
<1> HIDE DEF b1
<1> QED
  BY <1>1, <1>2, ExitCond

\* Nor does its turn to another queue.
LEMMA ProcessFromCond ==
  ASSUME NEW b \in BaseFields, SameCond(base, b), NEW l, NEW i, ProcessFrom(b, l, i)
  PROVE  SameCond(base, base')
<1>1. CASE ProcessDone(b, l, 0)
  BY <1>1, ProcessDoneCond
<1>2. CASE base' = [b EXCEPT !.event_running_priority = FirstQueue(i)]
  BY <1>2 DEF BaseFields, SameCond
<1> QED
  BY <1>1, <1>2 DEF ProcessFrom

\* Nor does the end of a queue.
LEMMA QueueDoneCond ==
  ASSUME NEW b \in BaseFields, SameCond(base, b), NEW l, QueueDone(b, l)
  PROVE  SameCond(base, base')
  BY ProcessDoneCond, ProcessFromCond DEF QueueDone

\* Nor does a change of tv_cache.
LEMMA TimeCond ==
  ASSUME IInv
  PROVE  /\ clear_time_cache(base) \in BaseFields
         /\ SameCond(base, clear_time_cache(base))
         /\ update_time_cache(base) \in BaseFields
         /\ SameCond(base, update_time_cache(base))
  BY Parts, TimeTypes DEF SameRun, SameCond

\* The steps of the loop outside of the callbacks do not disturb the waiters.
LEMMA LoopCond ==
  ASSUME IInv,
         \/ LoopTop \/ LoopMakeLaterActive \/ LoopDispatch
         \/ (\E ready : SelectReturn(ready)) \/ SelectFails
         \/ LoopRelock \/ LoopUpdateTime \/ LoopTimeoutsDone \/ LoopProcess
         \/ (\E e \in Event : LoopActivate(e) \/ LoopTimeout(e))
         \/ LoopQueueEmpty \/ LoopAfter
  PROVE  /\ SameCond(base, base')
         /\ UNCHANGED th
         /\ loop.pc \notin {"count", "callback", "drain", "return", "out"}
<1>1. base \in BaseFields /\ SameCond(base, base)
  BY Parts, SameBase
<1>2. CASE LoopTop
  <2> DEFINE b == [base EXCEPT !.event_continue = FALSE, !.n_deferreds_queued = 0]
  <2>1. b \in BaseFields /\ SameCond(base, b)
    BY <1>1 DEF BaseFields, SameCond
  <2>2. LoopExit(b) \/ base' = b
    BY <1>2 DEF LoopTop
  <2> HIDE DEF b
  <2>3. SameCond(base, base')
    BY <2>1, <2>2, ExitCond
  <2> QED
    BY <1>2, <2>3 DEF LoopTop
<1>3. CASE LoopMakeLaterActive
  <2>1. \E k : base' = [base EXCEPT !.n_deferreds_queued = k]
    BY <1>3 DEF LoopMakeLaterActive
  <2>2. SameCond(base, base')
    BY <1>1, <2>1 DEF BaseFields, SameCond
  <2> QED
    BY <1>3, <2>2 DEF LoopMakeLaterActive
<1>4. CASE LoopDispatch
  BY <1>4, TimeCond DEF LoopDispatch
<1>5. CASE \E ready : SelectReturn(ready)
  BY <1>1, <1>5 DEF SelectReturn
<1>6. CASE SelectFails
  BY <1>1, <1>6, ExitCond DEF SelectFails
<1>7. CASE LoopRelock
  BY <1>1, <1>7 DEF LoopRelock
<1>8. CASE LoopUpdateTime
  BY <1>8, TimeCond DEF LoopUpdateTime
<1>9. CASE LoopTimeoutsDone
  BY <1>1, <1>9 DEF LoopTimeoutsDone
<1>10. CASE LoopProcess
  <2> DEFINE b == IF MaxDispatchTime = -1 THEN base ELSE update_time_cache(base)
  <2>1. b \in BaseFields /\ SameCond(base, b)
    BY <1>1, TimeCond
  <2>2. (\E l, i : ProcessFrom(b, l, i)) \/ LoopExit(base) \/ UNCHANGED base
    BY <1>10 DEF LoopProcess
  <2> HIDE DEF b
  <2>3. SameCond(base, base')
    BY <1>1, <2>1, <2>2, ProcessFromCond, ExitCond
  <2> QED
    BY <1>10, <2>3 DEF LoopProcess
<1>11. CASE \E e \in Event : LoopActivate(e) \/ LoopTimeout(e)
  <2>1. PICK e \in Event : LoopActivate(e) \/ LoopTimeout(e)
    BY <1>11
  <2>2. base' \in {base, ActiveContinue(base, e)}
    BY <2>1 DEF LoopActivate, LoopTimeout
  <2>3. SameCond(base, base')
    BY <1>1, <2>2, ContinueCond
  <2>4. UNCHANGED th /\ loop.pc \in {"activate", "timeouts"}
    BY <2>1 DEF LoopActivate, LoopTimeout
  <2> QED
    BY <2>3, <2>4
<1>12. CASE LoopQueueEmpty
  BY <1>1, <1>12, QueueDoneCond DEF LoopQueueEmpty
<1>13. CASE LoopAfter
  <2>1. \E b \in {base, update_time_cache(base)} :
          \/ \E n : ProcessDone(b, loop, n)
          \/ QueueDone(b, loop)
          \/ base' = b
    BY <1>13 DEF LoopAfter
  <2>2. SameCond(base, base')
    BY <1>1, <2>1, TimeCond, ProcessDoneCond, QueueDoneCond
  <2> QED
    BY <1>13, <2>2 DEF LoopAfter
<1> QED
  BY <1>2, <1>3, <1>4, <1>5, <1>6, <1>7, <1>8, <1>9, <1>10, <1>11, <1>12, <1>13

\* The loop takes a callback when nobody waits: resetting the count loses no waiter.
LEMMA RunWInv ==
  ASSUME IInv, WInv, LoopRun
  PROVE  WInv'
<1> DEFINE c == Head(q.activequeues[base.event_running_priority])
           finalizer == ev[c].closure \in {"finalize", "cb_finalize"}
<1>1. loop.pc = "queue" /\ base.current_event = NoCallback /\ base.th_owner_id = LoopThread
  BY DEF LoopRun, WInv
<1>2. CondWaiters = {} /\ CondWaiters' = {}
  BY <1>1, NobodyWaits, SameWaitersThreads DEF LoopRun, SameWaiters
<1>3. /\ base' = [base EXCEPT !.current_event = IF finalizer THEN NoCallback ELSE c,
                              !.current_event_waiters = 0]
      /\ loop'.pc \in {"return", "count", "callback"} /\ loop'.running = c
  <2>1. base' = [base EXCEPT !.current_event = IF finalizer THEN NoCallback ELSE c,
                             !.current_event_waiters = 0]
    BY DEF LoopRun
  <2>2. loop'.pc \in {"return", "count", "callback"} /\ loop'.running = c
    BY Parts DEF LoopRun, LoopLocals
  <2> QED
    BY <2>1, <2>2
<1> HIDE DEF c, finalizer
<1>4. /\ base'.current_event \in {NoCallback, c}
      /\ base'.current_event_waiters = 0
      /\ base'.th_owner_id = LoopThread
  BY <1>1, <1>3, Parts DEF BaseFields
<1> QED
  BY <1>2, <1>3, <1>4, FS_EmptySet DEF WInv

\* When the callback has returned every waiter is woken, or there was none.
LEMMA ReturnWInv ==
  ASSUME IInv, WInv, LoopReturn
  PROVE  WInv'
<1>1. loop.pc \in {"return", "callback"} /\ base.th_owner_id = LoopThread
  BY DEF LoopReturn, WInv
<1>2. /\ base'.current_event = NoCallback
      /\ base'.current_event_waiters = 0
      /\ base'.th_owner_id = LoopThread
  BY <1>1, Parts DEF LoopReturn, BaseFields
<1>3. CondWaiters' = {}
  <2>1. CASE base.current_event_waiters = 0
    <3>1. IsFiniteSet(CondWaiters)
      BY BaseAssumption, FS_Subset DEF CondWaiters
    <3>2. CondWaiters = {}
      BY <2>1, <3>1, FS_EmptySet DEF WInv
    <3>3. UNCHANGED th
      BY <2>1 DEF LoopReturn
    <3> QED
      BY <3>2, <3>3, SameWaitersThreads DEF SameWaiters
  <2>2. CASE base.current_event_waiters # 0
    <3>1. th' = EVTHREAD_COND_BROADCAST
      BY <2>2 DEF LoopReturn
    <3>2. ASSUME NEW t \in Thread
          PROVE  th'[t].pc # "wait"
      <4>1. th[t] \in ThreadLocals
        BY Parts
      <4>2. CASE t \in CondWaiters
        <5>1. th'[t] = [th[t] EXCEPT !.pc = "woken"]
          BY <3>1, <4>2 DEF EVTHREAD_COND_BROADCAST, Woken
        <5> QED
          BY <4>1, <5>1 DEF ThreadLocals
      <4>3. CASE t \notin CondWaiters
        <5>1. th'[t] = th[t]
          BY <3>1, <4>3 DEF EVTHREAD_COND_BROADCAST, Woken
        <5> QED
          BY <4>3, <5>1 DEF CondWaiters
      <4> QED
        BY <4>2, <4>3
    <3> QED
      BY <3>2 DEF CondWaiters
  <2> QED
    BY <2>1, <2>2
<1> QED
  BY <1>2, <1>3, FS_EmptySet DEF WInv

\* event_base_loop is called when nobody waits.
LEMMA EnterWInv ==
  ASSUME IInv, WInv, LoopEnter
  PROVE  WInv'
<1>1. base' = [clear_time_cache(base) EXCEPT
                 !.running_loop = TRUE, !.th_owner_id = LoopThread,
                 !.event_gotterm = FALSE, !.event_break = FALSE]
  BY DEF LoopEnter
<1>2. /\ base'.current_event = base.current_event
      /\ base'.current_event_waiters = base.current_event_waiters
      /\ base'.th_owner_id = LoopThread
  BY <1>1, TimeCond DEF SameCond, BaseFields
<1>3. base.current_event = NoCallback
  BY DEF LoopEnter, WInv
<1>4. SameWaiters
  BY SameWaitersThreads DEF LoopEnter
<1> QED
  BY <1>2, <1>3, <1>4 DEF WInv, SameWaiters

\* The steps of the loop inside of a callback keep WInv.
LEMMA CallbackWInv ==
  ASSUME IInv, WInv, SignalCount \/ SignalAgain \/ NotifyDrain \/ NotifyDrained
  PROVE  WInv'
<1>1. SameWaiters
  BY SameWaitersThreads DEF SignalCount, SignalAgain, NotifyDrain, NotifyDrained
<1>2. SameCond(base, base')
  BY Parts DEF SignalCount, SignalAgain, NotifyDrain, NotifyDrained, BaseFields, SameCond
<1>3. /\ loop.pc \in {"count", "callback", "drain"}
      /\ loop'.pc \in {"count", "callback", "drain", "return"}
      /\ loop'.running = loop.running
  BY Parts DEF SignalCount, SignalAgain, NotifyDrain, NotifyDrained, LoopLocals
<1> QED
  BY <1>1, <1>2, <1>3 DEF WInv, SameWaiters, SameCond

\* Nobody waits on a new base.
LEMMA InitWInv == Init => WInv
<1> SUFFICES ASSUME Init
             PROVE  WInv
  OBVIOUS
<1>1. CondWaiters = {}
  BY DEF Init, Idle, CondWaiters
<1>2. base.current_event = NoCallback /\ base.current_event_waiters = 0 /\ loop.pc = "out"
  BY DEF Init, Outside
<1> QED
  BY <1>1, <1>2, FS_EmptySet DEF WInv

\* Every step keeps WInv.
LEMMA NextWInv == IInv /\ WInv /\ [Next]_vars => WInv'
<1> SUFFICES ASSUME IInv, WInv, [Next]_vars
             PROVE  WInv'
  OBVIOUS
<1>1. CASE \E a \in Actor : Api(a)
  BY <1>1, ApiWInv
<1>2. CASE \E t \in Thread : ThreadResume(t) \/ ThreadIdle(t)
  BY <1>2, ThreadWInv
<1>3. CASE LoopStep \/ FdsReady \/ SelectFails
  <2>1. CASE LoopRun \/ LoopReturn \/ SignalCount \/ SignalAgain \/ NotifyDrain \/ NotifyDrained
    BY <2>1, RunWInv, ReturnWInv, CallbackWInv
  <2>2. CASE \/ LoopTop \/ LoopMakeLaterActive \/ LoopDispatch
             \/ (\E ready : SelectReturn(ready)) \/ SelectFails
             \/ LoopRelock \/ LoopUpdateTime \/ LoopTimeoutsDone \/ LoopProcess
             \/ (\E e \in Event : LoopActivate(e) \/ LoopTimeout(e))
             \/ LoopQueueEmpty \/ LoopAfter
    BY <2>2, LoopCond, SameWaitersThreads, IdleLoopStep
  <2> QED
    BY <1>3, <2>1, <2>2 DEF LoopStep, FdsReady
<1>4. CASE LoopEnter
  BY <1>4, EnterWInv
<1>5. CASE Tick
  <2>1. UNCHANGED <<base, loop, th>>
    BY <1>5 DEF Tick
  <2> QED
    BY <2>1, SameWaitersThreads, SameBase, Parts, QuietStep
<1>6. CASE UNCHANGED vars
  <2>1. UNCHANGED <<base, loop, th>>
    BY <1>6 DEF vars
  <2> QED
    BY <2>1, SameWaitersThreads, SameBase, Parts, QuietStep
<1> QED
  BY <1>1, <1>2, <1>3, <1>4, <1>5, <1>6 DEF Next

\* A thread waits for a callback only while the loop thread runs that callback, and is
\* counted in current_event_waiters, so that LoopReturn broadcasts for it.
THEOREM WaitersAlwaysServed == Spec => []WaitersServed
<1>1. IInv /\ WInv => WaitersServed
  <2> SUFFICES ASSUME IInv, WInv
               PROVE  WaitersServed
    OBVIOUS
  <2>1. ASSUME NEW t \in CondWaiters
        PROVE  /\ th[t].ev = base.current_event
               /\ loop.running = th[t].ev
               /\ loop.pc \in {"count", "callback", "drain", "return"}
    <3>1. th[t].ev = base.current_event
      BY DEF WInv
    <3>2. th[t].ev \in Callback
      BY Parts DEF CondWaiters
    <3>3. base.current_event # NoCallback
      BY <3>1, <3>2, BaseAssumption
    <3> QED
      BY <3>1, <3>3 DEF WInv
  <2> QED
    BY <2>1 DEF WaitersServed, WInv, CondWaiters
<1> QED
  BY <1>1, InitWInv, NextWInv, Invariant, PTL DEF Spec
=============================================================================
