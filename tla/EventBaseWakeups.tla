--------------------------- MODULE EventBaseWakeups ---------------------------
(***************************************************************************)
(* Theorems of EventBase about the sleep of the loop, event_del,           *)
(* event_base_loopbreak and event_finalize, for any number of threads,     *)
(* events, deferred callbacks and priorities.                              *)
(*                                                                         *)
(* A call of the API has one callback it is about, and either wakes the    *)
(* loop or gives it no reason to wake up: ApiEffect says so.  The          *)
(* inductive invariant KInv has six parts, which relate the notification,  *)
(* the callers, the sleep of the loop, its length, event_base_loopbreak    *)
(* and the callbacks that are registered to the place of the loop.  It     *)
(* rests on those of EventBaseProofs: IInv, the types and the queues, and  *)
(* WInv, the waiting threads.  FInv, for the finalizers, says of every     *)
(* callback what its flags are by what has been asked of it.               *)
(*                                                                         *)
(* OInv, for the priorities, relates the queue that is worked on to the    *)
(* callbacks that are active and to event_continue.  SInv, for the signal  *)
(* events, relates ev_ncalls and ev_pncalls to their flags, to the calls   *)
(* that the loop has still to make and to the threads that wait in         *)
(* event_active.                                                           *)
(***************************************************************************)
EXTENDS EventBaseProofs

-----------------------------------------------------------------------------
(* What the functions on the queues do to the flags of a callback.         *)

\* The queues r differ from s, of what the proofs below depend on, in the flags of c, which
\* are F, and in event_count_active, which is not higher.
Lowers(s, r, c, F) ==
  /\ r.flags = [s.flags EXCEPT ![c] = F]
  /\ r.event_count_active <= s.event_count_active

\* The counter, and a set of flags for every callback.
LEMMA GoodFields ==
  ASSUME NEW s, Good(s)
  PROVE  /\ s \in Queues
         /\ s.flags \in [Callback -> SUBSET Flag]
         /\ s.event_count_active \in Int
         /\ s.timeheap = With(s, "TIMEOUT")
         /\ \A c \in Callback : ~({"ACTIVE", "ACTIVE_LATER"} \subseteq s.flags[c])
  BY DEF Good, Queues, QueuesOK, HeapListed, NeverBoth, With

\* The functions that take a callback out of one list, field by field.
LEMMA RemoveEffect ==
  ASSUME NEW s, Good(s), NEW c \in Callback
  PROVE  /\ LET r == event_queue_remove_inserted(s, c)
            IN  /\ r.timeheap = s.timeheap
                /\ Lowers(s, r, c, s.flags[c] \ {"INSERTED"})
         /\ LET r == event_queue_remove_timeout(s, c)
            IN  /\ r.timeheap = s.timeheap \ {c}
                /\ Lowers(s, r, c, s.flags[c] \ {"TIMEOUT"})
         /\ LET r == event_queue_remove_active(s, c)
            IN  /\ r.timeheap = s.timeheap
                /\ Lowers(s, r, c, s.flags[c] \ {"ACTIVE"})
         /\ LET r == event_queue_remove_active_later(s, c)
            IN  /\ r.timeheap = s.timeheap
                /\ Lowers(s, r, c, s.flags[c] \ {"ACTIVE_LATER"})
<1>1. s \in Queues /\ s.event_count_active \in Int
  BY GoodFields
<1>2. LET r == event_queue_remove_inserted(s, c)
      IN  /\ r.timeheap = s.timeheap
          /\ Lowers(s, r, c, s.flags[c] \ {"INSERTED"})
  BY <1>1 DEF Queues, Lowers, event_queue_remove_inserted
<1>3. LET r == event_queue_remove_timeout(s, c)
      IN  /\ r.timeheap = s.timeheap \ {c}
          /\ Lowers(s, r, c, s.flags[c] \ {"TIMEOUT"})
  BY <1>1 DEF Queues, Lowers, event_queue_remove_timeout
<1>4. LET r == event_queue_remove_active(s, c)
      IN  /\ r.timeheap = s.timeheap
          /\ Lowers(s, r, c, s.flags[c] \ {"ACTIVE"})
  BY <1>1 DEF Queues, Lowers, event_queue_remove_active
<1>5. LET r == event_queue_remove_active_later(s, c)
      IN  /\ r.timeheap = s.timeheap
          /\ Lowers(s, r, c, s.flags[c] \ {"ACTIVE_LATER"})
  BY <1>1 DEF Queues, Lowers, event_queue_remove_active_later
<1> QED
  BY <1>2, <1>3, <1>4, <1>5

\* Two such changes of the same callback.
LEMMA LowersTwice ==
  ASSUME NEW s, Good(s), NEW r, Good(r), NEW u, Good(u), NEW c \in Callback, NEW F, NEW G,
         Lowers(s, r, c, F), Lowers(r, u, c, G)
  PROVE  Lowers(s, u, c, G)
<1>1. /\ s.flags \in [Callback -> SUBSET Flag]
      /\ s.event_count_active \in Int
      /\ r.event_count_active \in Int
      /\ u.event_count_active \in Int
  BY GoodFields
<1>2. u.flags = [s.flags EXCEPT ![c] = G]
  BY <1>1 DEF Lowers
<1>3. u.event_count_active <= s.event_count_active
  BY <1>1 DEF Lowers
<1> QED
  BY <1>2, <1>3 DEF Lowers

\* event_del_nolock_ takes the event out of every list.
LEMMA DelEffect ==
  ASSUME NEW s, Good(s), NEW e \in Event
  PROVE  LET r == event_del_nolock_(s, e)
         IN  /\ Lowers(s, r, e, s.flags[e] \ Registration)
             /\ r.timeheap = s.timeheap \ {e}
             /\ s.flags[e] \cap Registration = {} => r = s
<1> DEFINE s1 == IF "TIMEOUT" \in s.flags[e] THEN event_queue_remove_timeout(s, e) ELSE s
           s2 == IF "ACTIVE" \in s.flags[e] THEN event_queue_remove_active(s1, e)
                 ELSE IF "ACTIVE_LATER" \in s.flags[e]
                        THEN event_queue_remove_active_later(s1, e)
                 ELSE s1
           r == event_del_nolock_(s, e)
<1>1. /\ e \in Callback /\ s.flags \in [Callback -> SUBSET Flag] /\ s.event_count_active \in Int
      /\ s.timeheap = With(s, "TIMEOUT")
      /\ ~({"ACTIVE", "ACTIVE_LATER"} \subseteq s.flags[e])
  BY GoodFields DEF Callback
<1>2. /\ Good(s1) /\ Lowers(s, s1, e, s.flags[e] \ {"TIMEOUT"})
      /\ s1.timeheap = s.timeheap \ {e}
  <2>1. CASE "TIMEOUT" \in s.flags[e]
    BY <1>1, <2>1, RemoveTimeoutGood, RemoveEffect
  <2>2. CASE "TIMEOUT" \notin s.flags[e]
    <3>1. e \notin s.timeheap
      BY <1>1, <2>2 DEF With
    <3>2. s.flags[e] \ {"TIMEOUT"} = s.flags[e]
      BY <2>2
    <3>3. s1 = s /\ [s.flags EXCEPT ![e] = s.flags[e]] = s.flags
      BY <1>1, <2>2
    <3> HIDE DEF s1
    <3> QED
      BY <1>1, <3>1, <3>2, <3>3 DEF Lowers
  <2> QED
    BY <2>1, <2>2
<1>3. s1.flags[e] = s.flags[e] \ {"TIMEOUT"}
  BY <1>1, <1>2 DEF Lowers
<1>4. r = IF "INSERTED" \in s.flags[e] THEN event_queue_remove_inserted(s2, e) ELSE s2
  BY DEF event_del_nolock_
<1>5. s.flags[e] \cap Registration = {} => r = s
  BY <1>4 DEF Registration
<1> HIDE DEF s1, s2, r
<1>6. /\ Good(s2) /\ s2.timeheap = s.timeheap \ {e}
      /\ Lowers(s, s2, e, s.flags[e] \ {"TIMEOUT", "ACTIVE", "ACTIVE_LATER"})
  <2>1. CASE "ACTIVE" \in s.flags[e]
    <3>1. s2 = event_queue_remove_active(s1, e)
      BY <2>1 DEF s2
    <3>2. Good(s2)
      BY <1>1, <1>2, <1>3, <2>1, <3>1, RemoveActiveGood
    <3>3. s2.timeheap = s1.timeheap /\ Lowers(s1, s2, e, s1.flags[e] \ {"ACTIVE"})
      BY <1>1, <1>2, <3>1, RemoveEffect
    <3>4. s1.flags[e] \ {"ACTIVE"} = s.flags[e] \ {"TIMEOUT", "ACTIVE", "ACTIVE_LATER"}
      BY <1>1, <1>3, <2>1
    <3> QED
      BY <1>1, <1>2, <3>2, <3>3, <3>4, LowersTwice
  <2>2. CASE "ACTIVE" \notin s.flags[e] /\ "ACTIVE_LATER" \in s.flags[e]
    <3>1. s2 = event_queue_remove_active_later(s1, e)
      BY <2>2 DEF s2
    <3>2. Good(s2)
      BY <1>1, <1>2, <1>3, <2>2, <3>1, RemoveLaterGood
    <3>3. s2.timeheap = s1.timeheap /\ Lowers(s1, s2, e, s1.flags[e] \ {"ACTIVE_LATER"})
      BY <1>1, <1>2, <3>1, RemoveEffect
    <3>4. s1.flags[e] \ {"ACTIVE_LATER"} = s.flags[e] \ {"TIMEOUT", "ACTIVE", "ACTIVE_LATER"}
      BY <1>1, <1>3, <2>2
    <3> QED
      BY <1>1, <1>2, <3>2, <3>3, <3>4, LowersTwice
  <2>3. CASE "ACTIVE" \notin s.flags[e] /\ "ACTIVE_LATER" \notin s.flags[e]
    <3>1. s2 = s1
      BY <2>3 DEF s2
    <3>2. s.flags[e] \ {"TIMEOUT"} = s.flags[e] \ {"TIMEOUT", "ACTIVE", "ACTIVE_LATER"}
      BY <2>3
    <3> QED
      BY <1>2, <3>1, <3>2
  <2> QED
    BY <2>1, <2>2, <2>3
<1>7. s2.flags[e] = s.flags[e] \ {"TIMEOUT", "ACTIVE", "ACTIVE_LATER"}
  BY <1>1, <1>6 DEF Lowers
<1>8. Lowers(s, r, e, s.flags[e] \ Registration) /\ r.timeheap = s.timeheap \ {e}
  <2>1. CASE "INSERTED" \in s.flags[e]
    <3>1. r = event_queue_remove_inserted(s2, e)
      BY <1>4, <2>1
    <3>2. Good(r)
      BY <1>6, <1>7, <2>1, <3>1, RemoveInsertedGood
    <3>3. r.timeheap = s2.timeheap /\ Lowers(s2, r, e, s2.flags[e] \ {"INSERTED"})
      BY <1>1, <1>6, <3>1, RemoveEffect
    <3>4. s2.flags[e] \ {"INSERTED"} = s.flags[e] \ Registration
      BY <1>7 DEF Registration
    <3> QED
      BY <1>1, <1>6, <3>2, <3>3, <3>4, LowersTwice
  <2>2. CASE "INSERTED" \notin s.flags[e]
    <3>1. r = s2
      BY <1>4, <2>2
    <3>2. s.flags[e] \ Registration = s.flags[e] \ {"TIMEOUT", "ACTIVE", "ACTIVE_LATER"}
      BY <2>2 DEF Registration
    <3> QED
      BY <1>6, <3>1, <3>2
  <2> QED
    BY <2>1, <2>2
<1> QED
  BY <1>5, <1>8 DEF r

\* The functions that put a callback on a list, field by field.
LEMMA InsertEffect ==
  ASSUME NEW s, Good(s), NEW c \in Callback
  PROVE  /\ LET r == event_queue_insert_inserted(s, c)
            IN  /\ r.timeheap = s.timeheap
                /\ Lowers(s, r, c, s.flags[c] \cup {"INSERTED"})
         /\ LET r == event_queue_insert_timeout(s, c)
            IN  /\ r.timeheap = s.timeheap \cup {c}
                /\ Lowers(s, r, c, s.flags[c] \cup {"TIMEOUT"})
         /\ LET r == event_queue_insert_active(s, c)
            IN  /\ r.timeheap = s.timeheap
                /\ r.flags = [s.flags EXCEPT ![c] = s.flags[c] \cup {"ACTIVE"}]
         /\ LET r == event_queue_insert_active_later(s, c)
            IN  /\ r.timeheap = s.timeheap
                /\ \/ r = s
                   \/ r.flags = [s.flags EXCEPT ![c] = s.flags[c] \cup {"ACTIVE_LATER"}]
         /\ LET r == SetFinalizing(s, c)
            IN  /\ r.timeheap = s.timeheap
                /\ r.event_count = s.event_count
                /\ r.event_count_active = s.event_count_active
                /\ r.flags = [s.flags EXCEPT ![c] = s.flags[c] \cup {"FINALIZING"}]
<1>1. s \in Queues /\ s.event_count_active \in Int /\ s.flags \in [Callback -> SUBSET Flag]
  BY GoodFields
<1>2. LET r == event_queue_insert_inserted(s, c)
      IN  /\ r.timeheap = s.timeheap
          /\ Lowers(s, r, c, s.flags[c] \cup {"INSERTED"})
  BY <1>1 DEF Queues, Lowers, event_queue_insert_inserted
<1>3. LET r == event_queue_insert_timeout(s, c)
      IN  /\ r.timeheap = s.timeheap \cup {c}
          /\ Lowers(s, r, c, s.flags[c] \cup {"TIMEOUT"})
  BY <1>1 DEF Queues, Lowers, event_queue_insert_timeout
<1>4. LET r == event_queue_insert_active(s, c)
      IN  /\ r.timeheap = s.timeheap
          /\ r.flags = [s.flags EXCEPT ![c] = s.flags[c] \cup {"ACTIVE"}]
  <2>1. CASE "ACTIVE" \in s.flags[c]
    <3>1. s.flags[c] \cup {"ACTIVE"} = s.flags[c]
      BY <2>1
    <3> QED
      BY <1>1, <2>1, <3>1 DEF event_queue_insert_active
  <2>2. CASE "ACTIVE" \notin s.flags[c]
    BY <1>1, <2>2 DEF Queues, event_queue_insert_active
  <2> QED
    BY <2>1, <2>2
<1>5. LET r == event_queue_insert_active_later(s, c)
      IN  /\ r.timeheap = s.timeheap
          /\ \/ r = s
             \/ r.flags = [s.flags EXCEPT ![c] = s.flags[c] \cup {"ACTIVE_LATER"}]
  BY <1>1 DEF Queues, event_queue_insert_active_later
<1>6. LET r == SetFinalizing(s, c)
      IN  /\ r.timeheap = s.timeheap
          /\ r.event_count = s.event_count
          /\ r.event_count_active = s.event_count_active
          /\ r.flags = [s.flags EXCEPT ![c] = s.flags[c] \cup {"FINALIZING"}]
  BY <1>1 DEF Queues, SetFinalizing
<1> QED
  BY <1>2, <1>3, <1>4, <1>5, <1>6

\* event_add_nolock_ puts the event in the backend or in the heap, and nowhere else.
LEMMA AddEffect ==
  ASSUME NEW s, Good(s), NEW e \in Event, NEW tv
  PROVE  LET r == event_add_nolock_(s, e, tv)
         IN  /\ Lowers(s, r, e, r.flags[e])
             /\ r.flags[e] \subseteq s.flags[e] \cup {"INSERTED", "TIMEOUT"}
             /\ "INSERTED" \in r.flags[e] => "INSERTED" \in s.flags[e] \/ Inserts(s, e)
             /\ r.timeheap = IF tv = NoTimeval THEN s.timeheap ELSE s.timeheap \cup {e}
             /\ tv = NoTimeval /\ ~Inserts(s, e) => r = s
<1> DEFINE s1 == IF Inserts(s, e) THEN event_queue_insert_inserted(s, e) ELSE s
           s2 == IF "TIMEOUT" \in s.flags[e] THEN event_queue_remove_timeout(s1, e) ELSE s1
           late == "ACTIVE" \in s.flags[e] /\ "EV_TIMEOUT" \in ev[e].res
           s3 == IF late THEN event_queue_remove_active(s2, e) ELSE s2
           r == event_add_nolock_(s, e, tv)
           ins == IF Inserts(s, e) THEN {"INSERTED"} ELSE {}
           out == IF late THEN {"ACTIVE"} ELSE {}
<1>1. /\ e \in Callback /\ s.flags \in [Callback -> SUBSET Flag] /\ s.event_count_active \in Int
      /\ s.timeheap = With(s, "TIMEOUT")
  BY GoodFields DEF Callback
<1>2. r = IF tv = NoTimeval THEN s1 ELSE event_queue_insert_timeout(s3, e)
  BY DEF event_add_nolock_
<1> HIDE DEF late, r, s3, s2
<1>3. /\ Good(s1) /\ s1.timeheap = s.timeheap
      /\ Lowers(s, s1, e, s.flags[e] \cup ins)
  <2>1. CASE Inserts(s, e)
    BY <1>1, <2>1, InsertInsertedGood, InsertEffect DEF Inserts
  <2>2. CASE ~Inserts(s, e)
    <3>1. s1 = s /\ s.flags[e] \cup ins = s.flags[e] /\ [s.flags EXCEPT ![e] = s.flags[e]] = s.flags
      BY <1>1, <2>2
    <3> HIDE DEF s1, ins
    <3> QED
      BY <1>1, <3>1 DEF Lowers
  <2> QED
    BY <2>1, <2>2
<1>4. s1.flags[e] = s.flags[e] \cup ins
  BY <1>1, <1>3 DEF Lowers
<1>5. ~Inserts(s, e) => s1 = s
  OBVIOUS
<1>6. ins \subseteq {"INSERTED"} /\ (ins # {} => Inserts(s, e))
  OBVIOUS
<1>7. out \subseteq {"ACTIVE"} /\ (out # {} => "ACTIVE" \in s.flags[e])
  BY DEF late
<1> HIDE DEF s1, ins
<1>8. /\ Good(s2) /\ s2.timeheap = s.timeheap \ {e}
      /\ Lowers(s, s2, e, (s.flags[e] \cup ins) \ {"TIMEOUT"})
  <2>1. CASE "TIMEOUT" \in s.flags[e]
    <3>1. s2 = event_queue_remove_timeout(s1, e)
      BY <2>1 DEF s2
    <3>2. Good(s2)
      BY <1>1, <1>3, <1>4, <2>1, <3>1, RemoveTimeoutGood
    <3>3. s2.timeheap = s1.timeheap \ {e} /\ Lowers(s1, s2, e, s1.flags[e] \ {"TIMEOUT"})
      BY <1>1, <1>3, <3>1, RemoveEffect
    <3> QED
      BY <1>1, <1>3, <1>4, <3>2, <3>3, LowersTwice
  <2>2. CASE "TIMEOUT" \notin s.flags[e]
    <3>1. s2 = s1
      BY <2>2 DEF s2
    <3>2. e \notin s.timeheap
      BY <1>1, <2>2 DEF With
    <3>3. (s.flags[e] \cup ins) \ {"TIMEOUT"} = s.flags[e] \cup ins
      BY <1>6, <2>2
    <3> QED
      BY <1>3, <3>1, <3>2, <3>3
  <2> QED
    BY <2>1, <2>2
<1>9. s2.flags[e] = (s.flags[e] \cup ins) \ {"TIMEOUT"}
  BY <1>1, <1>8 DEF Lowers
<1>10. /\ Good(s3) /\ s3.timeheap = s.timeheap \ {e}
       /\ Lowers(s, s3, e, ((s.flags[e] \cup ins) \ {"TIMEOUT"}) \ out)
  <2>1. CASE late
    <3>1. s3 = event_queue_remove_active(s2, e) /\ "ACTIVE" \in s2.flags[e]
      BY <1>9, <2>1 DEF s3, late
    <3>2. Good(s3)
      BY <1>1, <1>8, <3>1, RemoveActiveGood
    <3>3. s3.timeheap = s2.timeheap /\ Lowers(s2, s3, e, s2.flags[e] \ {"ACTIVE"})
      BY <1>1, <1>8, <3>1, RemoveEffect
    <3>4. s2.flags[e] \ {"ACTIVE"} = ((s.flags[e] \cup ins) \ {"TIMEOUT"}) \ out
      BY <1>9, <2>1
    <3> QED
      BY <1>1, <1>8, <3>2, <3>3, <3>4, LowersTwice
  <2>2. CASE ~late
    BY <1>8, <2>2 DEF s3
  <2> QED
    BY <2>1, <2>2
<1>11. s3.flags[e] = ((s.flags[e] \cup ins) \ {"TIMEOUT"}) \ out
  BY <1>1, <1>10 DEF Lowers
<1> HIDE DEF out
<1>12. CASE tv = NoTimeval
  <2>1. r = s1
    BY <1>2, <1>12
  <2>2. Lowers(s, r, e, r.flags[e])
    BY <1>3, <1>4, <2>1
  <2> QED
    BY <1>3, <1>4, <1>5, <1>6, <1>12, <2>1, <2>2 DEF r
<1>13. CASE tv # NoTimeval
  <2>1. r = event_queue_insert_timeout(s3, e)
    BY <1>2, <1>13
  <2>2. Good(r)
    BY <1>10, <1>11, <2>1, InsertTimeoutGood
  <2>3. r.timeheap = s3.timeheap \cup {e} /\ Lowers(s3, r, e, s3.flags[e] \cup {"TIMEOUT"})
    <3>1. Good(s3) /\ e \in Callback
      BY <1>1, <1>10
    <3> QED
      BY <2>1, <3>1, InsertEffect
  <2>4. Lowers(s, r, e, s3.flags[e] \cup {"TIMEOUT"})
    BY <1>1, <1>10, <2>2, <2>3, LowersTwice
  <2>5. r.flags[e] = s3.flags[e] \cup {"TIMEOUT"}
    BY <1>1, <2>4 DEF Lowers
  <2>6. r.flags[e] \subseteq s.flags[e] \cup {"INSERTED", "TIMEOUT"}
    BY <1>6, <1>11, <2>5
  <2>7. "INSERTED" \in r.flags[e] => "INSERTED" \in s.flags[e] \/ Inserts(s, e)
    BY <1>6, <1>11, <2>5
  <2> QED
    BY <1>10, <1>13, <2>3, <2>4, <2>5, <2>6, <2>7 DEF r
<1> QED
  BY <1>12, <1>13

\* event_callback_activate_nolock_ puts the callback on its active queue.
LEMMA ActivateEffect ==
  ASSUME NEW s, Good(s), NEW c \in Callback
  PROVE  LET r == event_callback_activate_nolock_(s, c)
         IN  /\ r.flags = [s.flags EXCEPT ![c] = (s.flags[c] \ {"ACTIVE_LATER"}) \cup {"ACTIVE"}]
             /\ r.timeheap = s.timeheap
<1> DEFINE s1 == IF "ACTIVE_LATER" \in s.flags[c]
                   THEN event_queue_remove_active_later(s, c) ELSE s
<1>1. s.flags \in [Callback -> SUBSET Flag]
  BY GoodFields
<1>2. /\ Good(s1) /\ s1.timeheap = s.timeheap
      /\ s1.flags = [s.flags EXCEPT ![c] = s.flags[c] \ {"ACTIVE_LATER"}]
  <2>1. CASE "ACTIVE_LATER" \in s.flags[c]
    <3> DEFINE r == event_queue_remove_active_later(s, c)
    <3>1. Good(r)
      BY <2>1, RemoveLaterGood
    <3>2. r.timeheap = s.timeheap /\ Lowers(s, r, c, s.flags[c] \ {"ACTIVE_LATER"})
      BY RemoveEffect
    <3>3. s1 = r
      BY <2>1
    <3> HIDE DEF r, s1
    <3> QED
      BY <3>1, <3>2, <3>3 DEF Lowers
  <2>2. CASE "ACTIVE_LATER" \notin s.flags[c]
    <3>1. s.flags[c] \ {"ACTIVE_LATER"} = s.flags[c]
      BY <2>2
    <3> QED
      BY <1>1, <2>2, <3>1
  <2> QED
    BY <2>1, <2>2
<1>3. event_callback_activate_nolock_(s, c) = event_queue_insert_active(s1, c)
  BY DEF event_callback_activate_nolock_
<1> HIDE DEF s1
<1>4. s1.flags[c] = s.flags[c] \ {"ACTIVE_LATER"}
  BY <1>1, <1>2
<1>5. LET r == event_queue_insert_active(s1, c)
      IN  /\ r.timeheap = s1.timeheap
          /\ r.flags = [s1.flags EXCEPT ![c] = s1.flags[c] \cup {"ACTIVE"}]
  BY <1>2, InsertEffect
<1> QED
  BY <1>1, <1>2, <1>3, <1>4, <1>5

\* event_callback_cancel_nolock_ takes the callback off both queues.
LEMMA CancelledEffect ==
  ASSUME NEW s, Good(s), NEW c \in Callback
  PROVE  LET r == Cancelled(s, c)
         IN  /\ Lowers(s, r, c, s.flags[c] \ {"ACTIVE", "ACTIVE_LATER"})
             /\ r.timeheap = s.timeheap
             /\ s.flags[c] \cap Registration = {} => r = s
<1>1. /\ s.flags \in [Callback -> SUBSET Flag] /\ s.event_count_active \in Int
      /\ ~({"ACTIVE", "ACTIVE_LATER"} \subseteq s.flags[c])
  BY GoodFields
<1>2. CASE "ACTIVE" \in s.flags[c]
  <2>1. s.flags[c] \ {"ACTIVE", "ACTIVE_LATER"} = s.flags[c] \ {"ACTIVE"}
    BY <1>1, <1>2
  <2> QED
    BY <1>2, <2>1, RemoveEffect DEF Cancelled, Registration
<1>3. CASE "ACTIVE" \notin s.flags[c] /\ "ACTIVE_LATER" \in s.flags[c]
  <2>1. s.flags[c] \ {"ACTIVE", "ACTIVE_LATER"} = s.flags[c] \ {"ACTIVE_LATER"}
    BY <1>3
  <2> QED
    BY <1>3, <2>1, RemoveEffect DEF Cancelled, Registration
<1>4. CASE "ACTIVE" \notin s.flags[c] /\ "ACTIVE_LATER" \notin s.flags[c]
  <2>1. Cancelled(s, c) = s /\ s.flags[c] \ {"ACTIVE", "ACTIVE_LATER"} = s.flags[c]
        /\ [s.flags EXCEPT ![c] = s.flags[c]] = s.flags
    BY <1>1, <1>4 DEF Cancelled
  <2> QED
    BY <1>1, <2>1 DEF Lowers
<1> QED
  BY <1>2, <1>3, <1>4

\* Without active callbacks and timeouts an event is registered in the backend or nowhere.
LEMMA Unregistered ==
  ASSUME NEW s, Good(s), s.event_count_active = 0, s.timeheap = {}, NEW c \in Callback,
         "INSERTED" \notin s.flags[c]
  PROVE  s.flags[c] \cap Registration = {}
<1>1. /\ s \in Queues /\ s.timeheap = With(s, "TIMEOUT")
      /\ s.event_count_active
           = Cardinality(With(s, "ACTIVE")) + Cardinality(With(s, "ACTIVE_LATER"))
  BY GoodFields DEF Good, QueuesOK, ActiveCounted
<1>2. /\ Cardinality(With(s, "ACTIVE")) \in Nat
      /\ Cardinality(With(s, "ACTIVE_LATER")) \in Nat
  BY <1>1, RegistrationCounts DEF Registration
<1>3. Cardinality(With(s, "ACTIVE")) = 0 /\ Cardinality(With(s, "ACTIVE_LATER")) = 0
  BY <1>1, <1>2
<1>4. /\ IsFiniteSet(With(s, "ACTIVE")) /\ IsFiniteSet(With(s, "ACTIVE_LATER"))
  BY FiniteCallbacks DEF With
<1>5. With(s, "ACTIVE") = {} /\ With(s, "ACTIVE_LATER") = {}
  BY <1>3, <1>4, FS_EmptySet
<1> QED
  BY <1>1, <1>5 DEF With, Registration

-----------------------------------------------------------------------------
(* What a call of the API does.                                            *)

\* The base n is what calls of evthread_notify_base make of b, but for fields that do not
\* concern the wakeup of the loop.
Notifies(b, n) ==
  /\ n.running_loop = b.running_loop
  /\ n.th_owner_id = b.th_owner_id
  /\ n.tv_cache = b.tv_cache
  /\ b.event_break => n.event_break
  /\ \/ n.is_notify_pending = b.is_notify_pending /\ n.notify_readable = b.notify_readable
     \/ ~b.is_notify_pending /\ n.is_notify_pending /\ n.notify_readable

\* The same, without event_base_loopbreak and the virtual events.
NotifiesOnly(b, n) ==
  /\ Notifies(b, n)
  /\ n.event_break = b.event_break
  /\ n.virtual_event_count = b.virtual_event_count

\* The loop is woken, if the caller is another thread.
Wakes(a) == EVBASE_NEED_NOTIFY(base, a) => base'.is_notify_pending

\* There is nothing that a loop in its backend would have to wake up for.
Quiet ==
  /\ base'.event_break = base.event_break
  /\ base.virtual_event_count > 0 => base'.virtual_event_count > 0
  /\ q'.event_count_active <= q.event_count_active
  /\ With(q, "INSERTED")' \subseteq With(q, "INSERTED")
  /\ \A e \in q'.timeheap : \E f \in q.timeheap : ev[f].timeout <= ev'[e].timeout
  /\ q.event_count_active = 0 /\ q.timeheap = {} => q'.event_count = q.event_count

Final(v, c) == v[c].closure \in {"finalize", "cb_finalize"}

\* What RunsOnlyIfArmed depends on: callback c is registered only if it is armed, or it is
\* about to be finalized.
Sound(s, v, h, c) ==
  /\ s.flags[c] \cap Registration # {} => h.armed[c] \/ Final(v, c)
  /\ "FINALIZING" \in s.flags[c] => Final(v, c)
  /\ v[c].closure = "persist" => c \in Persist
  /\ c \in Deferred => s.flags[c] \cap {"INSERTED", "TIMEOUT"} = {}

\* The step changes callback c only, and does so soundly.
About(c) ==
  /\ \A d \in Callback \ {c} :
       /\ q'.flags[d] = q.flags[d]
       /\ ev'[d] = ev[d]
       /\ hist'.armed[d] = hist.armed[d]
  /\ Sound(q, ev, hist, c) => Sound(q', ev', hist', c)
  /\ Final(ev, c) => Final(ev', c)

\* A call of actor a about callback c.
Effect(a, c) ==
  /\ Notifies(base, base')
  /\ Quiet \/ Wakes(a)
  /\ About(c)
  /\ hist'.late = hist.late
  /\ \E k : loop' = [loop EXCEPT !.ncalls = k]

\* The fields v of the callbacks differ from ev in those of c, and not in its closure.
Keeps(v, c) ==
  /\ v \in [Callback -> CallbackFields]
  /\ \A d \in Callback \ {c} : v[d] = ev[d]
  /\ v[c].closure = ev[c].closure

SameTimeouts(v) == \A c \in Callback : v[c].timeout = ev[c].timeout

\* Two of them in a row.
LEMMA NotifiesTwice ==
  ASSUME NEW b, NEW n, NEW m
  PROVE  /\ Notifies(b, b) /\ NotifiesOnly(b, b)
         /\ Notifies(b, n) /\ Notifies(n, m) => Notifies(b, m)
         /\ NotifiesOnly(b, n) /\ NotifiesOnly(n, m) => NotifiesOnly(b, m)
         /\ NotifiesOnly(b, n) => Notifies(b, n)
  BY DEF Notifies, NotifiesOnly

\* evthread_notify_base and event_continue.
LEMMA NotifyEffect ==
  ASSUME NEW b \in BaseFields, NEW a, NEW e
  PROVE  /\ NotifiesOnly(b, evthread_notify_base(b, a))
         /\ EVBASE_NEED_NOTIFY(b, a) => evthread_notify_base(b, a).is_notify_pending
         /\ evthread_notify_base(b, a) \in BaseFields
         /\ NotifiesOnly(b, ActiveContinue(b, e))
         /\ ActiveContinue(b, e) \in BaseFields
<1>1. /\ NotifiesOnly(b, evthread_notify_base(b, a))
      /\ EVBASE_NEED_NOTIFY(b, a) => evthread_notify_base(b, a).is_notify_pending
  BY DEF BaseFields, evthread_notify_base, EVBASE_NEED_NOTIFY, NotifiesOnly, Notifies
<1>2. NotifiesOnly(b, ActiveContinue(b, e))
  BY DEF BaseFields, ActiveContinue, NotifiesOnly, Notifies
<1> QED
  BY <1>1, <1>2, NotifyTypes, ContinueTypes

\* A notification, before or after other such changes, wakes the loop.
LEMMA WakesBy ==
  ASSUME NEW a, NEW b \in BaseFields, Notifies(base, b), Notifies(evthread_notify_base(b, a), base')
  PROVE  Notifies(base, base') /\ Wakes(a)
<1>1. Notifies(b, evthread_notify_base(b, a))
  BY NotifyEffect, NotifiesTwice
<1>2. Notifies(base, base')
  BY <1>1, NotifiesTwice
<1>3. EVBASE_NEED_NOTIFY(base, a) => evthread_notify_base(b, a).is_notify_pending
  BY NotifyEffect DEF Notifies, EVBASE_NEED_NOTIFY
<1> QED
  BY <1>2, <1>3 DEF Notifies, Wakes

\* What Quiet says of the queues is the same in s and r.
SameWork(s, r) ==
  /\ r.timeheap = s.timeheap
  /\ r.event_count = s.event_count
  /\ r.event_count_active = s.event_count_active
  /\ With(r, "INSERTED") = With(s, "INSERTED")

\* It is when the only change is EVLIST_FINALIZING.
LEMMA FinalizingEffect ==
  ASSUME NEW s, Good(s), NEW c \in Callback
  PROVE  SameWork(s, s) /\ SameWork(s, SetFinalizing(s, c))
<1> DEFINE r == SetFinalizing(s, c)
<1>1. /\ r.timeheap = s.timeheap
      /\ r.event_count = s.event_count
      /\ r.event_count_active = s.event_count_active
      /\ r.flags = [s.flags EXCEPT ![c] = s.flags[c] \cup {"FINALIZING"}]
  BY InsertEffect
<1>2. s.flags \in [Callback -> SUBSET Flag]
  BY GoodFields
<1> HIDE DEF r
<1>3. With(r, "INSERTED") = With(s, "INSERTED")
  BY <1>1, <1>2 DEF With
<1> QED
  BY <1>1, <1>3 DEF SameWork, r

\* A call that leaves the queues alone.
LEMMA QuietSame ==
  ASSUME IInv, SameWork(q, q'), NotifiesOnly(base, base'), SameTimeouts(ev')
  PROVE  Quiet
<1>1. q \in Queues /\ ev \in [Callback -> CallbackFields] /\ q.timeheap \subseteq Callback
  BY Parts DEF Good, Queues
<1>2. \A e \in q'.timeheap : ev[e].timeout <= ev'[e].timeout /\ e \in q.timeheap
  BY <1>1 DEF SameTimeouts, CallbackFields, SameWork
<1> QED
  BY <1>1, <1>2 DEF Quiet, NotifiesOnly, Queues, SameWork

\* The fields that the functions on an event change.
LEMMA FieldsEffect ==
  ASSUME IInv, NEW e \in Callback, NEW s, NEW res \in SUBSET Result, NEW n \in Nat,
         NEW tv \in Timeval, NEW absolute \in BOOLEAN, NEW now \in Nat
  PROVE  /\ Keeps(AddFields(e, tv, absolute, now), e)
         /\ Keeps(ActiveResult(s, e, res), e) /\ SameTimeouts(ActiveResult(s, e, res))
         /\ \A v : Keeps(v, e) => /\ Keeps(ActiveCalls(v, e, n), e)
                                  /\ SameTimeouts(v) => SameTimeouts(ActiveCalls(v, e, n))
<1>1. ev \in [Callback -> CallbackFields] /\ TypeOK
  BY Parts
<1>2. Keeps(AddFields(e, tv, absolute, now), e)
  <2> DEFINE v == AddFields(e, tv, absolute, now)
  <2>1. v \in [Callback -> CallbackFields]
    BY <1>1, AddFieldsTypes
  <2>2. \A d \in Callback \ {e} : v[d] = ev[d]
    BY <1>1 DEF AddFields
  <2>3. v[e].closure = ev[e].closure
    BY <1>1 DEF AddFields, CallbackFields
  <2> QED
    BY <2>1, <2>2, <2>3 DEF Keeps
<1>3. Keeps(ActiveResult(s, e, res), e) /\ SameTimeouts(ActiveResult(s, e, res))
  <2> DEFINE v == ActiveResult(s, e, res)
  <2>1. v \in [Callback -> CallbackFields]
    BY <1>1, ActiveTypes
  <2>2. \A d \in Callback \ {e} : v[d] = ev[d]
    BY <1>1 DEF ActiveResult
  <2>3. v[e].closure = ev[e].closure /\ v[e].timeout = ev[e].timeout
    BY <1>1 DEF ActiveResult, CallbackFields
  <2> HIDE DEF v
  <2> QED
    BY <2>1, <2>2, <2>3 DEF Keeps, SameTimeouts, v
<1>4. ASSUME NEW v, Keeps(v, e)
      PROVE  /\ Keeps(ActiveCalls(v, e, n), e)
             /\ SameTimeouts(v) => SameTimeouts(ActiveCalls(v, e, n))
  <2> DEFINE w == ActiveCalls(v, e, n)
  <2>1. v \in [Callback -> CallbackFields] /\ w \in [Callback -> CallbackFields]
    BY <1>4, ActiveCallsTypes DEF Keeps
  <2>2. \A d \in Callback \ {e} : w[d] = v[d]
    BY <2>1 DEF ActiveCalls
  <2>3. w[e].closure = v[e].closure /\ w[e].timeout = v[e].timeout
    BY <2>1 DEF ActiveCalls, CallbackFields
  <2> HIDE DEF w
  <2> QED
    BY <1>4, <2>1, <2>2, <2>3 DEF Keeps, SameTimeouts, w
<1> QED
  BY <1>2, <1>3, <1>4

\* A step that changes the flags of one callback, to F, and leaves it sound.
LEMMA AboutStep ==
  ASSUME IInv, NEW c \in Callback, NEW F,
         q'.flags = [q.flags EXCEPT ![c] = F],
         ev' \in [Callback -> CallbackFields],
         \A d \in Callback \ {c} : ev'[d] = ev[d] /\ hist'.armed[d] = hist.armed[d],
         ev'[c].closure = ev[c].closure \/ Final(ev', c),
         F \cap Registration # {} =>
           \/ hist'.armed[c] \/ Final(ev', c)
           \/ q.flags[c] \cap Registration # {} /\ hist'.armed[c] = hist.armed[c],
         "FINALIZING" \in F => "FINALIZING" \in q.flags[c] \/ Final(ev', c),
         c \in Deferred => F \cap {"INSERTED", "TIMEOUT"} \subseteq q.flags[c]
  PROVE  About(c)
<1>1. q.flags \in [Callback -> SUBSET Flag]
  BY Parts, GoodFields
<1>2. q'.flags[c] = F /\ \A d \in Callback \ {c} : q'.flags[d] = q.flags[d]
  BY <1>1
<1>3. Final(ev, c) => Final(ev', c)
  BY DEF Final
<1>4. ASSUME Sound(q, ev, hist, c)
      PROVE  Sound(q', ev', hist', c)
  <2>1. q'.flags[c] \cap Registration # {} => hist'.armed[c] \/ Final(ev', c)
    BY <1>2, <1>3, <1>4 DEF Sound
  <2>2. "FINALIZING" \in q'.flags[c] => Final(ev', c)
    BY <1>2, <1>3, <1>4 DEF Sound
  <2>3. ev'[c].closure = "persist" => c \in Persist
    BY <1>4 DEF Sound, Final
  <2>4. c \in Deferred => q'.flags[c] \cap {"INSERTED", "TIMEOUT"} = {}
    BY <1>2, <1>4 DEF Sound
  <2> QED
    BY <2>1, <2>2, <2>3, <2>4 DEF Sound
<1> QED
  BY <1>2, <1>3, <1>4 DEF About

\* The history of armed callbacks when one of them is armed or disarmed.
LEMMA ArmedEffect ==
  ASSUME IInv, NEW c \in Callback
  PROVE  /\ \A b \in BOOLEAN :
              /\ [hist.armed EXCEPT ![c] = b][c] = b
              /\ \A d \in Callback \ {c} : [hist.armed EXCEPT ![c] = b][d] = hist.armed[d]
<1>1. hist.armed \in [Callback -> BOOLEAN]
  BY Parts DEF History
<1> QED
  BY <1>1

\* The same of a call that arms or disarms the callback, and leaves its closure alone.
LEMMA AboutKeeps ==
  ASSUME IInv, NEW c \in Callback, NEW F, NEW b \in BOOLEAN, Keeps(ev', c),
         q'.flags = [q.flags EXCEPT ![c] = F],
         hist'.armed = [hist.armed EXCEPT ![c] = b],
         F \cap Registration # {} => b,
         "FINALIZING" \in F => "FINALIZING" \in q.flags[c],
         c \in Deferred => F \cap {"INSERTED", "TIMEOUT"} \subseteq q.flags[c]
  PROVE  About(c)
<1>1. /\ ev' \in [Callback -> CallbackFields]
      /\ \A d \in Callback \ {c} : ev'[d] = ev[d] /\ hist'.armed[d] = hist.armed[d]
      /\ ev'[c].closure = ev[c].closure
      /\ F \cap Registration # {} => hist'.armed[c]
  BY ArmedEffect DEF Keeps
<1> QED
  BY <1>1, AboutStep

\* Of the loop, a call changes ncalls at most.
LEMMA LoopSame ==
  ASSUME IInv, NEW e, loop' \in AbortLoop(e) \cup {loop}
  PROVE  \E k : loop' = [loop EXCEPT !.ncalls = k]
<1>1. loop = [loop EXCEPT !.ncalls = loop.ncalls]
  BY Parts DEF LoopLocals
<1>2. loop' = loop \/ \E k : loop' = [loop EXCEPT !.ncalls = k]
  BY DEF AbortLoop
<1> QED
  BY <1>1, <1>2

\* event_add_nolock_ after the wait.
LEMMA AddNowEffect ==
  ASSUME IInv, NEW a, NEW e \in Event, NEW tv \in Timeval, AddNow(a, e, tv)
  PROVE  Effect(a, e)
<1> DEFINE v == AddFields(e, tv, FALSE, gettime(base))
<1>1. e \in Callback /\ e \notin Deferred /\ gettime(base) \in Nat /\ Good(q)
      /\ base \in BaseFields
  BY Parts, TimeTypes, QueuesAssumption
<1>2. /\ q' = event_add_nolock_(q, e, tv) /\ ev' = v
      /\ base' = AddNotifies(q, e, tv, v, base, a)
      /\ hist' = Asked(e, tv)
      /\ loop' \in AbortLoop(e) \cup {loop}
  BY DEF AddNow
<1>3. Keeps(v, e)
  BY <1>1, FieldsEffect
<1> HIDE DEF v
<1>4. /\ Lowers(q, q', e, q'.flags[e])
      /\ q'.flags[e] \subseteq q.flags[e] \cup {"INSERTED", "TIMEOUT"}
      /\ "INSERTED" \in q'.flags[e] => "INSERTED" \in q.flags[e] \/ Inserts(q, e)
      /\ q'.timeheap = IF tv = NoTimeval THEN q.timeheap ELSE q.timeheap \cup {e}
      /\ tv = NoTimeval /\ ~Inserts(q, e) => q' = q
  BY <1>1, <1>2, AddEffect
<1>5. hist'.armed = [hist.armed EXCEPT ![e] = TRUE] /\ hist'.late = hist.late
  BY <1>2, Parts DEF Asked, History
<1>6. About(e)
  <2>1. Keeps(ev', e)
    BY <1>2, <1>3
  <2>2. q'.flags = [q.flags EXCEPT ![e] = q'.flags[e]]
    BY <1>4 DEF Lowers
  <2>3. "FINALIZING" \in q'.flags[e] => "FINALIZING" \in q.flags[e]
    BY <1>4
  <2> QED
    BY <1>1, <1>5, <2>1, <2>2, <2>3, AboutKeeps
<1>7. CASE base' = evthread_notify_base(base, a)
  BY <1>1, <1>2, <1>5, <1>6, <1>7, NotifiesTwice, WakesBy, LoopSame DEF Effect
<1>8. CASE ~Inserts(q, e) /\ tv = NoTimeval /\ base' = base
  <2>1. q' = q /\ ev' = ev
    BY <1>2, <1>4, <1>8 DEF v, AddFields
  <2>2. SameTimeouts(ev')
    BY <2>1 DEF SameTimeouts
  <2>3. Quiet
    BY <1>1, <1>8, <2>1, <2>2, FinalizingEffect, NotifiesTwice, QuietSame
  <2> QED
    BY <1>2, <1>5, <1>6, <1>8, <2>3, NotifiesTwice, LoopSame DEF Effect
<1>9. CASE /\ ~Inserts(q, e) /\ tv # NoTimeval /\ base' = base
           /\ \E f \in q.timeheap \ {e} : ~(v[e].timeout < v[f].timeout)
  <2>1. q.timeheap \subseteq Callback /\ q.flags \in [Callback -> SUBSET Flag]
    BY <1>1, GoodFields DEF Queues, Callback
  <2>2. PICK f \in q.timeheap \ {e} : ~(v[e].timeout < v[f].timeout)
    BY <1>9
  <2>3. \A d \in Callback : v[d].timeout \in Nat /\ ev[d].timeout \in Nat
    BY <1>3, Parts DEF Keeps, CallbackFields
  <2>4. v[f] = ev[f] /\ ev[f].timeout <= v[e].timeout
    BY <1>1, <1>3, <2>1, <2>2, <2>3 DEF Keeps
  <2>5. \A d \in q'.timeheap : \E g \in q.timeheap : ev[g].timeout <= ev'[d].timeout
    <3> SUFFICES ASSUME NEW d \in q'.timeheap
                 PROVE  \E g \in q.timeheap : ev[g].timeout <= ev'[d].timeout
      OBVIOUS
    <3>1. CASE d = e
      BY <1>2, <2>2, <2>4, <3>1
    <3>2. CASE d # e
      <4>1. d \in q.timeheap /\ d \in Callback
        BY <1>4, <1>9, <2>1, <3>2
      <4>2. ev'[d] = ev[d]
        BY <1>2, <1>3, <3>2, <4>1 DEF Keeps
      <4> QED
        BY <2>3, <4>1, <4>2
    <3> QED
      BY <3>1, <3>2
  <2>6. With(q, "INSERTED")' \subseteq With(q, "INSERTED")
    <3>1. \A d \in Callback \ {e} : q'.flags[d] = q.flags[d]
      BY <1>4, <2>1 DEF Lowers
    <3>2. "INSERTED" \in q'.flags[e] => "INSERTED" \in q.flags[e]
      BY <1>4, <1>9
    <3> QED
      BY <3>1, <3>2 DEF With
  <2>7. Quiet
    BY <1>4, <1>9, <2>2, <2>5, <2>6 DEF Quiet, Lowers
  <2> QED
    BY <1>2, <1>5, <1>6, <1>9, <2>7, NotifiesTwice, LoopSame DEF Effect
<1>10. \/ base' = evthread_notify_base(base, a)
       \/ ~Inserts(q, e) /\ tv = NoTimeval /\ base' = base
       \/ /\ ~Inserts(q, e) /\ tv # NoTimeval /\ base' = base
          /\ \E f \in q.timeheap \ {e} : ~(v[e].timeout < v[f].timeout)
  BY <1>2 DEF AddNotifies
<1> QED
  BY <1>7, <1>8, <1>9, <1>10

\* event_del_nolock_, on the queues: if nobody is notified, nothing is left to wake up for.
LEMMA DelQuiet ==
  ASSUME IInv, NEW e \in Event, "INSERTED" \notin q.flags[e],
         SameWork(event_del_nolock_(q, e), q'),
         NotifiesOnly(base, base'), SameTimeouts(ev')
  PROVE  Quiet
<1> DEFINE s == event_del_nolock_(q, e)
<1>1. /\ e \in Callback /\ Good(q) /\ q.flags \in [Callback -> SUBSET Flag]
      /\ q.timeheap \subseteq Callback
  BY Parts, GoodFields DEF Queues
<1>2. /\ Lowers(q, s, e, q.flags[e] \ Registration)
      /\ s.timeheap = q.timeheap \ {e}
      /\ q.flags[e] \cap Registration = {} => s = q
  BY <1>1, DelEffect
<1>3. SameWork(s, q')
  OBVIOUS
<1> HIDE DEF s
<1>4. With(q, "INSERTED")' \subseteq With(q, "INSERTED")
  <2>1. With(s, "INSERTED") \subseteq With(q, "INSERTED")
    BY <1>1, <1>2 DEF With, Lowers
  <2> QED
    BY <1>3, <2>1 DEF SameWork
<1>5. \A d \in q'.timeheap : \E f \in q.timeheap : ev[f].timeout <= ev'[d].timeout
  <2>1. \A d \in Callback : ev[d].timeout \in Nat
    BY Parts DEF CallbackFields
  <2> QED
    BY <1>1, <1>2, <1>3, <2>1 DEF SameTimeouts, SameWork
<1>6. q.event_count_active = 0 /\ q.timeheap = {} => q'.event_count = q.event_count
  BY <1>1, <1>2, <1>3, Unregistered DEF SameWork
<1>7. q'.event_count_active <= q.event_count_active
  BY <1>2, <1>3 DEF Lowers, SameWork
<1>8. base'.event_break = base.event_break /\ base'.virtual_event_count = base.virtual_event_count
  BY DEF NotifiesOnly
<1> QED
  BY <1>4, <1>5, <1>6, <1>7, <1>8 DEF Quiet

\* event_del_nolock_ after the wait.
LEMMA DelNowEffect ==
  ASSUME IInv, NEW a, NEW e \in Event, DelNow(a, e)
  PROVE  Effect(a, e)
<1>1. e \in Callback /\ e \notin Deferred /\ Good(q) /\ base \in BaseFields
      /\ ev \in [Callback -> CallbackFields]
  BY Parts, QueuesAssumption
<1>2. /\ q' = event_del_nolock_(q, e) /\ ev' = ev
      /\ base' = DelNotifies(e, base, a)
      /\ loop' \in AbortLoop(e) \cup {loop}
  BY DEF DelNow
<1>3. hist'.armed = [hist.armed EXCEPT ![e] = FALSE] /\ hist'.late = hist.late
  BY Parts DEF DelNow, History
<1>4. Keeps(ev', e) /\ SameTimeouts(ev')
  BY <1>1, <1>2 DEF Keeps, SameTimeouts
<1>5. About(e)
  <2> DEFINE F == q.flags[e] \ Registration
  <2>1. q'.flags = [q.flags EXCEPT ![e] = F]
    BY <1>1, <1>2, DelEffect DEF Lowers
  <2>2. F \cap Registration = {} /\ ("FINALIZING" \in F => "FINALIZING" \in q.flags[e])
    OBVIOUS
  <2> HIDE DEF F
  <2> QED
    BY <1>1, <1>3, <1>4, <2>1, <2>2, AboutKeeps
<1>6. CASE base' = evthread_notify_base(base, a)
  BY <1>1, <1>2, <1>3, <1>5, <1>6, NotifiesTwice, WakesBy, LoopSame DEF Effect
<1>7. CASE "INSERTED" \notin q.flags[e] /\ base' = base
  <2>1. Quiet
    BY <1>1, <1>2, <1>4, <1>7, DelGood, FinalizingEffect, NotifiesTwice, DelQuiet
  <2> QED
    BY <1>2, <1>3, <1>5, <1>7, <2>1, NotifiesTwice, LoopSame DEF Effect
<1> QED
  BY <1>2, <1>6, <1>7 DEF DelNotifies

\* event_active_nolock_ after the wait.
LEMMA ActivateNowEffect ==
  ASSUME IInv, NEW a, NEW e \in Event, NEW n \in Nat, NEW v, Keeps(v, e), SameTimeouts(v),
         NEW b \in BaseFields, NotifiesOnly(base, b), ActivateNow(a, e, n, v, b),
         UNCHANGED loop
  PROVE  Effect(a, e)
<1>1. e \in Callback /\ e \notin Deferred /\ Good(q) /\ base \in BaseFields
      /\ q.flags \in [Callback -> SUBSET Flag]
  BY Parts, QueuesAssumption, GoodFields
<1>2. Keeps(ev', e) /\ SameTimeouts(ev')
  <2>1. ev' = ActiveCalls(v, e, n)
    BY DEF ActivateNow
  <2>2. {} \in SUBSET Result /\ NoTimeval \in Timeval /\ 0 \in Nat
    BY DEF Timeval
  <2> QED
    BY <1>1, <2>1, <2>2, FieldsEffect
<1>3. hist'.armed = [hist.armed EXCEPT ![e] = TRUE] /\ hist'.late = hist.late
  BY Parts DEF ActivateNow, History
<1>4. About(e)
  <2>1. CASE q' = q
    <3>1. q'.flags = [q.flags EXCEPT ![e] = q.flags[e]]
      BY <1>1, <2>1
    <3> QED
      BY <1>1, <1>2, <1>3, <3>1, AboutKeeps
  <2>2. CASE q' = event_callback_activate_nolock_(q, e)
    <3> DEFINE F == (q.flags[e] \ {"ACTIVE_LATER"}) \cup {"ACTIVE"}
    <3>1. q'.flags = [q.flags EXCEPT ![e] = F]
      BY <1>1, <2>2, ActivateEffect
    <3>2. "FINALIZING" \in F => "FINALIZING" \in q.flags[e]
      OBVIOUS
    <3> HIDE DEF F
    <3> QED
      BY <1>1, <1>2, <1>3, <3>1, <3>2, AboutKeeps
  <2> QED
    BY <2>1, <2>2 DEF ActivateNow
<1>5. CASE base' = evthread_notify_base(b, a)
  <2>1. Notifies(base, base') /\ Wakes(a)
    BY <1>5, NotifiesTwice, WakesBy
  <2> QED
    BY <1>3, <1>4, <2>1, LoopSame DEF Effect
<1>6. CASE q' = q /\ base' = b
  <2>1. Quiet /\ Notifies(base, base')
    BY <1>1, <1>2, <1>6, FinalizingEffect, NotifiesTwice, QuietSame
  <2> QED
    BY <1>3, <1>4, <2>1, LoopSame DEF Effect
<1> QED
  BY <1>5, <1>6 DEF ActivateNow

\* The flags of a callback that is marked, after it has been activated or not.
LEMMA FinalizedFlags ==
  ASSUME Good(q), NEW s, Good(s), NEW c \in Callback,
         s.flags = [q.flags EXCEPT ![c] = s.flags[c]],
         NEW u, u = s \/ u = event_callback_activate_nolock_(s, c),
         NEW r, r = SetFinalizing(u, c)
  PROVE  /\ r.flags = [q.flags EXCEPT ![c] = r.flags[c]]
         /\ r.flags[c] \cap {"INSERTED", "TIMEOUT"} \subseteq s.flags[c]
<1>1. q.flags \in [Callback -> SUBSET Flag] /\ s.flags \in [Callback -> SUBSET Flag]
  BY GoodFields
<1>2. Good(u)
  BY ActivateGood
<1>3. /\ u.flags = [q.flags EXCEPT ![c] = u.flags[c]]
      /\ u.flags[c] \cap {"INSERTED", "TIMEOUT"} \subseteq s.flags[c]
  <2>1. CASE u = s
    BY <1>1, <2>1
  <2>2. CASE u = event_callback_activate_nolock_(s, c)
    <3>1. u.flags = [s.flags EXCEPT ![c] = (s.flags[c] \ {"ACTIVE_LATER"}) \cup {"ACTIVE"}]
      BY <2>2, ActivateEffect
    <3> QED
      BY <1>1, <3>1
  <2> QED
    BY <2>1, <2>2
<1>4. r.flags = [u.flags EXCEPT ![c] = u.flags[c] \cup {"FINALIZING"}]
  BY <1>2, InsertEffect
<1> QED
  BY <1>1, <1>3, <1>4

\* A callback whose closure is a finalizer: whatever its flags.
LEMMA AboutFinal ==
  ASSUME IInv, NEW c \in Callback, NEW F,
         q'.flags = [q.flags EXCEPT ![c] = F],
         ev' \in [Callback -> CallbackFields], Final(ev', c),
         \A d \in Callback \ {c} : ev'[d] = ev[d],
         hist'.armed = hist.armed,
         c \in Deferred => F \cap {"INSERTED", "TIMEOUT"} \subseteq q.flags[c]
  PROVE  About(c)
  BY AboutStep

\* event_finalize_nolock_ after the wait, for an event whose closure is a finalizer; s is what
\* event_del_nolock_ has made of the queues, before or after the wait.
LEMMA FinalizeNowEffect ==
  ASSUME IInv, NEW a, NEW e \in Event, NEW s \in {q, event_del_nolock_(q, e)},
         NEW v, v \in [Callback -> CallbackFields], Final(v, e), SameTimeouts(v),
         \A d \in Callback \ {e} : v[d] = ev[d],
         NEW b \in BaseFields, NotifiesOnly(base, b),
         s = q \/ "INSERTED" \notin q.flags[e]
           \/ (EVBASE_NEED_NOTIFY(base, a) => b.is_notify_pending),
         FinalizeNow(a, e, s, v, b),
         hist'.armed = hist.armed, hist'.late = hist.late,
         loop' \in AbortLoop(e) \cup {loop}
  PROVE  Effect(a, e)
<1> DEFINE u == IF CanActivate(s, e) THEN event_callback_activate_nolock_(s, e) ELSE s
<1>1. e \in Callback /\ e \notin Deferred /\ Good(q) /\ Good(s)
      /\ q.flags \in [Callback -> SUBSET Flag]
  BY Parts, QueuesAssumption, GoodFields, DelGood
<1>2. /\ ev' = ActiveCalls(v, e, 1)
      /\ q' = SetFinalizing(u, e)
      /\ base' = IF CanActivate(s, e) THEN evthread_notify_base(b, a) ELSE b
  BY DEF FinalizeNow
<1>3. /\ ev' \in [Callback -> CallbackFields] /\ Final(ev', e)
      /\ \A d \in Callback \ {e} : ev'[d] = ev[d]
  <2>1. ev' \in [Callback -> CallbackFields]
    BY <1>1, <1>2, ActiveCallsTypes
  <2>2. ev'[e].closure = v[e].closure /\ \A d \in Callback \ {e} : ev'[d] = v[d]
    BY <1>1, <1>2 DEF ActiveCalls, CallbackFields
  <2> QED
    BY <2>1, <2>2 DEF Final
<1>4. SameTimeouts(ev')
  <2>1. \A d \in Callback : ev'[d].timeout = v[d].timeout
    BY <1>1, <1>2 DEF ActiveCalls, CallbackFields
  <2> QED
    BY <2>1 DEF SameTimeouts
<1>5. About(e)
  <2>1. s.flags = [q.flags EXCEPT ![e] = s.flags[e]]
    <3>1. q.flags = [q.flags EXCEPT ![e] = q.flags[e]]
      BY <1>1
    <3>2. s = event_del_nolock_(q, e) => Lowers(q, s, e, q.flags[e] \ Registration)
      BY <1>1, DelEffect
    <3> QED
      BY <1>1, <3>1, <3>2 DEF Lowers
  <2>2. u = s \/ u = event_callback_activate_nolock_(s, e)
    OBVIOUS
  <2> HIDE DEF u
  <2>3. q'.flags = [q.flags EXCEPT ![e] = q'.flags[e]]
    <3>1. Good(q) /\ Good(s) /\ e \in Callback
      BY <1>1
    <3>2. q' = SetFinalizing(u, e)
      BY <1>2
    <3> QED
      BY <2>1, <2>2, <3>1, <3>2, FinalizedFlags
  <2> QED
    BY <1>1, <1>3, <2>3, AboutFinal
<1>6. CASE CanActivate(s, e)
  <2>1. Notifies(base, base') /\ Wakes(a)
    BY <1>2, <1>6, NotifiesTwice, WakesBy
  <2> QED
    BY <1>5, <2>1, LoopSame DEF Effect
<1>7. CASE ~CanActivate(s, e)
  <2>1. base' = b /\ q' = SetFinalizing(s, e) /\ Notifies(base, base')
    BY <1>2, <1>7, NotifiesTwice
  <2>2. SameWork(s, q')
    BY <1>1, <2>1, FinalizingEffect
  <2>3. CASE s = q \/ "INSERTED" \notin q.flags[e]
    <3>1. Quiet
      BY <1>4, <2>1, <2>2, <2>3, QuietSame, DelQuiet
    <3> QED
      BY <1>5, <2>1, <3>1, LoopSame DEF Effect
  <2>4. CASE EVBASE_NEED_NOTIFY(base, a) => b.is_notify_pending
    <3>1. Wakes(a)
      BY <2>1, <2>4 DEF Wakes
    <3> QED
      BY <1>5, <2>1, <3>1, LoopSame DEF Effect
  <2> QED
    BY <2>3, <2>4
<1> QED
  BY <1>6, <1>7

-----------------------------------------------------------------------------
(* The calls of the API, one by one.                                       *)

\* The threads that change their place do so because of callback c.
Moves(c) ==
  \A t \in Thread :
    \/ th'[t] = th[t]
    \/ th'[t].pc = "idle"
    \/ /\ th'[t].ev = c /\ c \in UserEvent
       /\ th'[t].op = "finalize" => Final(ev', c)

\* A thread stays, begins to wait, or returns.
LEMMA MovesEffect ==
  ASSUME IInv, NEW c
  PROVE  /\ UNCHANGED th => Moves(c)
         /\ \A t : th' = [th EXCEPT ![t] = Idle] => Moves(c)
         /\ c \in UserEvent =>
              /\ \A t : th' = Deleted(t, c) => Moves(c)
              /\ \A t, op, tv, n :
                   CondWait(t, op, c, tv, n) /\ (op = "finalize" => Final(ev', c)) => Moves(c)
<1>1. th \in [Thread -> ThreadLocals]
  BY Parts
<1>2. ASSUME NEW t, th' = [th EXCEPT ![t] = Idle]
      PROVE  Moves(c)
  BY <1>1, <1>2 DEF Idle, Moves
<1>3. ASSUME NEW t, th' = Deleted(t, c), c \in UserEvent
      PROVE  Moves(c)
  BY <1>1, <1>3 DEF Deleted, Idle, Moves
<1>4. ASSUME NEW t, NEW op, NEW tv, NEW n, CondWait(t, op, c, tv, n), c \in UserEvent,
             op = "finalize" => Final(ev', c)
      PROVE  Moves(c)
  BY <1>1, <1>4 DEF CondWait, Moves
<1> QED
  BY <1>2, <1>3, <1>4 DEF Moves

\* The events the application calls the API with.
LEMMA UserEvents ==
  /\ UserEvent \subseteq Event /\ UserEvent \subseteq Callback \ {NotifyEv}
  /\ ExitEv \in Event /\ ExitEv \in Callback \ {NotifyEv}
  /\ Deferred \subseteq Callback \ {NotifyEv}
  /\ \A e \in Event : e \in Callback /\ e \notin Deferred
  BY BaseAssumption, QueuesAssumption DEF UserEvent, Callback

\* Nothing happens to the callbacks.
LEMMA KeepsSame ==
  ASSUME IInv, NEW c
  PROVE  Keeps(ev, c) /\ SameTimeouts(ev)
  BY Parts DEF Keeps, SameTimeouts

\* A call that does nothing to the queues.
LEMMA QuietEffect ==
  ASSUME IInv, NEW a, NEW c \in Callback, NEW d, Keeps(ev', c), SameTimeouts(ev'), UNCHANGED q,
         hist'.armed = hist.armed, hist'.late = hist.late,
         NotifiesOnly(base, base'), loop' \in AbortLoop(d) \cup {loop}
  PROVE  Effect(a, c)
<1>1. Good(q) /\ q.flags \in [Callback -> SUBSET Flag]
  BY Parts, GoodFields
<1>2. q'.flags = [q.flags EXCEPT ![c] = q.flags[c]]
  BY <1>1
<1>3. About(c)
  BY <1>2, AboutStep DEF Keeps
<1>4. Quiet /\ Notifies(base, base')
  BY <1>1, FinalizingEffect, QuietSame, NotifiesTwice
<1> QED
  BY <1>3, <1>4, LoopSame DEF Effect

\* A thread is counted as a waiter.
LEMMA WaitingEffect ==
  ASSUME NEW b \in BaseFields, NotifiesOnly(base, b)
  PROVE  NotifiesOnly(base, Waiting(b))
<1>1. NotifiesOnly(b, Waiting(b))
  BY DEF BaseFields, Waiting, NotifiesOnly, Notifies
<1> QED
  BY <1>1, NotifiesTwice

\* event_add
LEMMA AddEffects ==
  ASSUME IInv, NEW a, NEW e \in UserEvent, NEW tv \in Timeval, event_add(a, e, tv)
  PROVE  Effect(a, e) /\ Moves(e)
<1>1. e \in Event /\ e \in Callback
  BY UserEvents
<1>2. CASE Kind[e] = "signal" /\ Running(a, e)
  <2>1. CondWait(a, "add", e, tv, 0) /\ base' = Waiting(base) /\ UNCHANGED <<q, ev, loop, hist>>
    BY <1>2 DEF event_add
  <2>2. NotifiesOnly(base, base')
    BY <2>1, Parts, NotifiesTwice, WaitingEffect
  <2>3. Effect(a, e)
    BY <1>1, <2>1, <2>2, KeepsSame, QuietEffect
  <2>4. Moves(e)
    BY <2>1, MovesEffect
  <2> QED
    BY <2>3, <2>4
<1>3. CASE ~(Kind[e] = "signal" /\ Running(a, e))
  <2>1. AddNow(a, e, tv) /\ UNCHANGED th
    BY <1>3 DEF event_add
  <2> QED
    BY <1>1, <2>1, AddNowEffect, MovesEffect
<1> QED
  BY <1>2, <1>3

\* event_remove_timer
LEMMA RemoveTimerEffects ==
  ASSUME IInv, NEW a, NEW e \in UserEvent, event_remove_timer(a, e)
  PROVE  Effect(a, e) /\ Moves(e)
<1>1. /\ e \in Callback /\ e \notin Deferred /\ Good(q) /\ q \in Queues
      /\ ev \in [Callback -> CallbackFields]
      /\ q.flags \in [Callback -> SUBSET Flag] /\ q.timeheap \subseteq Callback
  BY Parts, UserEvents, GoodFields DEF Queues
<1>2. /\ q' = event_queue_remove_timeout(q, e)
      /\ "TIMEOUT" \in q.flags[e]
      /\ \/ ev' = [ev EXCEPT ![e].ncalls = 0]
         \/ ev' = [ev EXCEPT ![e].io_timeout = 0]
      /\ UNCHANGED <<base, loop, th>>
      /\ hist' = [hist EXCEPT !.asked[e] = "forever"]
  BY DEF event_remove_timer
<1>3. hist'.armed = hist.armed /\ hist'.late = hist.late
  BY <1>2, Parts DEF History
<1>4. Keeps(ev', e) /\ SameTimeouts(ev')
  <2>1. ev' \in [Callback -> CallbackFields]
    BY <1>1, <1>2 DEF CallbackFields
  <2>2. \A d \in Callback : ev'[d].closure = ev[d].closure /\ ev'[d].timeout = ev[d].timeout
    BY <1>1, <1>2 DEF CallbackFields
  <2>3. \A d \in Callback \ {e} : ev'[d] = ev[d]
    BY <1>1, <1>2
  <2> QED
    BY <1>1, <2>1, <2>2, <2>3 DEF Keeps, SameTimeouts
<1>5. /\ q'.flags = [q.flags EXCEPT ![e] = q.flags[e] \ {"TIMEOUT"}]
      /\ q'.event_count_active <= q.event_count_active
      /\ q'.timeheap = q.timeheap \ {e}
  <2>1. Good(q) /\ e \in Callback
    BY <1>1
  <2>2. LET r == event_queue_remove_timeout(q, e)
        IN  r.timeheap = q.timeheap \ {e} /\ Lowers(q, r, e, q.flags[e] \ {"TIMEOUT"})
    BY <2>1, RemoveEffect
  <2> QED
    BY <1>2, <2>2 DEF Lowers
<1>6. About(e)
  BY <1>1, <1>3, <1>4, <1>5, AboutStep DEF Keeps
<1>7. Quiet
  <2>1. e \in q.timeheap
    BY <1>1, <1>2, GoodFields DEF With
  <2>2. With(q, "INSERTED")' \subseteq With(q, "INSERTED")
    BY <1>1, <1>5 DEF With
  <2>3. \A d \in q'.timeheap : ev[d].timeout <= ev'[d].timeout /\ d \in q.timeheap
    BY <1>1, <1>4, <1>5 DEF SameTimeouts, CallbackFields
  <2> QED
    BY <1>2, <1>5, <2>1, <2>2, <2>3 DEF Quiet
<1> QED
  BY <1>2, <1>3, <1>6, <1>7, NotifiesTwice, LoopSame, MovesEffect DEF Effect

\* event_del and its two variants
LEMMA DelEffects ==
  ASSUME IInv, NEW a, NEW e \in UserEvent, NEW f, event_del(a, e, f)
  PROVE  Effect(a, e) /\ Moves(e)
<1>1. e \in Event /\ e \in Callback
  BY UserEvents
<1>2. CASE /\ CondWait(a, "del", e, NoTimeval, 0) /\ base' = Waiting(base)
           /\ UNCHANGED <<q, ev, loop, hist>>
  <2>1. NotifiesOnly(base, base')
    BY <1>2, Parts, NotifiesTwice, WaitingEffect
  <2>2. Effect(a, e)
    BY <1>1, <1>2, <2>1, KeepsSame, QuietEffect
  <2>3. Moves(e)
    BY <1>2, MovesEffect
  <2> QED
    BY <2>2, <2>3
<1>3. CASE DelNow(a, e) /\ (UNCHANGED th \/ th' = Deleted(a, e))
  BY <1>1, <1>3, DelNowEffect, MovesEffect
<1> QED
  BY <1>2, <1>3 DEF event_del

\* event_active
LEMMA ActiveEffects ==
  ASSUME IInv, NEW a, NEW e \in UserEvent, NEW n \in Nat, event_active(a, e, n)
  PROVE  Effect(a, e) /\ Moves(e)
<1> DEFINE v == ActiveResult(q, e, IF Kind[e] = "signal" THEN {"EV_SIGNAL"} ELSE {"EV_READ"})
           b == ActiveContinue(base, e)
<1>1. e \in Event /\ e \in Callback /\ base \in BaseFields /\ Good(q)
  BY UserEvents, Parts
<1>2. Keeps(v, e) /\ SameTimeouts(v)
  <2>1. (IF Kind[e] = "signal" THEN {"EV_SIGNAL"} ELSE {"EV_READ"}) \in SUBSET Result
        /\ NoTimeval \in Timeval
    BY DEF Result, Timeval
  <2> QED
    BY <1>1, <2>1, FieldsEffect
<1>3. b \in BaseFields /\ NotifiesOnly(base, b)
  BY <1>1, NotifyEffect
<1>4. UNCHANGED loop
      /\ \/ ev' = v /\ UNCHANGED <<q, base, th, hist>>
         \/ /\ CondWait(a, "active", e, NoTimeval, n) /\ ev' = v /\ base' = Waiting(b)
            /\ UNCHANGED <<q, hist>>
         \/ ActivateNow(a, e, n, v, b) /\ UNCHANGED th
  BY DEF event_active
<1> HIDE DEF v, b
<1>5. CASE ev' = v /\ UNCHANGED <<q, base, th, hist>>
  BY <1>1, <1>2, <1>4, <1>5, NotifiesTwice, QuietEffect, MovesEffect
<1>6. CASE /\ CondWait(a, "active", e, NoTimeval, n) /\ ev' = v /\ base' = Waiting(b)
           /\ UNCHANGED <<q, hist>>
  <2>1. NotifiesOnly(base, base')
    BY <1>3, <1>6, WaitingEffect
  <2>2. Effect(a, e)
    BY <1>1, <1>2, <1>4, <1>6, <2>1, QuietEffect
  <2>3. Moves(e)
    BY <1>6, MovesEffect
  <2> QED
    BY <2>2, <2>3
<1>7. CASE ActivateNow(a, e, n, v, b) /\ UNCHANGED th
  BY <1>1, <1>2, <1>3, <1>4, <1>7, ActivateNowEffect, MovesEffect
<1> QED
  BY <1>4, <1>5, <1>6, <1>7

\* event_active_later_
LEMMA ActiveLaterEffects ==
  ASSUME IInv, NEW a, NEW e \in UserEvent, event_active_later_(a, e)
  PROVE  Effect(a, e) /\ Moves(e)
<1>1. e \in Event /\ e \in Callback /\ e \notin Deferred /\ base \in BaseFields /\ Good(q)
      /\ q.flags \in [Callback -> SUBSET Flag]
  BY UserEvents, Parts, GoodFields
<1>2. /\ ev' = ActiveResult(q, e, {"EV_READ"})
      /\ q' = event_queue_insert_active_later(q, e)
      /\ base' = IF q' # q THEN evthread_notify_base(base, a) ELSE base
      /\ hist' = [hist EXCEPT !.armed[e] = TRUE]
      /\ UNCHANGED <<loop, th>>
  BY DEF event_active_later_
<1>3. Keeps(ev', e) /\ SameTimeouts(ev')
  <2>1. {"EV_READ"} \in SUBSET Result /\ NoTimeval \in Timeval
    BY DEF Result, Timeval
  <2> QED
    BY <1>1, <1>2, <2>1, FieldsEffect
<1>4. hist'.armed = [hist.armed EXCEPT ![e] = TRUE] /\ hist'.late = hist.late
  BY <1>2, Parts DEF History
<1>5. \E F : q'.flags = [q.flags EXCEPT ![e] = F] /\ F \subseteq q.flags[e] \cup {"ACTIVE_LATER"}
  <2>1. q.flags = [q.flags EXCEPT ![e] = q.flags[e]]
    BY <1>1
  <2>2. q' = q \/ q'.flags = [q.flags EXCEPT ![e] = q.flags[e] \cup {"ACTIVE_LATER"}]
    BY <1>1, <1>2, InsertEffect
  <2> QED
    BY <2>1, <2>2
<1>6. About(e)
  BY <1>1, <1>3, <1>4, <1>5, AboutKeeps
<1>7. CASE q' # q
  <2>1. Notifies(base, base') /\ Wakes(a)
    BY <1>1, <1>2, <1>7, NotifiesTwice, WakesBy
  <2> QED
    BY <1>2, <1>4, <1>6, <2>1, LoopSame, MovesEffect DEF Effect
<1>8. CASE q' = q
  <2>1. NotifiesOnly(base, base') /\ Notifies(base, base')
    BY <1>2, <1>8, NotifiesTwice
  <2>2. Quiet
    BY <1>1, <1>3, <1>8, <2>1, FinalizingEffect, QuietSame
  <2> QED
    BY <1>2, <1>4, <1>6, <2>1, <2>2, LoopSame, MovesEffect DEF Effect
<1> QED
  BY <1>7, <1>8

\* event_finalize
LEMMA FinalizeEffects ==
  ASSUME IInv, NEW a, NEW e \in UserEvent, event_finalize(a, e)
  PROVE  Effect(a, e) /\ Moves(e)
<1> DEFINE s == event_del_nolock_(q, e)
           v == [ev EXCEPT ![e].closure = "finalize", ![e].res = {"EV_FINALIZE"}]
           b1 == DelNotifies(e, base, a)
           b == ActiveContinue(b1, e)
<1>1. e \in Event /\ e \in Callback /\ e \notin Deferred /\ base \in BaseFields /\ Good(q)
      /\ q.flags \in [Callback -> SUBSET Flag] /\ ev \in [Callback -> CallbackFields]
  BY UserEvents, Parts, GoodFields
<1>2. /\ v \in [Callback -> CallbackFields] /\ Final(v, e) /\ SameTimeouts(v)
      /\ \A d \in Callback \ {e} : v[d] = ev[d]
  <2>1. v \in [Callback -> CallbackFields]
    <3>1. v = [ev EXCEPT ![e] = [ev[e] EXCEPT !.closure = "finalize", !.res = {"EV_FINALIZE"}]]
      BY <1>1
    <3>2. [ev[e] EXCEPT !.closure = "finalize", !.res = {"EV_FINALIZE"}] \in CallbackFields
      BY <1>1 DEF CallbackFields, Closure, Result
    <3> QED
      BY <1>1, <3>1, <3>2
  <2>2. \A d \in Callback \ {e} : v[d] = ev[d]
    BY <1>1
  <2>3. v[e].closure = "finalize" /\ v[e].timeout = ev[e].timeout
    BY <1>1 DEF CallbackFields
  <2> HIDE DEF v
  <2> QED
    BY <2>1, <2>2, <2>3 DEF Final, SameTimeouts
<1>3. b1 \in BaseFields /\ NotifiesOnly(base, b1) /\ ("INSERTED" \notin q.flags[e] => b1 = base)
      /\ ("INSERTED" \in q.flags[e] => (EVBASE_NEED_NOTIFY(base, a) => b1.is_notify_pending))
  BY <1>1, NotifyEffect, NotifiesTwice DEF DelNotifies
<1>4. b \in BaseFields /\ NotifiesOnly(base, b)
      /\ ("INSERTED" \in q.flags[e] => (EVBASE_NEED_NOTIFY(base, a) => b.is_notify_pending))
  <2> HIDE DEF b1
  <2>1. b \in BaseFields /\ NotifiesOnly(b1, b)
    BY <1>3, NotifyEffect
  <2> QED
    BY <1>3, <2>1, NotifiesTwice DEF NotifiesOnly, Notifies
<1>5. hist'.armed = hist.armed /\ hist'.late = hist.late /\ loop' \in AbortLoop(e) \cup {loop}
  BY Parts DEF event_finalize, History
<1>6. \/ /\ CondWait(a, "finalize", e, NoTimeval, 1)
         /\ q' = s /\ ev' = v /\ base' = Waiting(b)
      \/ FinalizeNow(a, e, s, v, b) /\ UNCHANGED th
  BY DEF event_finalize
<1>7. s = event_del_nolock_(q, e)
  OBVIOUS
<1> HIDE DEF s, v, b, b1
<1>8. CASE /\ CondWait(a, "finalize", e, NoTimeval, 1)
           /\ q' = s /\ ev' = v /\ base' = Waiting(b)
  <2>1. NotifiesOnly(base, base')
    BY <1>4, <1>8, WaitingEffect
  <2>2. About(e)
    <3>1. q'.flags = [q.flags EXCEPT ![e] = q.flags[e] \ Registration]
      BY <1>1, <1>7, <1>8, DelEffect DEF Lowers
    <3> QED
      BY <1>1, <1>2, <1>5, <1>8, <3>1, AboutFinal
  <2>3. CASE "INSERTED" \notin q.flags[e]
    <3>1. SameWork(event_del_nolock_(q, e), q')
      BY <1>1, <1>7, <1>8, DelGood, FinalizingEffect
    <3>2. Quiet
      BY <1>1, <1>2, <1>8, <2>1, <2>3, <3>1, DelQuiet
    <3> QED
      BY <1>2, <1>5, <1>8, <2>1, <2>2, <3>2, NotifiesTwice, LoopSame, MovesEffect DEF Effect
  <2>4. CASE "INSERTED" \in q.flags[e]
    <3>1. base'.is_notify_pending = b.is_notify_pending
      BY <1>4, <1>8 DEF Waiting, BaseFields
    <3>2. Wakes(a)
      BY <1>4, <2>4, <3>1 DEF Wakes
    <3> QED
      BY <1>2, <1>5, <1>8, <2>1, <2>2, <3>2, NotifiesTwice, LoopSame, MovesEffect DEF Effect
  <2> QED
    BY <2>3, <2>4
<1>9. CASE FinalizeNow(a, e, s, v, b) /\ UNCHANGED th
  <2>1. Effect(a, e)
    BY <1>1, <1>2, <1>4, <1>5, <1>7, <1>9, FinalizeNowEffect
  <2> QED
    BY <1>9, <2>1, MovesEffect
<1> QED
  BY <1>6, <1>8, <1>9

\* The three functions on a deferred callback
LEMMA DeferredEffects ==
  ASSUME IInv, NEW a, NEW c \in Deferred,
         \/ event_deferred_cb_schedule_(a, c)
         \/ event_deferred_cb_cancel_(a, c)
         \/ event_callback_finalize_(a, c)
  PROVE  Effect(a, c) /\ Moves(c)
<1>1. c \in Callback /\ base \in BaseFields /\ Good(q)
      /\ q.flags \in [Callback -> SUBSET Flag] /\ ev \in [Callback -> CallbackFields]
  BY UserEvents, Parts, GoodFields
<1>2. UNCHANGED <<loop, th>> /\ Moves(c)
  BY MovesEffect
  DEF event_deferred_cb_schedule_, event_deferred_cb_cancel_, event_callback_finalize_
<1>3. CASE event_deferred_cb_schedule_(a, c)
  <2> DEFINE n == [base EXCEPT !.n_deferreds_queued = @ + 1]
  <2>1. n \in BaseFields /\ NotifiesOnly(base, n)
    BY <1>1 DEF BaseFields, NotifiesOnly, Notifies
  <2>2. /\ q' \in {event_queue_insert_active_later(q, c), event_callback_activate_nolock_(q, c)}
        /\ \/ base' \in {evthread_notify_base(base, a), evthread_notify_base(n, a)}
           \/ q' = q /\ base' \in {base, n}
        /\ hist' = [hist EXCEPT !.armed[c] = TRUE]
        /\ UNCHANGED ev
    BY <1>3 DEF event_deferred_cb_schedule_
  <2> HIDE DEF n
  <2>3. hist'.armed = [hist.armed EXCEPT ![c] = TRUE] /\ hist'.late = hist.late
    BY <2>2, Parts DEF History
  <2>4. \E F : q'.flags = [q.flags EXCEPT ![c] = F]
                /\ F \subseteq q.flags[c] \cup {"ACTIVE", "ACTIVE_LATER"}
    <3>1. q.flags = [q.flags EXCEPT ![c] = q.flags[c]]
      BY <1>1
    <3>2. CASE q' = event_queue_insert_active_later(q, c)
      <4>1. q' = q \/ q'.flags = [q.flags EXCEPT ![c] = q.flags[c] \cup {"ACTIVE_LATER"}]
        BY <1>1, <3>2, InsertEffect
      <4> QED
        BY <3>1, <4>1
    <3>3. CASE q' = event_callback_activate_nolock_(q, c)
      <4>1. q'.flags = [q.flags EXCEPT ![c] = (q.flags[c] \ {"ACTIVE_LATER"}) \cup {"ACTIVE"}]
        BY <1>1, <3>3, ActivateEffect
      <4> QED
        BY <4>1
    <3> QED
      BY <2>2, <3>2, <3>3
  <2>5. About(c)
    <3>1. PICK F : q'.flags = [q.flags EXCEPT ![c] = F]
                    /\ F \subseteq q.flags[c] \cup {"ACTIVE", "ACTIVE_LATER"}
      BY <2>4
    <3>2. Keeps(ev', c)
      BY <2>2, KeepsSame
    <3>3. F \cap {"INSERTED", "TIMEOUT"} \subseteq q.flags[c]
          /\ ("FINALIZING" \in F => "FINALIZING" \in q.flags[c])
      BY <3>1
    <3> QED
      BY <1>1, <2>3, <3>1, <3>2, <3>3, AboutKeeps
  <2>6. CASE base' \in {evthread_notify_base(base, a), evthread_notify_base(n, a)}
    <3>1. Notifies(base, base') /\ Wakes(a)
      BY <1>1, <2>1, <2>6, NotifiesTwice, WakesBy
    <3> QED
      BY <1>2, <2>3, <2>5, <3>1, LoopSame DEF Effect
  <2>7. CASE q' = q /\ base' \in {base, n}
    <3>1. NotifiesOnly(base, base') /\ Notifies(base, base')
      BY <2>1, <2>7, NotifiesTwice
    <3>2. SameTimeouts(ev')
      BY <2>2, KeepsSame
    <3>3. Quiet
      BY <1>1, <2>7, <3>1, <3>2, FinalizingEffect, QuietSame
    <3> QED
      BY <1>2, <2>3, <2>5, <3>1, <3>3, LoopSame DEF Effect
  <2> QED
    BY <2>2, <2>6, <2>7
<1>4. CASE event_deferred_cb_cancel_(a, c)
  <2>1. /\ q' = Cancelled(q, c)
        /\ hist' = [hist EXCEPT !.armed[c] = FALSE]
        /\ UNCHANGED <<ev, base>>
    BY <1>4 DEF event_deferred_cb_cancel_
  <2>2. hist'.armed = [hist.armed EXCEPT ![c] = FALSE] /\ hist'.late = hist.late
    BY <2>1, Parts DEF History
  <2>3. /\ q'.flags = [q.flags EXCEPT ![c] = q.flags[c] \ {"ACTIVE", "ACTIVE_LATER"}]
        /\ q'.event_count_active <= q.event_count_active
        /\ q'.timeheap = q.timeheap
        /\ q.flags[c] \cap Registration = {} => q' = q
    BY <1>1, <2>1, CancelledEffect DEF Lowers
  <2>4. About(c)
    <3>1. \A d \in Callback \ {c} :
            q'.flags[d] = q.flags[d] /\ ev'[d] = ev[d] /\ hist'.armed[d] = hist.armed[d]
      BY <1>1, <2>1, <2>2, <2>3, ArmedEffect
    <3>2. q'.flags[c] = q.flags[c] \ {"ACTIVE", "ACTIVE_LATER"}
      BY <1>1, <2>3
    <3>3. Sound(q, ev, hist, c) => Sound(q', ev', hist', c)
      BY <2>1, <3>2 DEF Sound, Final, Registration
    <3>4. Final(ev, c) => Final(ev', c)
      BY <2>1
    <3> QED
      BY <3>1, <3>3, <3>4 DEF About
  <2>5. Quiet
    <3>1. "INSERTED" \notin q.flags[c]
      BY <1>1, QueuesAssumption DEF Good, QueuesOK, OnlyEvents, With
    <3>2. q.event_count_active = 0 /\ q.timeheap = {} => q' = q
      BY <1>1, <2>3, <3>1, Unregistered
    <3>3. With(q, "INSERTED")' \subseteq With(q, "INSERTED")
      BY <1>1, <2>3 DEF With
    <3>4. \A e \in q'.timeheap : ev[e].timeout <= ev'[e].timeout
      BY <1>1, <2>1, <2>3 DEF CallbackFields, Good, Queues, Callback
    <3> QED
      BY <2>1, <2>3, <3>2, <3>3, <3>4 DEF Quiet
  <2> QED
    BY <1>2, <2>1, <2>2, <2>4, <2>5, NotifiesTwice, LoopSame DEF Effect
<1>5. CASE event_callback_finalize_(a, c)
  <2> DEFINE s == Cancelled(q, c)
             u == event_callback_activate_nolock_(s, c)
  <2>1. /\ ev' = [ev EXCEPT ![c].closure = "cb_finalize"]
        /\ q' = SetFinalizing(u, c)
        /\ base' = evthread_notify_base(base, a)
        /\ hist' = [hist EXCEPT !.finalized[c] = "asked"]
    BY <1>5 DEF event_callback_finalize_
  <2>2. hist'.armed = hist.armed /\ hist'.late = hist.late
    BY <2>1, Parts DEF History
  <2>3. Good(s) /\ s.flags = [q.flags EXCEPT ![c] = q.flags[c] \ {"ACTIVE", "ACTIVE_LATER"}]
    <3>1. Good(q) /\ c \in Callback
      BY <1>1
    <3>2. Lowers(q, s, c, q.flags[c] \ {"ACTIVE", "ACTIVE_LATER"})
      BY <3>1, CancelledEffect
    <3>3. Good(s)
      BY <3>1, CancelledGood
    <3> QED
      BY <3>2, <3>3 DEF Lowers
  <2>4. /\ s.flags = [q.flags EXCEPT ![c] = s.flags[c]]
        /\ s.flags[c] \subseteq q.flags[c]
    BY <1>1, <2>3
  <2> HIDE DEF s
  <2>5. q'.flags = [q.flags EXCEPT ![c] = q'.flags[c]]
        /\ q'.flags[c] \cap {"INSERTED", "TIMEOUT"} \subseteq s.flags[c]
    BY <1>1, <2>1, <2>3, <2>4, FinalizedFlags
  <2>6. /\ ev' \in [Callback -> CallbackFields] /\ Final(ev', c)
        /\ \A d \in Callback \ {c} : ev'[d] = ev[d]
    <3>1. ev'[c].closure = "cb_finalize"
      BY <1>1, <2>1 DEF CallbackFields
    <3>2. ev' \in [Callback -> CallbackFields]
      BY <1>1, <2>1 DEF CallbackFields, Closure
    <3> QED
      BY <1>1, <2>1, <3>1, <3>2 DEF Final
  <2>7. About(c)
    BY <1>1, <2>2, <2>4, <2>5, <2>6, AboutFinal
  <2>8. Notifies(base, base') /\ Wakes(a)
    BY <1>1, <2>1, NotifiesTwice, WakesBy
  <2> QED
    BY <1>2, <2>2, <2>7, <2>8, LoopSame DEF Effect
<1> QED
  BY <1>3, <1>4, <1>5

\* event_base_loopexit
LEMMA LoopExitEffects ==
  ASSUME IInv, NEW a, NEW tv \in Timeval, event_base_loopexit(a, tv)
  PROVE  Effect(a, ExitEv) /\ Moves(ExitEv)
<1>1. ExitEv \in Event /\ base \in BaseFields
  BY UserEvents, Parts
<1>2. UNCHANGED <<loop, th>> /\ q.flags[ExitEv] = {}
  BY DEF event_base_loopexit
<1>3. CASE tv \in {NoTimeval, 0}
  <2> DEFINE v == ActiveResult(q, ExitEv, {"EV_TIMEOUT"})
             b == ActiveContinue(base, ExitEv)
  <2>1. ActivateNow(a, ExitEv, 1, v, b)
    BY <1>3 DEF event_base_loopexit
  <2>2. Keeps(v, ExitEv) /\ SameTimeouts(v)
    <3>1. {"EV_TIMEOUT"} \in SUBSET Result /\ NoTimeval \in Timeval /\ ExitEv \in Callback
      BY UserEvents DEF Result, Timeval
    <3> QED
      BY <3>1, FieldsEffect
  <2>3. b \in BaseFields /\ NotifiesOnly(base, b)
    BY <1>1, NotifyEffect
  <2> HIDE DEF v, b
  <2> QED
    BY <1>1, <1>2, <2>1, <2>2, <2>3, ActivateNowEffect, MovesEffect
<1>4. CASE tv \notin {NoTimeval, 0}
  <2>1. AddNow(a, ExitEv, tv)
    BY <1>2, <1>4 DEF event_base_loopexit, AddNow
  <2> QED
    BY <1>1, <1>2, <2>1, AddNowEffect, MovesEffect
<1> QED
  BY <1>3, <1>4

\* The calls that change only the base
LEMMA BaseCallEffects ==
  ASSUME IInv, NEW a,
         \/ event_base_loopbreak(a) \/ event_base_loopcontinue(a)
         \/ event_base_add_virtual_(a) \/ event_base_del_virtual_(a)
  PROVE  Effect(a, ExitEv) /\ Moves(ExitEv)
<1>1. ExitEv \in Callback /\ base \in BaseFields /\ Good(q)
      /\ q.flags \in [Callback -> SUBSET Flag]
  BY UserEvents, Parts, GoodFields
<1>2. UNCHANGED <<q, ev, loop, th, hist>>
  BY DEF event_base_loopbreak, event_base_loopcontinue, event_base_add_virtual_,
         event_base_del_virtual_
<1>3. About(ExitEv)
  BY <1>2 DEF About, Sound, Final
<1>4. ASSUME NEW n, base' = n, Notifies(base, n), n.event_break = base.event_break,
             base.virtual_event_count > 0 => n.virtual_event_count > 0
      PROVE  Quiet
  <2>1. SameTimeouts(ev') /\ SameWork(q, q')
    BY <1>1, <1>2, KeepsSame, FinalizingEffect
  <2>2. \A e \in q'.timeheap : ev[e].timeout <= ev'[e].timeout /\ e \in q.timeheap
    BY <1>1, <1>2, Parts DEF CallbackFields, Good, Queues
  <2> QED
    BY <1>1, <1>2, <1>4, <2>2, Parts DEF Quiet, SameWork, Good, Queues
<1>5. Notifies(base, base') /\ (Quiet \/ Wakes(a))
  <2>1. CASE event_base_loopbreak(a)
    <3> DEFINE b == [base EXCEPT !.event_break = TRUE]
    <3>1. b \in BaseFields /\ Notifies(base, b)
      BY <1>1 DEF BaseFields, Notifies
    <3>2. base' = evthread_notify_base(b, a)
      BY <2>1 DEF event_base_loopbreak
    <3> HIDE DEF b
    <3> QED
      BY <3>1, <3>2, NotifiesTwice, WakesBy
  <2>2. CASE event_base_loopcontinue(a)
    <3> DEFINE b == [base EXCEPT !.event_continue = TRUE]
    <3>1. b \in BaseFields /\ Notifies(base, b)
      BY <1>1 DEF BaseFields, Notifies
    <3>2. base' = evthread_notify_base(b, a)
      BY <2>2 DEF event_base_loopcontinue
    <3> HIDE DEF b
    <3> QED
      BY <3>1, <3>2, NotifiesTwice, WakesBy
  <2>3. CASE event_base_add_virtual_(a)
    <3> DEFINE b == [base EXCEPT !.virtual_event_count = @ + 1]
    <3>1. Notifies(base, b) /\ b.event_break = base.event_break
          /\ b.virtual_event_count = base.virtual_event_count + 1
          /\ base.virtual_event_count \in Nat
      BY <1>1 DEF BaseFields, Notifies
    <3>2. base' = b
      BY <2>3 DEF event_base_add_virtual_
    <3> HIDE DEF b
    <3> QED
      BY <1>4, <3>1, <3>2
  <2>4. CASE event_base_del_virtual_(a)
    <3> DEFINE b == [base EXCEPT !.virtual_event_count = @ - 1]
    <3>1. b \in BaseFields /\ Notifies(base, b) /\ b.event_break = base.event_break
          /\ b.virtual_event_count \in Nat
      BY <1>1, <2>4 DEF BaseFields, Notifies, event_base_del_virtual_
    <3>2. base' = IF b.virtual_event_count = 0 THEN evthread_notify_base(b, a) ELSE b
      BY <2>4 DEF event_base_del_virtual_
    <3> HIDE DEF b
    <3>3. CASE b.virtual_event_count = 0
      BY <3>1, <3>2, <3>3, NotifiesTwice, WakesBy
    <3>4. CASE b.virtual_event_count # 0
      BY <1>4, <3>1, <3>2, <3>4
    <3> QED
      BY <3>3, <3>4
  <2> QED
    BY <2>1, <2>2, <2>3, <2>4
<1> QED
  BY <1>2, <1>3, <1>5, LoopSame, MovesEffect DEF Effect

\* Any call of the API
LEMMA ApiEffect ==
  ASSUME IInv, NEW a \in Actor, Api(a)
  PROVE  \E c \in Callback \ {NotifyEv} : Effect(a, c) /\ Moves(c)
<1>1. CASE \E e \in UserEvent :
             \/ \E tv \in Delays \cup (IF Kind[e] = "timer" THEN {} ELSE {NoTimeval}) :
                  event_add(a, e, tv)
             \/ event_remove_timer(a, e)
             \/ \E f \in {"event_del", "event_del_block", "event_del_noblock"} :
                  event_del(a, e, f)
             \/ \E n \in 1 .. (IF Kind[e] = "signal" THEN MaxCalls ELSE 1) :
                  event_active(a, e, n)
             \/ event_active_later_(a, e)
             \/ event_finalize(a, e)
  <2>1. PICK e \in UserEvent :
          \/ \E tv \in Timeval : event_add(a, e, tv)
          \/ event_remove_timer(a, e)
          \/ \E f : event_del(a, e, f)
          \/ \E n \in Nat : event_active(a, e, n)
          \/ event_active_later_(a, e)
          \/ event_finalize(a, e)
    <3>1. \A e : Delays \cup (IF Kind[e] = "timer" THEN {} ELSE {NoTimeval}) \subseteq Timeval
      BY BaseAssumption DEF Timeval
    <3>2. \A e : 1 .. (IF Kind[e] = "signal" THEN MaxCalls ELSE 1) \subseteq Nat
      BY BaseAssumption
    <3> QED
      BY <1>1, <3>1, <3>2
  <2>2. Effect(a, e) /\ Moves(e)
    BY <2>1, AddEffects, RemoveTimerEffects, DelEffects, ActiveEffects, ActiveLaterEffects,
       FinalizeEffects
  <2> QED
    BY <2>2, UserEvents
<1>2. CASE \E c \in Deferred :
             \/ event_deferred_cb_schedule_(a, c)
             \/ event_deferred_cb_cancel_(a, c)
             \/ event_callback_finalize_(a, c)
  BY <1>2, DeferredEffects, UserEvents
<1>3. CASE \E tv \in Delays \cup {NoTimeval} : event_base_loopexit(a, tv)
  <2>1. Delays \cup {NoTimeval} \subseteq Timeval
    BY BaseAssumption DEF Timeval
  <2> QED
    BY <1>3, <2>1, LoopExitEffects, UserEvents
<1>4. CASE \/ event_base_loopbreak(a) \/ event_base_loopcontinue(a)
           \/ event_base_add_virtual_(a) \/ event_base_del_virtual_(a)
  BY <1>4, BaseCallEffects, UserEvents
<1> QED
  BY <1>1, <1>2, <1>3, <1>4 DEF Api

\* What a thread that goes on after its wait does
LEMMA ResumeEffect ==
  ASSUME IInv, NEW t \in Thread, ThreadResume(t), th[t].ev \in UserEvent,
         th[t].op = "finalize" => Final(ev, th[t].ev)
  PROVE  Effect(t, th[t].ev) /\ Moves(th[t].ev)
<1> DEFINE e == th[t].ev
<1>1. /\ e \in Event /\ e \in Callback /\ base \in BaseFields
      /\ th[t].tv \in Timeval /\ th[t].n \in Nat
  BY UserEvents, Parts DEF ThreadLocals
<1>2. /\ Keeps(ev, e) /\ SameTimeouts(ev) /\ NotifiesOnly(base, base)
  BY KeepsSame, NotifiesTwice
<1>3. e \in UserEvent /\ e = th[t].ev
  OBVIOUS
<1> HIDE DEF e
<1>4. CASE th[t].op = "del" /\ DelNow(t, e) /\ th' = Deleted(t, e)
  BY <1>1, <1>3, <1>4, DelNowEffect, MovesEffect
<1>5. CASE AddNow(t, e, th[t].tv) /\ th' = [th EXCEPT ![t] = Idle]
  BY <1>1, <1>3, <1>5, AddNowEffect, MovesEffect
<1>6. CASE ActivateNow(t, e, th[t].n, ev, base) /\ th' = [th EXCEPT ![t] = Idle]
           /\ UNCHANGED loop
  <2>1. Effect(t, e)
    BY <1>1, <1>2, <1>6, ActivateNowEffect
  <2> QED
    BY <1>3, <1>6, <2>1, MovesEffect
<1>7. CASE th[t].op = "finalize" /\ FinalizeNow(t, e, q, ev, base)
           /\ th' = [th EXCEPT ![t] = Idle] /\ UNCHANGED <<loop, hist>>
  <2>1. Final(ev, e) /\ q \in {q, event_del_nolock_(q, e)}
    BY <1>3, <1>7
  <2>2. Effect(t, e)
    BY <1>1, <1>2, <1>7, <2>1, FinalizeNowEffect DEF Keeps
  <2> QED
    BY <1>3, <1>7, <2>2, MovesEffect
<1> QED
  BY <1>3, <1>4, <1>5, <1>6, <1>7 DEF ThreadResume

-----------------------------------------------------------------------------
(* The invariants.                                                         *)

\* The notification: while its byte is unread no other is sent, and the loop keeps what it
\* knows of the readable socket (th_notify in the result of the backend, active or running)
\* no longer than the byte is there.
NotifyInv ==
  /\ base.is_notify_pending <=> base.notify_readable \/ loop.pc = "drain"
  /\ loop.pc = "drain" => ~base.notify_readable /\ loop.running = NotifyEv
  /\ \/ NotifyEv \in loop.ready
     \/ "ACTIVE" \in q.flags[NotifyEv]
     \/ loop.pc \in {"count", "callback"} /\ loop.running = NotifyEv
     => base.notify_readable
  /\ loop.ready # {} => loop.pc \in {"selected", "activate"}
  /\ loop.running = NotifyEv => "ACTIVE" \notin q.flags[NotifyEv]
  /\ loop.pc \notin {"count", "callback", "drain", "return"} => loop.running = NoCallback
  /\ q.flags[NotifyEv] \subseteq {"INSERTED", "ACTIVE"}
  /\ ev[NotifyEv].io_timeout = 0
  /\ loop.pc # "out" => base.running_loop

\* A thread that waits, or has been woken, has called the API with an event of the application.
CallersInv ==
  \A t \in Thread : th[t].pc # "idle" =>
    th[t].ev \in UserEvent /\ (th[t].op = "finalize" => Final(ev, th[t].ev))

\* The loop is not to return, and has no reason to be in the backend for less than loop.tv.
MaySleep ==
  /\ q.timeheap = {}
  /\ N_ACTIVE_CALLBACKS = 0
  /\ "NO_EXIT_ON_EMPTY" \notin loop.flags => event_haveevents

\* What the loop has decided at its head is still so when it calls the backend, and, but for a
\* notification, while it is there.
SleepInv ==
  /\ loop.pc = "later" =>
       /\ ~base.event_break
       /\ N_ACTIVE_CALLBACKS > 0 => loop.tv = 0
       /\ loop.tv = NoTimeval => MaySleep
  /\ loop.pc = "select" =>
       /\ NewWork => base.notify_readable \/ Expired
       /\ loop.tv = NoTimeval => base.notify_readable \/ MaySleep

\* The same of the time of the wait, if the loop does not use a cached time.
TimeInv ==
  NoCacheTime =>
    /\ base.tv_cache = NoTimeval
    /\ loop.pc = "later" =>
         \A e \in q.timeheap :
           loop.tv = 0 \/ (loop.tv # NoTimeval /\ clock + loop.tv <= ev[e].timeout)
    /\ NoOversleep

\* After event_base_loopbreak the loop runs the callback it has begun, and no other.
BreakInv ==
  /\ hist.late \in {0, 1}
  /\ hist.late = 1 =>
       /\ base.event_break
       /\ loop.pc \in {"count", "callback", "drain", "return", "after", "top", "out"}

\* What is registered is armed, or about to be finalized.
ArmedInv == \A c \in Callback \ {NotifyEv} : Sound(q, ev, hist, c)

KInv == NotifyInv /\ CallersInv /\ SleepInv /\ TimeInv /\ BreakInv /\ ArmedInv

\* The initial state
LEMMA InitKInv == Init => KInv
<1> SUFFICES ASSUME Init
             PROVE  KInv
  OBVIOUS
<1>1. NotifyEv \in Callback
  BY BaseAssumption DEF Callback
<1>2. \A c \in Callback : q.flags[c] = IF c = NotifyEv THEN {"INSERTED"} ELSE {}
  BY <1>1 DEF Init, event_queue_insert_inserted, EmptyQueues
<1>3. \A c \in Callback : ev[c].io_timeout = 0 /\ (ev[c].closure = "persist" => c \in Persist)
  BY DEF Init
<1>4. loop = Outside /\ loop.pc = "out" /\ loop.ready = {} /\ loop.running = NoCallback
  BY DEF Init, Outside
<1>5. ~base.is_notify_pending /\ ~base.notify_readable /\ base.tv_cache = NoTimeval
  BY DEF Init
<1>6. NotifyInv
  BY <1>1, <1>2, <1>3, <1>4, <1>5, BaseAssumption DEF NotifyInv
<1>7. CallersInv
  BY DEF Init, Idle, CallersInv
<1>8. SleepInv /\ TimeInv
  BY <1>4, <1>5 DEF SleepInv, TimeInv, NoOversleep
<1>9. BreakInv
  BY DEF Init, BreakInv
<1>10. ArmedInv
  BY <1>2, <1>3 DEF ArmedInv, Sound, Registration
<1> QED
  BY <1>6, <1>7, <1>8, <1>9, <1>10 DEF KInv

\* The counter of active callbacks is not negative.
LEMMA CountNat ==
  ASSUME NEW s, Good(s)
  PROVE  s.event_count_active \in Nat
<1>1. s.event_count_active
        = Cardinality(With(s, "ACTIVE")) + Cardinality(With(s, "ACTIVE_LATER"))
  BY DEF Good, QueuesOK, ActiveCounted
<1>2. Cardinality(With(s, "ACTIVE")) \in Nat /\ Cardinality(With(s, "ACTIVE_LATER")) \in Nat
  BY RegistrationCounts DEF Good, Registration
<1> QED
  BY <1>1, <1>2

\* The types after a step
LEMMA NextTypes ==
  ASSUME IInv'
  PROVE  /\ Good(q') /\ q' \in Queues /\ q'.event_count_active \in Nat
         /\ q'.timeheap \subseteq Event
         /\ q'.flags \in [Callback -> SUBSET Flag]
         /\ ev' \in [Callback -> CallbackFields]
         /\ \A e \in Event : ev'[e].timeout \in Nat
         /\ base' \in BaseFields /\ loop' \in LoopLocals
<1>1. Good(q') /\ q' \in Queues /\ ev' \in [Callback -> CallbackFields]
      /\ base' \in BaseFields /\ loop' \in LoopLocals
  BY DEF IInv, TypeOK, QueuesAlwaysOK, Good
<1>2. q'.timeheap \subseteq Event /\ q'.flags \in [Callback -> SUBSET Flag]
  BY <1>1 DEF Queues
<1>3. \A e \in Event : ev'[e].timeout \in Nat
  BY <1>1 DEF CallbackFields, Callback
<1> QED
  BY <1>1, <1>2, <1>3, CountNat

\* The same before it
LEMMA NowTypes ==
  ASSUME IInv
  PROVE  /\ Good(q) /\ q \in Queues /\ q.event_count_active \in Nat
         /\ q.timeheap \subseteq Event
         /\ q.flags \in [Callback -> SUBSET Flag]
         /\ ev \in [Callback -> CallbackFields]
         /\ \A e \in Event : ev[e].timeout \in Nat
         /\ base \in BaseFields /\ loop \in LoopLocals
         /\ loop.tv \in Timeval
<1>1. Good(q) /\ q \in Queues /\ ev \in [Callback -> CallbackFields]
      /\ base \in BaseFields /\ loop \in LoopLocals
  BY DEF IInv, TypeOK, QueuesAlwaysOK, Good
<1>2. q.timeheap \subseteq Event /\ q.flags \in [Callback -> SUBSET Flag]
  BY <1>1 DEF Queues
<1>3. \A e \in Event : ev[e].timeout \in Nat
  BY <1>1 DEF CallbackFields, Callback
<1>4. loop.tv \in Timeval
  BY <1>1 DEF LoopLocals
<1> QED
  BY <1>1, <1>2, <1>3, <1>4, CountNat

\* A call of the API, or what is left of it, keeps the invariants.
LEMMA CallKInv ==
  ASSUME IInv, IInv', KInv, NEW a, NEW c \in Callback \ {NotifyEv}, Effect(a, c), Moves(c),
         loop.pc # "later", loop.pc = "select" => EVBASE_NEED_NOTIFY(base, a),
         clock' = clock
  PROVE  KInv'
<1> USE DEF KInv
<1>1. /\ loop' = [loop EXCEPT !.ncalls = loop'.ncalls]
      /\ loop \in LoopLocals
  BY Parts DEF Effect, LoopLocals
<1>2. /\ loop'.pc = loop.pc /\ loop'.running = loop.running /\ loop'.ready = loop.ready
      /\ loop'.tv = loop.tv /\ loop'.flags = loop.flags /\ loop'.polled = loop.polled
  BY <1>1 DEF LoopLocals
<1>3. Notifies(base, base') /\ (Quiet \/ Wakes(a)) /\ About(c) /\ hist'.late = hist.late
  BY DEF Effect
<1>4. NotifyEv \in Callback \ {c} /\ NotifyEv \in Callback
  BY BaseAssumption DEF Callback
<1>5. q'.flags[NotifyEv] = q.flags[NotifyEv] /\ ev'[NotifyEv] = ev[NotifyEv]
  BY <1>3, <1>4 DEF About
<1>6. NotifyInv'
  BY <1>2, <1>3, <1>5 DEF NotifyInv, Notifies
<1>7. CallersInv'
  <2> SUFFICES ASSUME NEW t \in Thread, th'[t].pc # "idle"
               PROVE  th'[t].ev \in UserEvent /\ (th'[t].op = "finalize" => Final(ev', th'[t].ev))
    BY DEF CallersInv, Final
  <2>1. CASE th'[t] = th[t]
    <3>1. th[t].ev \in UserEvent /\ (th[t].op = "finalize" => Final(ev, th[t].ev))
      BY <2>1 DEF CallersInv
    <3>2. th[t].ev \in Callback
      BY <3>1, UserEvents
    <3>3. Final(ev, th[t].ev) => Final(ev', th[t].ev)
      BY <1>3, <3>2 DEF About, Final
    <3> QED
      BY <2>1, <3>1, <3>3
  <2>2. CASE th'[t].ev = c /\ c \in UserEvent /\ (th'[t].op = "finalize" => Final(ev', c))
    BY <2>2
  <2> QED
    BY <2>1, <2>2 DEF Moves
<1>8. loop.pc = "select" => Quiet \/ base'.notify_readable
  <2>1. loop.pc = "select" /\ Wakes(a) => base'.is_notify_pending
    BY DEF Wakes
  <2> QED
    BY <1>2, <1>3, <1>6, <2>1 DEF NotifyInv
<1>9. base.notify_readable => base'.notify_readable
  BY <1>3 DEF Notifies
<1>10. SleepInv'
  <2> SUFFICES ASSUME loop.pc = "select", ~base'.notify_readable
               PROVE  /\ NewWork' => Expired'
                      /\ loop'.tv = NoTimeval => MaySleep'
    BY <1>2 DEF SleepInv
  <2>1. Quiet /\ ~base.notify_readable
    BY <1>8, <1>9
  <2>2. Expired' <=> Expired
    BY <1>2 DEF Expired
  <2>3. NewWork' => NewWork
    <3>1. q.event_count_active \in Int /\ q'.event_count_active \in Int
      BY NowTypes, NextTypes
    <3> QED
      BY <1>2, <2>1, <3>1 DEF NewWork, Quiet, N_ACTIVE_CALLBACKS
  <2>4. MaySleep => MaySleep'
    <3> SUFFICES ASSUME MaySleep
                 PROVE  MaySleep'
      OBVIOUS
    <3>1. q.timeheap = {} /\ q.event_count_active = 0
      BY DEF MaySleep, N_ACTIVE_CALLBACKS
    <3>2. q'.timeheap = {} /\ q'.event_count_active = 0 /\ q'.event_count = q.event_count
      BY <2>1, <3>1, NextTypes DEF Quiet
    <3>3. event_haveevents => event_haveevents'
      BY <2>1, <3>2 DEF Quiet, event_haveevents
    <3> QED
      BY <1>2, <3>2, <3>3 DEF MaySleep, N_ACTIVE_CALLBACKS
  <2> QED
    BY <1>2, <2>1, <2>2, <2>3, <2>4 DEF SleepInv
<1>11. TimeInv'
  <2> SUFFICES ASSUME NoCacheTime
               PROVE  base'.tv_cache = NoTimeval /\ NoOversleep'
    BY <1>2 DEF TimeInv
  <2>1. base'.tv_cache = NoTimeval /\ NoOversleep
    BY <1>3 DEF TimeInv, Notifies
  <2>2. ASSUME loop.pc = "select", ~base'.notify_readable, ~Expired, NEW e \in q'.timeheap
        PROVE  loop.tv # NoTimeval /\ loop.tv <= ev'[e].timeout
    <3>1. PICK f \in q.timeheap : ev[f].timeout <= ev'[e].timeout
      BY <1>8, <2>2 DEF Quiet
    <3>2. loop.tv # NoTimeval /\ loop.tv <= ev[f].timeout
      BY <1>9, <2>1, <2>2 DEF NoOversleep
    <3> QED
      BY <2>2, <3>1, <3>2, NowTypes, NextTypes DEF Timeval
  <2> QED
    BY <1>2, <2>1, <2>2 DEF NoOversleep, Expired
<1>12. BreakInv'
  BY <1>2, <1>3 DEF BreakInv, Notifies
<1>13. ArmedInv'
  <2> SUFFICES ASSUME NEW d \in Callback \ {NotifyEv}
               PROVE  Sound(q', ev', hist', d)
    BY DEF ArmedInv, Sound, Final
  <2>1. Sound(q, ev, hist, d)
    BY DEF ArmedInv
  <2>2. CASE d = c
    BY <1>3, <2>1, <2>2 DEF About
  <2>3. CASE d # c
    BY <1>3, <2>1, <2>3 DEF About, Sound, Final
  <2> QED
    BY <2>2, <2>3
<1> QED
  BY <1>6, <1>7, <1>10, <1>11, <1>12, <1>13

\* Who calls the API while the loop is in its backend is another thread, and has to notify it.
LEMMA CallersNotify ==
  ASSUME KInv, WInv, NEW a \in Actor, LockFree, a = LoopThread => loop.pc \in {"callback", "out"}
  PROVE  loop.pc # "later" /\ (loop.pc = "select" => EVBASE_NEED_NOTIFY(base, a))
<1>1. loop.pc # "later"
  BY DEF LockFree
<1>2. loop.pc = "select" => a \in Thread
  BY DEF Actor
<1>3. loop.pc = "select" => base.running_loop /\ base.th_owner_id = LoopThread
  BY DEF KInv, NotifyInv, WInv
<1> QED
  BY <1>1, <1>2, <1>3, BaseAssumption DEF EVBASE_NEED_NOTIFY

\* The API keeps the invariants.
LEMMA ApiKInv ==
  ASSUME IInv, IInv', WInv, KInv, NEW a \in Actor, Api(a)
  PROVE  KInv'
<1>1. PICK c \in Callback \ {NotifyEv} : Effect(a, c) /\ Moves(c)
  BY ApiEffect
<1>2. (\E f : CanCall(a, f)) /\ clock' = clock
  BY DEF Api, event_add, event_remove_timer, event_del, event_active, event_active_later_,
         event_finalize, event_deferred_cb_schedule_, event_deferred_cb_cancel_,
         event_callback_finalize_, event_base_loopexit, event_base_loopbreak,
         event_base_loopcontinue, event_base_add_virtual_, event_base_del_virtual_
<1>3. LockFree /\ (a = LoopThread => loop.pc \in {"callback", "out"})
  BY <1>2 DEF CanCall, InUserCallback
<1> QED
  BY <1>1, <1>2, <1>3, CallersNotify, CallKInv

\* So does a step of a thread that touches nothing but its own locals, and time.
LEMMA SameKInv ==
  ASSUME IInv, KInv, UNCHANGED <<q, ev, base, loop, hist>>, clock' \in {clock, clock + 1},
         Moves(ExitEv), LockFree \/ clock' = clock
  PROVE  KInv'
<1> USE DEF KInv
<1>1. NotifyInv'
  BY DEF NotifyInv
<1>2. CallersInv'
  BY DEF CallersInv, Moves, Final
<1>3. (NewWork' <=> NewWork) /\ (MaySleep' <=> MaySleep) /\ (Expired => Expired')
  <2>1. clock \in Nat /\ loop.tv \in Timeval
    BY Parts, NowTypes
  <2> QED
    BY <2>1 DEF NewWork, MaySleep, N_ACTIVE_CALLBACKS, event_haveevents, With, Expired,
                Timeval, NoTimeval
<1>4. SleepInv'
  BY <1>3 DEF SleepInv, N_ACTIVE_CALLBACKS
<1>5. TimeInv'
  BY <1>3 DEF TimeInv, NoOversleep, LockFree
<1>6. BreakInv' /\ ArmedInv'
  BY DEF BreakInv, ArmedInv, Sound, Final
<1> QED
  BY <1>1, <1>2, <1>4, <1>5, <1>6

\* A thread that goes on after its wait, or after event_del, keeps the invariants.
LEMMA ThreadKInv ==
  ASSUME IInv, IInv', WInv, KInv, NEW t \in Thread, ThreadResume(t) \/ ThreadIdle(t)
  PROVE  KInv'
<1>1. t \in Actor /\ t # LoopThread
  BY BaseAssumption DEF Actor
<1>2. CASE ThreadResume(t)
  <2>1. th[t].pc = "woken" /\ LockFree /\ clock' = clock
    BY <1>2 DEF ThreadResume
  <2>2. th[t].ev \in UserEvent /\ (th[t].op = "finalize" => Final(ev, th[t].ev))
    BY <2>1 DEF KInv, CallersInv
  <2>3. Effect(t, th[t].ev) /\ Moves(th[t].ev) /\ th[t].ev \in Callback \ {NotifyEv}
    BY <1>2, <2>2, ResumeEffect, UserEvents
  <2> QED
    BY <1>1, <2>1, <2>3, CallersNotify, CallKInv
<1>3. CASE ThreadIdle(t)
  <2>1. UNCHANGED <<q, ev, base, loop, clock, hist>> /\ th' = [th EXCEPT ![t] = Idle]
    BY <1>3 DEF ThreadIdle
  <2> QED
    BY <2>1, MovesEffect, SameKInv
<1> QED
  BY <1>2, <1>3

-----------------------------------------------------------------------------
(* The steps of the loop.                                                  *)

\* Of the base b, n keeps the notification and event_break, and it has no cached time that b
\* did not have, if there are to be none.
SameWake(b, n) ==
  /\ n.is_notify_pending = b.is_notify_pending
  /\ n.notify_readable = b.notify_readable
  /\ n.event_break = b.event_break
  /\ NoCacheTime => n.tv_cache \in {b.tv_cache, NoTimeval}

\* Nothing happens to a callback but that its result, ev_ncalls or ev_pncalls change.
SameCallbacks ==
  /\ q' = q
  /\ \A c \in Callback :
       /\ ev'[c].closure = ev[c].closure
       /\ ev'[c].io_timeout = ev[c].io_timeout
  /\ hist'.armed = hist.armed

\* The loop thread goes on elsewhere, with nothing left to activate or to run.
Leaves ==
  /\ SameWake(base, base')
  /\ loop'.pc \in {"top", "queue", "after", "activate", "timeouts", "process", "out"}
  /\ loop'.pc # "out" => base'.running_loop
  /\ loop'.ready = loop.ready \/ loop'.ready = {}
  /\ loop'.ready # {} => loop'.pc = "activate"
  /\ loop'.running = NoCallback

\* Such a step keeps the invariants.
LEMMA LeavesKInv ==
  ASSUME KInv, SameCallbacks, Leaves, loop.pc # "drain", hist'.late = hist.late,
         hist.late = 1 => loop'.pc \in {"after", "top", "out"},
         \A t \in Thread : \/ th'[t] = th[t]
                           \/ th[t].pc # "idle" /\ th'[t].ev = th[t].ev /\ th'[t].op = th[t].op
  PROVE  KInv'
<1> USE DEF KInv
<1>1. NotifyEv \in Callback /\ NotifyEv # NoCallback
  BY BaseAssumption DEF Callback
<1>2. NotifyInv'
  BY <1>1 DEF NotifyInv, SameCallbacks, Leaves, SameWake
<1>3. \A t \in Thread : th[t].pc # "idle" => th[t].ev \in UserEvent /\ th[t].ev \in Callback
  BY UserEvents DEF CallersInv
<1>4. CallersInv'
  BY <1>3 DEF CallersInv, SameCallbacks, Final
<1>5. SleepInv'
  BY DEF SleepInv, Leaves
<1>6. TimeInv'
  BY DEF TimeInv, NoOversleep, Leaves, SameWake
<1>7. BreakInv'
  BY DEF BreakInv, Leaves, SameWake
<1>8. ArmedInv'
  BY DEF ArmedInv, Sound, Final, SameCallbacks
<1> QED
  BY <1>2, <1>4, <1>5, <1>6, <1>7, <1>8

\* The label done of event_base_loop
LEMMA ExitLeaves ==
  ASSUME IInv, NEW b \in BaseFields, SameWake(base, b), LoopExit(b)
  PROVE  Leaves /\ loop'.pc = "out"
<1>1. base' = [clear_time_cache(b) EXCEPT !.running_loop = FALSE] /\ loop' = Outside
  BY DEF LoopExit
<1>2. SameWake(base, base')
  BY <1>1 DEF clear_time_cache, BaseFields, SameWake
<1> QED
  BY <1>1, <1>2 DEF Leaves, Outside

\* The locals m of the loop thread, of which l keeps the place
SamePlace(l, m) == m.ready = l.ready /\ m.running = l.running

\* event_process_active returns.
LEMMA DoneLeaves ==
  ASSUME IInv, NEW b \in BaseFields, SameWake(base, b), b.running_loop,
         NEW l \in LoopLocals, SamePlace(loop, l), loop.running = NoCallback, loop.ready = {},
         NEW n, ProcessDone(b, l, n)
  PROVE  Leaves /\ loop'.pc \in {"top", "out"}
<1> DEFINE b1 == [b EXCEPT !.event_running_priority = -1]
<1>1. b1 \in BaseFields /\ SameWake(base, b1) /\ b1.running_loop
  BY DEF BaseFields, SameWake
<1>2. \/ LoopExit(b1)
      \/ base' = b1 /\ loop' = [l EXCEPT !.pc = "top", !.count = 0, !.endtime = NoTimeval]
  BY DEF ProcessDone
<1> HIDE DEF b1
<1>3. CASE LoopExit(b1)
  BY <1>1, <1>3, ExitLeaves
<1>4. CASE base' = b1 /\ loop' = [l EXCEPT !.pc = "top", !.count = 0, !.endtime = NoTimeval]
  <2>1. loop'.pc = "top" /\ loop'.ready = l.ready /\ loop'.running = l.running
    BY <1>4 DEF LoopLocals
  <2> QED
    BY <1>1, <1>4, <2>1 DEF Leaves, SamePlace
<1> QED
  BY <1>2, <1>3, <1>4

\* event_process_active turns to another queue.
LEMMA FromLeaves ==
  ASSUME IInv, NEW b \in BaseFields, SameWake(base, b), b.running_loop,
         NEW l \in LoopLocals, SamePlace(loop, l), loop.running = NoCallback, loop.ready = {},
         NEW i, ProcessFrom(b, l, i)
  PROVE  Leaves
<1>1. CASE ProcessDone(b, l, 0)
  BY <1>1, DoneLeaves
<1>2. CASE /\ base' = [b EXCEPT !.event_running_priority = FirstQueue(i)]
           /\ loop' = [l EXCEPT !.pc = "queue", !.count = 0]
  <2>1. SameWake(base, base') /\ base'.running_loop
    BY <1>2 DEF BaseFields, SameWake
  <2>2. loop'.pc = "queue" /\ loop'.ready = l.ready /\ loop'.running = l.running
    BY <1>2 DEF LoopLocals
  <2> QED
    BY <2>1, <2>2 DEF Leaves, SamePlace
<1> QED
  BY <1>1, <1>2 DEF ProcessFrom

\* A queue is done.
LEMMA QueueDoneLeaves ==
  ASSUME IInv, NEW b \in BaseFields, SameWake(base, b), b.running_loop,
         NEW l \in LoopLocals, SamePlace(loop, l), loop.running = NoCallback, loop.ready = {},
         QueueDone(b, l)
  PROVE  Leaves
  BY DoneLeaves, FromLeaves DEF QueueDone

\* The cached time is set or cleared.
LEMMA TimeWake ==
  ASSUME IInv
  PROVE  /\ update_time_cache(base) \in BaseFields
         /\ SameWake(base, update_time_cache(base))
         /\ update_time_cache(base).running_loop = base.running_loop
         /\ SameWake(base, clear_time_cache(base))
         /\ clear_time_cache(base).running_loop = base.running_loop
         /\ clear_time_cache(base).tv_cache = NoTimeval
         /\ SameWake(base, base)
<1>1. update_time_cache(base) \in BaseFields
  BY Parts, TimeTypes
<1> QED
  BY <1>1, Parts DEF BaseFields, SameWake, update_time_cache, clear_time_cache

\* Where a loop that does not run a callback is
LEMMA IdlePlace ==
  ASSUME IInv, KInv, loop.pc \in {"top", "process", "queue", "after", "select", "timeouts"}
  PROVE  /\ loop.running = NoCallback /\ loop.ready = {} /\ base.running_loop
         /\ base \in BaseFields /\ loop \in LoopLocals /\ SamePlace(loop, loop)
         /\ loop.pc \notin {"top", "after"} => hist.late # 1
  BY NowTypes DEF KInv, NotifyInv, BreakInv, SamePlace

\* The steps that only take the loop thread from one place to the next keep the invariants.
LEMMA TurnKInv ==
  ASSUME IInv, KInv,
         \/ SelectFails \/ LoopRelock \/ LoopUpdateTime \/ LoopTimeoutsDone \/ LoopProcess
         \/ LoopQueueEmpty \/ LoopAfter
  PROVE  KInv'
<1>1. SameCallbacks /\ hist'.late = hist.late /\ UNCHANGED th
  BY DEF SelectFails, LoopRelock, LoopUpdateTime, LoopTimeoutsDone, LoopProcess,
         LoopQueueEmpty, LoopAfter, SameCallbacks
<1> SUFFICES /\ Leaves /\ loop.pc # "drain"
             /\ hist.late = 1 => loop'.pc \in {"after", "top", "out"}
  BY <1>1, LeavesKInv
<1>2. base \in BaseFields /\ loop \in LoopLocals
  BY NowTypes
<1>3. CASE SelectFails
  BY <1>2, <1>3, ExitLeaves, TimeWake DEF SelectFails
<1>4. CASE LoopRelock
  <2>1. loop'.pc = "activate" /\ loop'.ready = loop.ready /\ loop'.running = loop.running
        /\ base' = base /\ loop.pc = "selected"
    BY <1>2, <1>4 DEF LoopRelock, LoopLocals
  <2>2. loop.running = NoCallback /\ base.running_loop /\ hist.late # 1
    BY <2>1 DEF KInv, NotifyInv, BreakInv
  <2> QED
    BY <2>1, <2>2, TimeWake DEF Leaves
<1>5. CASE LoopUpdateTime
  <2>1. loop'.pc = "timeouts" /\ loop'.ready = loop.ready /\ loop'.running = loop.running
        /\ base' = update_time_cache(base) /\ loop.pc = "activate" /\ loop.ready = {}
    BY <1>2, <1>5 DEF LoopUpdateTime, LoopLocals
  <2>2. loop.running = NoCallback /\ base.running_loop /\ hist.late # 1
    BY <2>1 DEF KInv, NotifyInv, BreakInv
  <2> QED
    BY <2>1, <2>2, TimeWake DEF Leaves
<1>6. CASE LoopTimeoutsDone
  <2>1. loop'.pc = "process" /\ loop'.ready = loop.ready /\ loop'.running = loop.running
        /\ base' = base /\ loop.pc = "timeouts"
    BY <1>2, <1>6 DEF LoopTimeoutsDone, LoopLocals
  <2> QED
    BY <2>1, IdlePlace, TimeWake DEF Leaves
<1>7. CASE LoopProcess
  <2> DEFINE b == IF MaxDispatchTime = -1 THEN base ELSE update_time_cache(base)
             end == IF MaxDispatchTime = -1 THEN NoTimeval ELSE gettime(b) + MaxDispatchTime
             l == [loop EXCEPT !.endtime = end]
  <2>1. /\ loop.pc = "process"
        /\ \/ ProcessFrom(b, l, 0)
           \/ LoopExit(base)
           \/ loop' = [loop EXCEPT !.pc = "top"] /\ UNCHANGED base
    BY <1>7 DEF LoopProcess
  <2>2. b \in BaseFields /\ SameWake(base, b) /\ b.running_loop = base.running_loop
    BY <1>2, TimeWake
  <2>3. end \in Timeval
    <3>1. gettime(b) \in Nat
      BY <2>2, Parts, TimeTypes
    <3> HIDE DEF b
    <3> QED
      BY <3>1, BaseAssumption DEF Timeval
  <2> HIDE DEF end, b
  <2>4. l \in LoopLocals /\ SamePlace(loop, l)
    BY <1>2, <2>3 DEF LoopLocals, SamePlace
  <2> HIDE DEF l
  <2>5. CASE ProcessFrom(b, l, 0)
    BY <2>1, <2>2, <2>4, <2>5, IdlePlace, FromLeaves
  <2>6. CASE LoopExit(base)
    BY <2>1, <2>6, IdlePlace, ExitLeaves, TimeWake
  <2>7. CASE loop' = [loop EXCEPT !.pc = "top"] /\ UNCHANGED base
    <3>1. loop'.pc = "top" /\ loop'.ready = loop.ready /\ loop'.running = loop.running
      BY <1>2, <2>7 DEF LoopLocals
    <3> QED
      BY <2>1, <2>7, <3>1, IdlePlace, TimeWake DEF Leaves
  <2> QED
    BY <2>1, <2>5, <2>6, <2>7
<1>8. CASE LoopQueueEmpty
  BY <1>8, IdlePlace, TimeWake, QueueDoneLeaves DEF LoopQueueEmpty
<1>9. CASE LoopAfter
  <2> DEFINE limited == base.event_running_priority >= LimitCallbacksAfterPrio
             timed == limited /\ loop.count > 0 /\ loop.endtime # NoTimeval
             b == IF timed THEN update_time_cache(base) ELSE base
  <2>1. /\ loop.pc = "after"
        /\ \/ \E n : ProcessDone(base, loop, n)
           \/ ~base.event_break /\ (\E n : ProcessDone(b, loop, n))
           \/ ~base.event_break /\ QueueDone(b, loop)
           \/ ~base.event_break /\ base' = b /\ loop' = [loop EXCEPT !.pc = "queue"]
    BY <1>9 DEF LoopAfter
  <2>2. b \in BaseFields /\ SameWake(base, b) /\ b.running_loop = base.running_loop
    BY <1>2, TimeWake
  <2>3. ~base.event_break => hist.late # 1
    BY DEF KInv, BreakInv
  <2> HIDE DEF b
  <2>4. CASE \E n : ProcessDone(base, loop, n)
    BY <2>1, <2>4, IdlePlace, TimeWake, DoneLeaves
  <2>5. CASE ~base.event_break /\ (\E n : ProcessDone(b, loop, n))
    BY <2>1, <2>2, <2>5, IdlePlace, DoneLeaves
  <2>6. CASE ~base.event_break /\ QueueDone(b, loop)
    BY <2>1, <2>2, <2>3, <2>6, IdlePlace, QueueDoneLeaves
  <2>7. CASE ~base.event_break /\ base' = b /\ loop' = [loop EXCEPT !.pc = "queue"]
    <3>1. loop'.pc = "queue" /\ loop'.ready = loop.ready /\ loop'.running = loop.running
      BY <1>2, <2>7 DEF LoopLocals
    <3> QED
      BY <2>1, <2>2, <2>3, <2>7, <3>1, IdlePlace DEF Leaves
  <2> QED
    BY <2>1, <2>4, <2>5, <2>6, <2>7
<1> QED
  BY <1>3, <1>4, <1>5, <1>6, <1>7, <1>8, <1>9

\* event_base_loop starts.
LEMMA EnterKInv ==
  ASSUME IInv, KInv, LoopEnter
  PROVE  KInv'
<1>1. base \in BaseFields /\ loop \in LoopLocals /\ hist \in History
  BY Parts
<1>2. loop.pc = "out" /\ UNCHANGED <<q, ev, th, clock>>
  BY DEF LoopEnter
<1>3. loop'.pc = "top" /\ loop'.ready = loop.ready /\ loop'.running = loop.running
  BY <1>1 DEF LoopEnter, LoopLocals
<1>4. /\ base'.is_notify_pending = base.is_notify_pending
      /\ base'.notify_readable = base.notify_readable
      /\ base'.running_loop /\ base'.tv_cache = NoTimeval
  BY <1>1 DEF LoopEnter, BaseFields, clear_time_cache
<1>5. hist'.late = 0 /\ hist'.armed = hist.armed
  BY <1>1 DEF LoopEnter, History
<1>6. NotifyInv' /\ CallersInv' /\ ArmedInv' /\ BreakInv'
  BY <1>2, <1>3, <1>4, <1>5
  DEF KInv, NotifyInv, CallersInv, ArmedInv, Sound, Final, BreakInv
<1>7. SleepInv' /\ TimeInv'
  BY <1>3, <1>4 DEF SleepInv, TimeInv, NoOversleep
<1> QED
  BY <1>6, <1>7 DEF KInv

\* timeout_next is the time until the earliest timeout.
LEMMA TimeoutNext ==
  ASSUME IInv
  PROVE  /\ timeout_next = NoTimeval <=> q.timeheap = {}
         /\ base.tv_cache = NoTimeval =>
              \A e \in q.timeheap : timeout_next = 0 \/ clock + timeout_next <= ev[e].timeout
<1>1. CASE q.timeheap = {}
  BY <1>1 DEF timeout_next
<1>2. CASE q.timeheap # {}
  <2> DEFINE top == CHOOSE e \in Earliest(q.timeheap, ev) : TRUE
  <2>1. q.timeheap \in SUBSET Event /\ ev \in [Callback -> CallbackFields]
    BY NowTypes
  <2>2. top \in Earliest(q.timeheap, ev)
    BY <1>2, <2>1, EarliestExists
  <2>3. timeout_next = Max2(0, ev[top].timeout - gettime(base))
    BY <1>2 DEF timeout_next
  <2> HIDE DEF top
  <2>4. /\ top \in Event /\ ev[top].timeout \in Nat
        /\ \A e \in q.timeheap : ev[top].timeout <= ev[e].timeout /\ ev[e].timeout \in Nat
    BY <2>1, <2>2, NowTypes DEF Earliest
  <2>5. /\ gettime(base) \in Nat /\ clock \in Nat
        /\ base.tv_cache = NoTimeval => gettime(base) = clock
    BY Parts, TimeTypes DEF gettime
  <2>6. timeout_next # NoTimeval
    BY <2>3, <2>4, <2>5 DEF Max2, NoTimeval
  <2> QED
    BY <1>2, <2>3, <2>4, <2>5, <2>6 DEF Max2
<1> QED
  BY <1>1, <1>2

\* The head of the loop of event_base_loop keeps the invariants: it leaves the loop, or waits no
\* longer than until the earliest timeout, and not at all if a callback is active.
LEMMA TopKInv ==
  ASSUME IInv, KInv, LoopTop
  PROVE  KInv'
<1> DEFINE b == [base EXCEPT !.event_continue = FALSE, !.n_deferreds_queued = 0]
           tv == IF N_ACTIVE_CALLBACKS = 0 /\ "NONBLOCK" \notin loop.flags
                   THEN timeout_next ELSE 0
           empty == /\ "NO_EXIT_ON_EMPTY" \notin loop.flags
                    /\ ~event_haveevents /\ N_ACTIVE_CALLBACKS = 0
<1>1. b \in BaseFields /\ SameWake(base, b) /\ b.running_loop = base.running_loop
      /\ b.virtual_event_count = base.virtual_event_count
  BY NowTypes DEF BaseFields, SameWake
<1>2. UNCHANGED <<q, ev, th, clock, hist>> /\ loop.pc = "top"
  BY DEF LoopTop
<1>3. CASE LoopExit(b)
  <2>1. Leaves /\ loop'.pc = "out" /\ SameCallbacks
    BY <1>1, <1>2, <1>3, ExitLeaves DEF SameCallbacks
  <2> QED
    BY <1>2, <2>1, LeavesKInv
<1>4. CASE /\ ~base.event_break /\ ~empty
           /\ base' = b /\ loop' = [loop EXCEPT !.pc = "later", !.tv = tv]
  <2>1. /\ N_ACTIVE_CALLBACKS > 0 => tv = 0
        /\ tv = NoTimeval => q.timeheap = {} /\ N_ACTIVE_CALLBACKS = 0
        /\ base.tv_cache = NoTimeval =>
             \A e \in q.timeheap : tv = 0 \/ (tv # NoTimeval /\ clock + tv <= ev[e].timeout)
    <3>1. q.event_count_active \in Nat
      BY NowTypes
    <3>2. CASE tv = 0
      BY <3>1, <3>2 DEF N_ACTIVE_CALLBACKS, NoTimeval
    <3>3. CASE tv = timeout_next /\ N_ACTIVE_CALLBACKS = 0
      BY <3>1, <3>3, TimeoutNext DEF N_ACTIVE_CALLBACKS
    <3> QED
      BY <3>2, <3>3
  <2>2. "NO_EXIT_ON_EMPTY" \notin loop.flags /\ N_ACTIVE_CALLBACKS = 0 => event_haveevents
    BY <1>4
  <2> HIDE DEF b, tv, empty
  <2>3. /\ loop'.pc = "later" /\ loop'.tv = tv /\ loop'.flags = loop.flags
        /\ loop'.ready = loop.ready /\ loop'.running = loop.running
    BY <1>4, NowTypes DEF LoopLocals
  <2>4. NotifyInv' /\ CallersInv' /\ ArmedInv'
    BY <1>1, <1>2, <1>4, <2>3
    DEF KInv, NotifyInv, SameWake, CallersInv, ArmedInv, Sound, Final
  <2>5. SleepInv'
    <3>1. N_ACTIVE_CALLBACKS' = N_ACTIVE_CALLBACKS /\ (event_haveevents' <=> event_haveevents)
      BY <1>1, <1>2, <1>4 DEF N_ACTIVE_CALLBACKS, event_haveevents
    <3>2. ~base'.event_break
      BY <1>1, <1>4 DEF SameWake
    <3>3. tv = NoTimeval => MaySleep'
      BY <1>2, <2>1, <2>2, <2>3, <3>1 DEF MaySleep
    <3> QED
      BY <2>1, <2>3, <3>1, <3>2, <3>3 DEF SleepInv
  <2>6. TimeInv'
    BY <1>1, <1>2, <1>4, <2>1, <2>3 DEF KInv, TimeInv, SameWake, NoOversleep
  <2>7. BreakInv'
    BY <1>2, <1>4 DEF KInv, BreakInv
  <2> QED
    BY <2>4, <2>5, <2>6, <2>7 DEF KInv
<1> QED
  BY <1>3, <1>4 DEF LoopTop

\* event_queue_make_later_events_active keeps the invariants: no callback becomes active that was
\* not counted.
LEMMA LaterKInv ==
  ASSUME IInv, KInv, LoopMakeLaterActive
  PROVE  KInv'
<1> DEFINE c == Head(q.active_later_queue)
<1>1. /\ loop.pc = "later" /\ q.active_later_queue # << >> /\ q' = MakeLaterActive(q)
      /\ UNCHANGED <<ev, loop, th, clock, hist>>
  BY DEF LoopMakeLaterActive
<1>2. c \in Callback /\ "ACTIVE_LATER" \in q.flags[c]
  <2>1. /\ q.active_later_queue \in Seq(Callback)
        /\ Lists(q.active_later_queue, With(q, "ACTIVE_LATER"))
    BY NowTypes DEF Queues, Good, QueuesOK, LaterListed
  <2>2. c \in With(q, "ACTIVE_LATER")
    BY <1>1, <2>1, TailLists
  <2> QED
    BY <2>2 DEF With
<1>3. c # NotifyEv
  BY <1>2 DEF KInv, NotifyInv
<1>4. /\ q'.flags = [q.flags EXCEPT ![c] = (q.flags[c] \ {"ACTIVE_LATER"}) \cup {"ACTIVE"}]
      /\ q'.timeheap = q.timeheap /\ q'.event_count = q.event_count
      /\ q'.event_count_active = q.event_count_active
  BY <1>1, <1>2, NowTypes DEF MakeLaterActive, Queues
<1>5. /\ base'.virtual_event_count = base.virtual_event_count
      /\ base'.running_loop = base.running_loop
      /\ SameWake(base, base')
  BY NowTypes DEF LoopMakeLaterActive, BaseFields, SameWake
<1>6. NotifyEv \in Callback /\ q.flags \in [Callback -> SUBSET Flag]
  BY BaseAssumption, NowTypes DEF Callback
<1> HIDE DEF c
<1>7. NotifyInv' /\ CallersInv' /\ BreakInv'
  BY <1>1, <1>3, <1>4, <1>5, <1>6
  DEF KInv, NotifyInv, SameWake, CallersInv, Final, BreakInv
<1>8. SleepInv' /\ TimeInv'
  BY <1>1, <1>4, <1>5
  DEF KInv, SleepInv, TimeInv, MaySleep, N_ACTIVE_CALLBACKS, event_haveevents, SameWake, NoOversleep
<1>9. ArmedInv'
  BY <1>1, <1>2, <1>4, <1>6 DEF KInv, ArmedInv, Sound, Final, Registration
<1> QED
  BY <1>7, <1>8, <1>9 DEF KInv

\* The call of the backend keeps the invariants.
LEMMA DispatchKInv ==
  ASSUME IInv, KInv, LoopDispatch
  PROVE  KInv'
<1> DEFINE tv == IF loop.tv = NoTimeval THEN NoTimeval ELSE clock + loop.tv
           polled == { e \in With(q, "INSERTED") : Kind[e] = "io" }
<1>1. /\ loop.pc = "later" /\ base' = clear_time_cache(base)
      /\ loop' = [loop EXCEPT !.pc = "select", !.tv = tv, !.polled = polled]
      /\ UNCHANGED <<q, ev, th, clock, hist>>
  BY DEF LoopDispatch
<1>2. base \in BaseFields /\ loop \in LoopLocals /\ clock \in Nat /\ loop.tv \in Timeval
      /\ q.event_count_active \in Nat
  BY Parts, NowTypes
<1>3. /\ tv = NoTimeval <=> loop.tv = NoTimeval
      /\ loop.tv = 0 => tv # NoTimeval /\ tv <= clock
      /\ loop.tv # NoTimeval => tv = clock + loop.tv
  BY <1>2 DEF Timeval, NoTimeval
<1> HIDE DEF tv
<1>4. /\ loop'.pc = "select" /\ loop'.tv = tv /\ loop'.flags = loop.flags
      /\ loop'.polled = polled
      /\ loop'.ready = loop.ready /\ loop'.running = loop.running
  BY <1>1, <1>2 DEF LoopLocals
<1>5. SameWake(base, base') /\ base'.running_loop = base.running_loop
      /\ base'.virtual_event_count = base.virtual_event_count
      /\ base'.tv_cache = NoTimeval
  BY <1>1, <1>2 DEF clear_time_cache, BaseFields, SameWake
<1>6. NotifyInv' /\ CallersInv' /\ BreakInv' /\ ArmedInv'
  BY <1>1, <1>4, <1>5
  DEF KInv, NotifyInv, SameWake, CallersInv, Sound, Final, ArmedInv, BreakInv
<1>7. SleepInv'
  <2>1. N_ACTIVE_CALLBACKS' = N_ACTIVE_CALLBACKS /\ (MaySleep' <=> MaySleep)
    BY <1>1, <1>4, <1>5 DEF N_ACTIVE_CALLBACKS, MaySleep, event_haveevents
  <2>2. NewWork' => N_ACTIVE_CALLBACKS > 0
    <3>1. ~base'.event_break
      BY <1>1, <1>5 DEF KInv, SleepInv, SameWake
    <3>2. \A e \in With(q, "INSERTED")' : Kind[e] = "io" => e \in loop'.polled
      BY <1>1, <1>4 DEF With
    <3> QED
      BY <2>1, <3>1, <3>2 DEF NewWork
  <2>3. N_ACTIVE_CALLBACKS > 0 => Expired'
    BY <1>1, <1>3, <1>4 DEF KInv, SleepInv, Expired
  <2>4. loop'.tv = NoTimeval => MaySleep'
    BY <1>1, <1>3, <1>4, <2>1 DEF KInv, SleepInv
  <2> QED
    BY <1>4, <2>2, <2>3, <2>4 DEF SleepInv
<1>8. TimeInv'
  <2> SUFFICES ASSUME NoCacheTime
               PROVE  NoOversleep'
    BY <1>4, <1>5 DEF TimeInv
  <2>1. ASSUME NEW e \in q.timeheap
        PROVE  Expired' \/ (loop'.tv # NoTimeval /\ loop'.tv <= ev[e].timeout)
    BY <1>1, <1>3, <1>4 DEF KInv, TimeInv, Expired
  <2> QED
    BY <1>1, <2>1 DEF NoOversleep
<1> QED
  BY <1>6, <1>7, <1>8 DEF KInv

\* The return of the backend keeps the invariants: th_notify is ready only if its byte is there.
LEMMA SelectKInv ==
  ASSUME IInv, KInv, NEW ready \in SUBSET (Event \ {NotifyEv}), SelectReturn(ready)
  PROVE  KInv'
<1>1. loop.pc = "select" /\ UNCHANGED <<q, ev, base, th, clock, hist>>
  BY DEF SelectReturn
<1>2. /\ loop'.pc = "selected" /\ loop'.ready = ready \cup NotifyReady
      /\ loop'.running = loop.running
  BY NowTypes DEF SelectReturn, LoopLocals
<1>3. NotifyEv \in NotifyReady => base.notify_readable
  BY DEF NotifyReady
<1>4. NotifyInv' /\ CallersInv' /\ BreakInv' /\ ArmedInv'
  BY <1>1, <1>2, <1>3 DEF KInv, NotifyInv, CallersInv, Sound, Final, ArmedInv, BreakInv
<1>5. SleepInv' /\ TimeInv'
  BY <1>1, <1>2 DEF KInv, SleepInv, TimeInv, NoOversleep
<1> QED
  BY <1>4, <1>5 DEF KInv

\* A step at the same place of the loop that changes the queues of callback c only, leaves it
\* sound, and does not notify anybody.
LEMMA ActiveKInv ==
  ASSUME IInv, KInv, NEW c \in Callback,
         loop.pc \in {"activate", "timeouts"}, loop'.pc = loop.pc, loop'.running = loop.running,
         loop'.ready \subseteq loop.ready,
         base'.running_loop = base.running_loop, SameWake(base, base'),
         UNCHANGED <<th, hist>>,
         About(c),
         c = NotifyEv => /\ q'.flags[c] \subseteq q.flags[c] \cup {"ACTIVE"}
                         /\ base.notify_readable
                         /\ ev'[c].io_timeout = ev[c].io_timeout
  PROVE  KInv'
<1> USE DEF KInv
<1>1. \A d \in Callback \ {c} : q'.flags[d] = q.flags[d] /\ ev'[d] = ev[d]
  BY DEF About
<1>2. NotifyEv \in Callback
  BY BaseAssumption DEF Callback
<1>3. /\ q'.flags[NotifyEv] \subseteq q.flags[NotifyEv] \cup {"ACTIVE"}
      /\ q'.flags[NotifyEv] = q.flags[NotifyEv] \/ base.notify_readable
      /\ ev'[NotifyEv].io_timeout = ev[NotifyEv].io_timeout
  BY <1>1, <1>2
<1>4. NotifyInv'
  <2>1. loop'.running = NoCallback /\ NotifyEv # NoCallback
    BY <1>2, BaseAssumption DEF NotifyInv
  <2>2. loop'.ready # {} => loop.ready # {}
    OBVIOUS
  <2> QED
    BY <1>3, <2>1, <2>2 DEF NotifyInv, SameWake
<1>5. CallersInv'
  <2> SUFFICES ASSUME NEW t \in Thread, th[t].pc # "idle", th[t].op = "finalize"
               PROVE  Final(ev', th[t].ev)
    BY DEF CallersInv, Final
  <2>1. Final(ev, th[t].ev) /\ th[t].ev \in Callback
    BY UserEvents DEF CallersInv
  <2> QED
    BY <1>1, <2>1 DEF About, Final
<1>6. SleepInv' /\ TimeInv' /\ BreakInv'
  BY DEF SleepInv, TimeInv, NoOversleep, BreakInv, SameWake
<1>7. ArmedInv'
  <2> SUFFICES ASSUME NEW d \in Callback \ {NotifyEv}
               PROVE  Sound(q', ev', hist', d)
    BY DEF ArmedInv, Sound, Final
  <2>1. Sound(q, ev, hist, d)
    BY DEF ArmedInv
  <2>2. CASE d = c
    BY <2>1, <2>2 DEF About
  <2>3. CASE d # c
    BY <1>1, <2>1, <2>3 DEF Sound, Final
  <2> QED
    BY <2>2, <2>3
<1> QED
  BY <1>4, <1>5, <1>6, <1>7

\* evmap_io_active_ keeps the invariants.
LEMMA ActivateKInv ==
  ASSUME IInv, KInv, NEW e \in Event, LoopActivate(e)
  PROVE  KInv'
<1>1. /\ e \in Callback /\ e \notin Deferred /\ Good(q) /\ q.flags \in [Callback -> SUBSET Flag]
      /\ base \in BaseFields
  BY UserEvents, NowTypes
<1>2. /\ loop.pc = "activate" /\ e \in loop.ready /\ UNCHANGED <<th, hist>>
      /\ \/ /\ "INSERTED" \in q.flags[e] /\ "FINALIZING" \notin q.flags[e]
            /\ ev' = ActiveResult(q, e, {"EV_READ"})
            /\ q' = event_callback_activate_nolock_(q, e)
            /\ base' \in {ActiveContinue(base, e), base}
         \/ UNCHANGED <<q, ev, base>>
  BY DEF LoopActivate
<1>3. loop'.pc = loop.pc /\ loop'.running = loop.running /\ loop'.ready \subseteq loop.ready
  BY NowTypes DEF LoopActivate, LoopLocals
<1>4. SameWake(base, base') /\ base'.running_loop = base.running_loop
  BY <1>1, <1>2 DEF ActiveContinue, BaseFields, SameWake
<1>5. Keeps(ev', e) /\ ev'[e].io_timeout = ev[e].io_timeout
  <2>1. {"EV_READ"} \in SUBSET Result /\ NoTimeval \in Timeval
    BY DEF Result, Timeval
  <2>2. Keeps(ActiveResult(q, e, {"EV_READ"}), e)
    BY <1>1, <2>1, FieldsEffect
  <2>3. ActiveResult(q, e, {"EV_READ"})[e].io_timeout = ev[e].io_timeout
    BY <1>1, NowTypes DEF ActiveResult, CallbackFields
  <2> QED
    BY <1>2, <2>2, <2>3, KeepsSame
<1>6. CASE UNCHANGED <<q, ev, base>>
  <2>1. About(e)
    BY <1>2, <1>6 DEF About, Sound, Final
  <2>2. e = NotifyEv => base.notify_readable
    BY <1>2 DEF KInv, NotifyInv
  <2> QED
    BY <1>1, <1>2, <1>3, <1>4, <1>6, <2>1, <2>2, ActiveKInv
<1>7. CASE "INSERTED" \in q.flags[e] /\ q' = event_callback_activate_nolock_(q, e)
  <2> DEFINE F == (q.flags[e] \ {"ACTIVE_LATER"}) \cup {"ACTIVE"}
  <2>1. q'.flags = [q.flags EXCEPT ![e] = F]
    BY <1>1, <1>7, ActivateEffect
  <2>2. /\ q.flags[e] \cap Registration # {}
        /\ F \subseteq q.flags[e] \cup {"ACTIVE"}
        /\ "FINALIZING" \in F => "FINALIZING" \in q.flags[e]
    BY <1>7 DEF Registration
  <2> HIDE DEF F
  <2>3. About(e)
    BY <1>1, <1>2, <1>5, <2>1, <2>2, AboutStep DEF Keeps
  <2>4. e = NotifyEv => base.notify_readable
    BY <1>2 DEF KInv, NotifyInv
  <2>5. q'.flags[e] \subseteq q.flags[e] \cup {"ACTIVE"}
    BY <1>1, <2>1, <2>2
  <2> QED
    BY <1>1, <1>2, <1>3, <1>4, <1>5, <2>3, <2>4, <2>5, ActiveKInv
<1> QED
  BY <1>2, <1>6, <1>7

\* timeout_process keeps the invariants.
LEMMA TimeoutKInv ==
  ASSUME IInv, KInv, NEW e \in Event, LoopTimeout(e)
  PROVE  KInv'
<1> DEFINE s == event_del_nolock_(q, e)
           v == ActiveResult(s, e, {"EV_TIMEOUT"})
<1>1. /\ e \in Callback /\ e \notin Deferred /\ Good(q) /\ q.flags \in [Callback -> SUBSET Flag]
      /\ base \in BaseFields
  BY UserEvents, NowTypes
<1>2. /\ loop.pc = "timeouts" /\ e \in q.timeheap /\ UNCHANGED <<th, hist>>
      /\ q' = s \/ q' = event_callback_activate_nolock_(s, e)
      /\ ev' = ActiveCalls(v, e, 1)
      /\ base' = ActiveContinue(base, e)
      /\ loop' \in AbortLoop(e) \cup {loop}
  BY DEF LoopTimeout, Earliest
<1>3. "TIMEOUT" \in q.flags[e]
  BY <1>1, <1>2, GoodFields DEF With
<1>4. e # NotifyEv
  BY <1>3 DEF KInv, NotifyInv
<1>5. Keeps(ev', e)
  <2>1. {"EV_TIMEOUT"} \in SUBSET Result /\ NoTimeval \in Timeval
    BY DEF Result, Timeval
  <2> QED
    BY <1>1, <1>2, <2>1, FieldsEffect
<1>6. /\ Good(s) /\ s.flags = [q.flags EXCEPT ![e] = q.flags[e] \ Registration]
  BY <1>1, DelGood, DelEffect DEF Lowers
<1> HIDE DEF s, v
<1>7. /\ q'.flags = [q.flags EXCEPT ![e] = q'.flags[e]]
      /\ "FINALIZING" \in q'.flags[e] => "FINALIZING" \in q.flags[e]
  <2>1. CASE q' = s
    BY <1>1, <1>6, <2>1
  <2>2. CASE q' = event_callback_activate_nolock_(s, e)
    <3>1. q'.flags = [s.flags EXCEPT ![e] = (s.flags[e] \ {"ACTIVE_LATER"}) \cup {"ACTIVE"}]
      BY <1>1, <1>6, <2>2, ActivateEffect
    <3> DEFINE F == (s.flags[e] \ {"ACTIVE_LATER"}) \cup {"ACTIVE"}
    <3>2. "FINALIZING" \in F => "FINALIZING" \in q.flags[e]
      BY <1>1, <1>6
    <3>3. q'.flags = [s.flags EXCEPT ![e] = F]
      BY <3>1
    <3> HIDE DEF F
    <3>4. q'.flags = [q.flags EXCEPT ![e] = F]
      BY <1>1, <1>6, <3>3
    <3> QED
      BY <1>1, <3>2, <3>4
  <2> QED
    BY <1>2, <2>1, <2>2
<1>8. q.flags[e] \cap Registration # {}
  BY <1>3 DEF Registration
<1>9. About(e)
  BY <1>1, <1>2, <1>5, <1>7, <1>8, AboutStep DEF Keeps
<1>10. loop'.pc = loop.pc /\ loop'.running = loop.running /\ loop'.ready = loop.ready
  BY <1>2, LoopSame, NowTypes DEF LoopLocals
<1>11. SameWake(base, base') /\ base'.running_loop = base.running_loop
  BY <1>1, <1>2 DEF ActiveContinue, BaseFields, SameWake
<1> QED
  BY <1>1, <1>2, <1>4, <1>9, <1>10, <1>11, ActiveKInv

\* What the loop leaves of the flags of the callback it takes: an event that is not persistent,
\* and a deferred callback, are registered nowhere.
LEMMA TakenEffect ==
  ASSUME IInv, KInv, NEW c \in Callback, "ACTIVE" \in q.flags[c]
  PROVE  /\ Good(Taken(c))
         /\ \E F : /\ Taken(c).flags = [q.flags EXCEPT ![c] = F]
                   /\ F \subseteq q.flags[c] \ {"ACTIVE"}
                   /\ c \notin Persist /\ "FINALIZING" \notin q.flags[c] /\ c # NotifyEv =>
                        F \cap Registration = {}
<1>1. Good(q) /\ Good(Taken(c)) /\ q.flags \in [Callback -> SUBSET Flag]
  BY NowTypes, TakenGood
<1>2. CASE c \in Event /\ c \notin Persist /\ "FINALIZING" \notin q.flags[c]
  <2> DEFINE F == q.flags[c] \ Registration
  <2>1. Taken(c).flags = [q.flags EXCEPT ![c] = F]
    BY <1>1, <1>2, DelEffect DEF Taken, Lowers
  <2>2. F \cap Registration = {} /\ F \subseteq q.flags[c] \ {"ACTIVE"}
    BY DEF Registration
  <2> QED
    BY <1>1, <2>1, <2>2
<1>3. CASE ~(c \in Event /\ c \notin Persist /\ "FINALIZING" \notin q.flags[c])
  <2> DEFINE F == q.flags[c] \ {"ACTIVE"}
  <2>1. Taken(c).flags = [q.flags EXCEPT ![c] = F]
    <3>1. Taken(c) = event_queue_remove_active(q, c)
      BY <1>3 DEF Taken
    <3>2. Lowers(q, event_queue_remove_active(q, c), c, F)
      BY <1>1, RemoveEffect
    <3> QED
      BY <3>1, <3>2 DEF Lowers
  <2>2. c \notin Persist /\ "FINALIZING" \notin q.flags[c] /\ c # NotifyEv =>
          F \cap Registration = {}
    <3> SUFFICES ASSUME c \notin Persist, "FINALIZING" \notin q.flags[c], c # NotifyEv
                 PROVE  F \cap Registration = {}
      OBVIOUS
    <3>1. c \in Deferred
      BY <1>3 DEF Callback
    <3>2. q.flags[c] \cap {"INSERTED", "TIMEOUT"} = {}
      BY <3>1 DEF KInv, ArmedInv, Sound
    <3>3. "ACTIVE_LATER" \notin q.flags[c]
      BY <1>1, GoodFields
    <3> QED
      BY <3>2, <3>3 DEF Registration
  <2> HIDE DEF F
  <2>3. F \subseteq q.flags[c] \ {"ACTIVE"}
    BY DEF F
  <2> QED
    BY <1>1, <2>1, <2>2, <2>3
<1> QED
  BY <1>2, <1>3

\* The callback that the loop takes is sound after it: it is registered no longer, or it stays
\* armed, or it is about to be finalized.  event_persist_closure, which may register it again,
\* does so only of a persistent event.
LEMMA RunSound ==
  ASSUME IInv, KInv, NEW c \in Callback, "ACTIVE" \in q.flags[c], NEW tv \in Timeval,
         c # NotifyEv,
         q' = IF Rescheduled(c) THEN event_add_nolock_(Taken(c), c, tv) ELSE Taken(c),
         \A d \in Callback : ev'[d].closure = ev[d].closure,
         hist'.armed = IF (c \in Event /\ c \notin Persist) \/ c \in Deferred
                         THEN [hist.armed EXCEPT ![c] = FALSE] ELSE hist.armed
  PROVE  /\ Sound(q', ev', hist', c)
         /\ \A d \in Callback \ {c} : q'.flags[d] = q.flags[d] /\ hist'.armed[d] = hist.armed[d]
<1>1. /\ Sound(q, ev, hist, c)
      /\ q.flags \in [Callback -> SUBSET Flag] /\ hist.armed \in [Callback -> BOOLEAN]
  BY NowTypes, Parts DEF KInv, ArmedInv, History
<1>2. PICK F : /\ Taken(c).flags = [q.flags EXCEPT ![c] = F]
               /\ F \subseteq q.flags[c] \ {"ACTIVE"}
               /\ c \notin Persist /\ "FINALIZING" \notin q.flags[c] => F \cap Registration = {}
  BY TakenEffect
<1>3. Persist \subseteq Event /\ (c \in Deferred => c \notin Event)
  BY BaseAssumption, QueuesAssumption
<1>4. q.flags[c] \cap Registration # {}
  BY DEF Registration
<1>5. CASE Rescheduled(c)
  <2>1. c \in Event /\ c \in Persist /\ ev[c].closure = "persist"
    BY <1>1, <1>5 DEF Rescheduled, Sound
  <2>2. ~Final(ev, c)
    BY <2>1 DEF Final
  <2>3. hist.armed[c] /\ hist'.armed = hist.armed /\ "FINALIZING" \notin q.flags[c]
    BY <1>1, <1>3, <1>4, <2>1, <2>2 DEF Sound
  <2>4. Good(Taken(c))
    BY TakenEffect
  <2>5. /\ Lowers(Taken(c), q', c, q'.flags[c])
        /\ q'.flags[c] \subseteq Taken(c).flags[c] \cup {"INSERTED", "TIMEOUT"}
    BY <1>5, <2>1, <2>4, AddEffect
  <2>6. q'.flags = [q.flags EXCEPT ![c] = q'.flags[c]]
    BY <1>1, <1>2, <2>5 DEF Lowers
  <2>7. "FINALIZING" \notin q'.flags[c]
    BY <1>1, <1>2, <2>3, <2>5
  <2>8. Sound(q', ev', hist', c)
    BY <1>3, <2>1, <2>3, <2>7 DEF Sound
  <2> QED
    BY <1>1, <2>3, <2>6, <2>8
<1>6. CASE ~Rescheduled(c)
  <2>1. q'.flags = [q.flags EXCEPT ![c] = F]
    BY <1>2, <1>6
  <2>2. q'.flags[c] = F /\ \A d \in Callback \ {c} : q'.flags[d] = q.flags[d]
    BY <1>1, <2>1
  <2>3. \A d \in Callback \ {c} : hist'.armed[d] = hist.armed[d]
    BY <1>1
  <2>4. "FINALIZING" \in F => Final(ev', c)
    BY <1>1, <1>2 DEF Sound, Final
  <2>5. F \cap Registration # {} => hist'.armed[c] \/ Final(ev', c)
    <3>1. CASE c \in Persist
      <4>1. hist'.armed = hist.armed
        BY <1>3, <3>1
      <4> QED
        BY <1>1, <1>4, <4>1 DEF Sound, Final
    <3>2. CASE c \notin Persist /\ "FINALIZING" \notin q.flags[c]
      BY <1>2, <3>2
    <3>3. CASE "FINALIZING" \in q.flags[c]
      BY <1>1, <3>3 DEF Sound, Final
    <3> QED
      BY <3>1, <3>2, <3>3
  <2>6. Sound(q', ev', hist', c)
    BY <1>1, <1>2, <2>2, <2>4, <2>5 DEF Sound
  <2> QED
    BY <2>2, <2>3, <2>6
<1> QED
  BY <1>5, <1>6

\* What LoopRun does with the callback it takes: c is at the head of a queue, the fields of the
\* others stay, and its closure too.
Runs(c) ==
  LET now == gettime(base)
  IN  /\ c \in Callback /\ "ACTIVE" \in q.flags[c]
      /\ gettime(base) \in Nat /\ RunAt(c, now) \in Timeval
      /\ q' = IF Rescheduled(c) THEN event_add_nolock_(Taken(c), c, RunAt(c, now)) ELSE Taken(c)
      /\ \A d \in Callback \ {c} : ev'[d] = ev[d]
      /\ ev'[c].closure = ev[c].closure
      /\ ~Rescheduled(c) => ev'[c].io_timeout = ev[c].io_timeout
      /\ SameWake(base, base') /\ base'.running_loop = base.running_loop
      /\ loop'.pc \in {"return", "count", "callback"} /\ loop'.running = c
      /\ loop'.ready = loop.ready
      /\ loop'.finalizer <=> Final(ev, c)
      /\ hist' = Started(c)
      /\ UNCHANGED th

LEMMA RunEffect ==
  ASSUME IInv, LoopRun
  PROVE  loop.pc = "queue" /\ \E c \in Callback : Runs(c)
<1> DEFINE i == base.event_running_priority
           c == Head(q.activequeues[i])
           signal == ev[c].closure = "signal"
           finalizer == ev[c].closure \in {"finalize", "cb_finalize"}
           k == IF signal THEN ev[c].ncalls ELSE 0
           now == gettime(base)
           count == Min2(loop.count + Counted(c), MaxDispatchCallbacks)
           next == IF ~signal THEN "callback" ELSE IF k > 0 THEN "count" ELSE "return"
<1>1. loop.pc = "queue" /\ i \in Priorities /\ q.activequeues[i] # << >>
  BY DEF LoopRun, IInv, Located
<1>2. c \in Callback /\ "ACTIVE" \in q.flags[c]
  BY <1>1, HeadActive
<1>3. /\ q' = IF Rescheduled(c) THEN event_add_nolock_(Taken(c), c, RunAt(c, now))
              ELSE Taken(c)
      /\ ev' = IF Rescheduled(c) THEN AddFields(c, RunAt(c, now), TRUE, now)
               ELSE IF k > 0 THEN [ev EXCEPT ![c].pncalls = TRUE] ELSE ev
      /\ base' = [base EXCEPT !.current_event = IF finalizer THEN NoCallback ELSE c,
                              !.current_event_waiters = 0]
      /\ loop' = [loop EXCEPT !.pc = next, !.count = count, !.running = c,
                              !.finalizer = finalizer, !.ncalls = k]
      /\ hist' = Started(c)
      /\ UNCHANGED th
  BY DEF LoopRun
<1> HIDE DEF i, c
<1>4. ev \in [Callback -> CallbackFields] /\ ev[c] \in CallbackFields /\ now \in Nat
      /\ base \in BaseFields /\ loop \in LoopLocals
  BY <1>2, Parts, TimeTypes
<1>5. RunAt(c, now) \in Timeval
  <2>1. ev[c].timeout \in Nat /\ ev[c].io_timeout \in Nat
    BY <1>4 DEF CallbackFields
  <2>2. now \in Nat
    BY <1>4
  <2> HIDE DEF now
  <2> QED
    BY <2>1, <2>2 DEF RunAt, Timeval
<1>6. /\ \A d \in Callback \ {c} : ev'[d] = ev[d]
      /\ ev'[c].closure = ev[c].closure
      /\ ~Rescheduled(c) => ev'[c].io_timeout = ev[c].io_timeout
  <2>1. CASE Rescheduled(c)
    <3>1. Keeps(ev', c)
      BY <1>2, <1>3, <1>4, <1>5, <2>1, FieldsEffect
    <3> QED
      BY <2>1, <3>1 DEF Keeps
  <2>2. CASE ~Rescheduled(c) /\ k > 0
    BY <1>2, <1>3, <1>4, <2>2 DEF CallbackFields
  <2>3. CASE ~Rescheduled(c) /\ ~(k > 0)
    BY <1>3, <2>3
  <2> QED
    BY <2>1, <2>2, <2>3
<1>7. SameWake(base, base') /\ base'.running_loop = base.running_loop
  BY <1>3, <1>4 DEF BaseFields, SameWake
<1>8. /\ loop'.pc \in {"return", "count", "callback"}
      /\ loop'.running = c /\ loop'.ready = loop.ready
      /\ loop'.finalizer = finalizer
  <2> HIDE DEF count, k, finalizer
  <2> QED
    BY <1>3, <1>4 DEF LoopLocals
<1>9. Final(ev, c) <=> finalizer
  BY DEF Final
<1> QED
  BY <1>1, <1>2, <1>3, <1>4, <1>5, <1>6, <1>7, <1>8, <1>9 DEF Runs

\* What the history tells of a callback that starts: an event that is not persistent, and a
\* deferred callback, are not armed any longer.
LEMMA StartedEffect ==
  ASSUME IInv, NEW c \in Callback
  PROVE  /\ Started(c).late = IF base.event_break THEN Min2(2, hist.late + 1) ELSE 0
         /\ Started(c).armed = IF (c \in Event /\ c \notin Persist) \/ c \in Deferred
                                 THEN [hist.armed EXCEPT ![c] = FALSE] ELSE hist.armed
  BY Parts DEF Started, History

\* The run of a callback keeps the invariants.  It is the first after event_base_loopbreak, and
\* th_notify runs only if its byte is there.
LEMMA RunKInv ==
  ASSUME IInv, KInv, LoopRun
  PROVE  KInv'
<1>1. loop.pc = "queue"
  BY RunEffect
<1>2. PICK c \in Callback : Runs(c)
  BY RunEffect
<1>3. loop.ready = {} /\ loop.running = NoCallback /\ base.running_loop /\ hist.late = 0
  BY <1>1, IdlePlace DEF KInv, BreakInv
<1>4. q.flags \in [Callback -> SUBSET Flag] /\ ev \in [Callback -> CallbackFields]
  BY NowTypes
<1>5. /\ hist'.late = IF base.event_break THEN Min2(2, hist.late + 1) ELSE 0
      /\ hist'.armed = IF (c \in Event /\ c \notin Persist) \/ c \in Deferred
                         THEN [hist.armed EXCEPT ![c] = FALSE] ELSE hist.armed
  BY <1>2, StartedEffect DEF Runs
<1>6. BreakInv'
  BY <1>2, <1>3, <1>5 DEF BreakInv, Runs, SameWake, Min2
<1>7. \A d \in Callback : ev'[d].closure = ev[d].closure
  BY <1>2 DEF Runs
<1>8. CallersInv'
  <2>1. \A t \in Thread : th[t].pc # "idle" => th[t].ev \in Callback
    BY UserEvents DEF KInv, CallersInv
  <2> QED
    BY <1>2, <1>7, <2>1 DEF KInv, CallersInv, Final, Runs
<1>9. SleepInv' /\ TimeInv'
  BY <1>2 DEF KInv, SleepInv, TimeInv, NoOversleep, Runs, SameWake
<1>10. NotifyEv \in Callback /\ NotifyEv \in Event /\ NotifyEv \notin Deferred
       /\ NotifyEv \in Persist
  BY BaseAssumption, QueuesAssumption DEF Callback
<1>11. /\ base'.is_notify_pending = base.is_notify_pending
       /\ base'.notify_readable = base.notify_readable
       /\ base'.running_loop
       /\ loop'.pc \in {"return", "count", "callback"} /\ loop'.running = c /\ loop'.ready = {}
  BY <1>2, <1>3 DEF Runs, SameWake
<1>12. CASE c = NotifyEv
  <2>1. ~Rescheduled(c)
    BY <1>12 DEF KInv, NotifyInv, Rescheduled
  <2>2. q' = event_queue_remove_active(q, c) /\ ev'[NotifyEv].io_timeout = 0
    BY <1>2, <1>10, <1>12, <2>1 DEF Runs, Taken, KInv, NotifyInv
  <2>3. Lowers(q, event_queue_remove_active(q, c), c, q.flags[c] \ {"ACTIVE"})
    BY NowTypes, RemoveEffect
  <2>4. q'.flags = [q.flags EXCEPT ![c] = q.flags[c] \ {"ACTIVE"}]
    BY <2>2, <2>3 DEF Lowers
  <2>5. q'.flags[c] = q.flags[c] \ {"ACTIVE"}
        /\ \A d \in Callback \ {c} : q'.flags[d] = q.flags[d]
    BY <1>4, <2>4
  <2>6. base.notify_readable
    BY <1>2, <1>12 DEF KInv, NotifyInv, Runs
  <2>7. NotifyInv'
    BY <1>1, <1>10, <1>11, <1>12, <2>2, <2>5, <2>6 DEF KInv, NotifyInv
  <2>8. ArmedInv'
    BY <1>5, <1>7, <1>10, <1>12, <2>5 DEF KInv, ArmedInv, Sound, Final
  <2> QED
    BY <1>6, <1>8, <1>9, <2>7, <2>8 DEF KInv
<1>13. CASE c # NotifyEv
  <2>1. /\ Sound(q', ev', hist', c)
        /\ \A d \in Callback \ {c} : q'.flags[d] = q.flags[d] /\ hist'.armed[d] = hist.armed[d]
    BY <1>2, <1>5, <1>7, <1>13, RunSound DEF Runs
  <2>2. ev'[NotifyEv] = ev[NotifyEv] /\ q'.flags[NotifyEv] = q.flags[NotifyEv]
    BY <1>2, <1>10, <1>13, <2>1 DEF Runs
  <2>3. NotifyInv'
    BY <1>1, <1>3, <1>10, <1>11, <1>13, <2>2 DEF KInv, NotifyInv
  <2>4. ArmedInv'
    BY <1>7, <2>1 DEF KInv, ArmedInv, Sound, Final
  <2> QED
    BY <1>6, <1>8, <1>9, <2>3, <2>4 DEF KInv
<1> QED
  BY <1>12, <1>13

\* What event_signal_closure does to the calls of an event changes no closure.
LEMMA SignalSteps ==
  ASSUME IInv, SignalCount \/ SignalAgain
  PROVE  /\ loop.pc \in {"count", "callback"} /\ loop'.pc \in {"count", "callback", "return"}
         /\ loop'.running = loop.running /\ loop'.ready = loop.ready
         /\ loop'.count = loop.count /\ loop'.finalizer = loop.finalizer
         /\ UNCHANGED <<q, base, th, clock, hist>>
         /\ ev' = ev \/ ev' = SignalCall(loop.running, loop.ncalls)
         /\ \A c \in Callback :
              ev'[c].closure = ev[c].closure /\ ev'[c].io_timeout = ev[c].io_timeout
<1>1. loop \in LoopLocals /\ ev \in [Callback -> CallbackFields]
  BY NowTypes
<1>2. /\ loop.pc \in {"count", "callback"}
      /\ UNCHANGED <<q, base, th, clock, hist>>
      /\ ev' = ev \/ ev' = SignalCall(loop.running, loop.ncalls)
  BY DEF SignalCount, SignalAgain
<1>3. /\ loop'.pc \in {"count", "callback", "return"}
      /\ loop'.running = loop.running /\ loop'.ready = loop.ready
      /\ loop'.count = loop.count /\ loop'.finalizer = loop.finalizer
  BY <1>1 DEF SignalCount, SignalAgain, LoopLocals
<1>4. \A c \in Callback : ev'[c].closure = ev[c].closure /\ ev'[c].io_timeout = ev[c].io_timeout
  BY <1>1, <1>2 DEF SignalCall, CallbackFields
<1> QED
  BY <1>2, <1>3, <1>4

\* The calls of a signal callback keep the invariants.
LEMMA SignalKInv ==
  ASSUME IInv, KInv, SignalCount \/ SignalAgain
  PROVE  KInv'
<1>1. /\ loop.pc \in {"count", "callback"} /\ loop'.pc \in {"count", "callback", "return"}
      /\ loop'.running = loop.running /\ loop'.ready = loop.ready
      /\ UNCHANGED <<q, base, th, clock, hist>>
      /\ \A c \in Callback :
           ev'[c].closure = ev[c].closure /\ ev'[c].io_timeout = ev[c].io_timeout
  BY SignalSteps
<1>2. NotifyEv \in Callback
  BY BaseAssumption DEF Callback
<1>3. CallersInv'
  <2>1. \A t \in Thread : th[t].pc # "idle" => th[t].ev \in Callback
    BY UserEvents DEF KInv, CallersInv
  <2> QED
    BY <1>1, <2>1 DEF KInv, CallersInv, Final
<1>4. NotifyInv' /\ BreakInv' /\ ArmedInv'
  BY <1>1, <1>2 DEF KInv, NotifyInv, BreakInv, ArmedInv, Sound, Final
<1>5. SleepInv' /\ TimeInv'
  BY <1>1 DEF KInv, SleepInv, TimeInv, NoOversleep
<1> QED
  BY <1>3, <1>4, <1>5 DEF KInv

\* evthread_notify_drain_default reads the byte, and only then is another one sent.
LEMMA DrainKInv ==
  ASSUME IInv, KInv, NotifyDrain \/ NotifyDrained
  PROVE  KInv'
<1>1. UNCHANGED <<q, ev, th, clock, hist>>
  BY DEF NotifyDrain, NotifyDrained
<1>2. loop'.running = loop.running /\ loop'.ready = loop.ready /\ base \in BaseFields
      /\ loop'.pc = IF NotifyDrain THEN "drain" ELSE "return"
  BY NowTypes DEF NotifyDrain, NotifyDrained, LoopLocals
<1>3. /\ base'.running_loop = base.running_loop /\ base'.event_break = base.event_break
      /\ base'.tv_cache = base.tv_cache
  BY <1>2 DEF NotifyDrain, NotifyDrained, BaseFields
<1>4. CASE NotifyDrain
  <2>1. /\ loop.pc = "callback" /\ loop.running = NotifyEv
        /\ ~base'.notify_readable /\ base'.is_notify_pending = base.is_notify_pending
    BY <1>2, <1>4 DEF NotifyDrain, BaseFields
  <2>2. NotifyInv' /\ BreakInv'
    BY <1>1, <1>2, <1>3, <1>4, <2>1 DEF KInv, NotifyInv, BreakInv
  <2>3. CallersInv' /\ ArmedInv' /\ SleepInv' /\ TimeInv'
    BY <1>1, <1>2, <1>3, <1>4
    DEF KInv, CallersInv, Final, ArmedInv, Sound, SleepInv, TimeInv, NoOversleep
  <2> QED
    BY <2>2, <2>3 DEF KInv
<1>5. CASE ~NotifyDrain /\ NotifyDrained
  <2>1. /\ loop.pc = "drain" /\ ~base'.is_notify_pending
        /\ base'.notify_readable = base.notify_readable
    BY <1>2, <1>5 DEF NotifyDrained, BaseFields
  <2>2. NotifyInv' /\ BreakInv'
    BY <1>1, <1>2, <1>3, <1>5, <2>1 DEF KInv, NotifyInv, BreakInv
  <2>3. CallersInv' /\ ArmedInv' /\ SleepInv' /\ TimeInv'
    BY <1>1, <1>2, <1>3, <1>5
    DEF KInv, CallersInv, Final, ArmedInv, Sound, SleepInv, TimeInv, NoOversleep
  <2> QED
    BY <2>2, <2>3 DEF KInv
<1> QED
  BY <1>4, <1>5

\* The end of a callback keeps the invariants.
LEMMA ReturnKInv ==
  ASSUME IInv, KInv, LoopReturn
  PROVE  KInv'
<1>1. base \in BaseFields /\ loop \in LoopLocals /\ ev \in [Callback -> CallbackFields]
      /\ th \in [Thread -> ThreadLocals] /\ hist \in History
  BY NowTypes, Parts
<1>2. loop.pc \in {"return", "callback"} /\ q' = q
  BY DEF LoopReturn
<1>3. loop'.pc = "after" /\ loop'.running = NoCallback /\ loop'.ready = loop.ready
  BY <1>1 DEF LoopReturn, LoopLocals
<1>4. SameWake(base, base') /\ base'.running_loop = base.running_loop
  BY <1>1 DEF LoopReturn, BaseFields, SameWake
<1>5. \A c \in Callback : ev'[c].closure = ev[c].closure /\ ev'[c].io_timeout = ev[c].io_timeout
  BY <1>1 DEF LoopReturn, CallbackFields
<1>6. hist'.armed = hist.armed /\ hist'.late = hist.late
  BY <1>1 DEF LoopReturn, History
<1>7. \A t \in Thread :
        \/ th'[t] = th[t]
        \/ th[t].pc # "idle" /\ th'[t].ev = th[t].ev /\ th'[t].op = th[t].op
  <2>1. th' = th \/ th' = Woken(CondWaiters)
    BY DEF LoopReturn, EVTHREAD_COND_BROADCAST
  <2> QED
    BY <1>1, <2>1 DEF Woken, CondWaiters, ThreadLocals
<1>8. loop.ready = {} /\ base.running_loop
  BY <1>2 DEF KInv, NotifyInv
<1>9. Leaves /\ SameCallbacks
  BY <1>2, <1>3, <1>4, <1>5, <1>6, <1>8 DEF Leaves, SameCallbacks
<1> QED
  BY <1>2, <1>3, <1>6, <1>7, <1>9, LeavesKInv

\* Every step of the loop keeps the invariants.
LEMMA LoopKInv ==
  ASSUME IInv, IInv', KInv, LoopStep \/ FdsReady \/ SelectFails \/ LoopEnter
  PROVE  KInv'
<1>1. ASSUME FdsReady
      PROVE  KInv'
  <2>1. loop.polled \in SUBSET Event
    BY NowTypes DEF LoopLocals
  <2> QED
    BY <1>1, <2>1, SelectKInv DEF FdsReady
<1>2. ASSUME SelectReturn({})
      PROVE  KInv'
  BY <1>2, SelectKInv
<1>3. ASSUME NEW e \in Event, LoopActivate(e) \/ LoopTimeout(e)
      PROVE  KInv'
  BY <1>3, ActivateKInv, TimeoutKInv
<1> QED
  BY <1>1, <1>2, <1>3, EnterKInv, TopKInv, LaterKInv, DispatchKInv, TurnKInv, RunKInv,
     SignalKInv, DrainKInv, ReturnKInv
     DEF LoopStep

\* Every step keeps the invariants.
LEMMA NextKInv == IInv /\ WInv /\ KInv /\ [Next]_vars => KInv'
<1> SUFFICES ASSUME IInv, WInv, KInv, [Next]_vars
             PROVE  KInv'
  OBVIOUS
<1>1. IInv'
  BY NextIInv
<1>2. CASE \E a \in Actor : Api(a)
  BY <1>1, <1>2, ApiKInv
<1>3. CASE \E t \in Thread : ThreadResume(t) \/ ThreadIdle(t)
  BY <1>1, <1>3, ThreadKInv
<1>4. CASE LoopStep \/ FdsReady \/ SelectFails \/ LoopEnter
  BY <1>1, <1>4, LoopKInv
<1>5. ASSUME UNCHANGED th
      PROVE  Moves(ExitEv)
  BY <1>5, MovesEffect
<1>6. CASE Tick
  BY <1>5, <1>6, SameKInv DEF Tick
<1>7. CASE UNCHANGED vars
  BY <1>5, <1>7, SameKInv DEF vars
<1> QED
  BY <1>2, <1>3, <1>4, <1>6, <1>7 DEF Next

-----------------------------------------------------------------------------
(* The theorems.                                                           *)

\* The three inductive invariants hold in every state of every behaviour.
LEMMA Invariants == Spec => [](IInv /\ WInv /\ KInv)
<1> QED
  BY InitIInv, InitWInv, InitKInv, NextIInv, NextWInv, NextKInv, PTL DEF Spec

\* evthread_notify_base and evthread_notify_drain_default: the loop never sleeps in its backend
\* on a callback that is active, a loopbreak or a new fd to poll without a byte in the notify
\* socket, and is_notify_pending suppresses another byte only while that one is there or is
\* being read, whichever thread calls whatever function in whatever order.
THEOREM NeverLosesWakeup == Spec => []NoLostWakeup
<1>1. KInv => NoLostWakeup
  BY DEF KInv, SleepInv, NotifyInv, NoLostWakeup
<1> QED
  BY <1>1, Invariants, PTL

\* event_del, event_base_del_virtual_: a loop that would wait for ever is woken by whoever takes
\* the last thing it waited for, and may return from event_base_loop.
THEOREM EmptyLoopAlwaysWakes == Spec => []EmptyLoopWakes
<1>1. KInv => EmptyLoopWakes
  BY DEF KInv, SleepInv, MaySleep, EmptyLoopWakes
<1> QED
  BY <1>1, Invariants, PTL

\* timeout_next, event_add_nolock_: without a cached time, the backend is never asked to sleep
\* beyond the earliest timeout, and an earlier one that another thread adds wakes it.
THEOREM NeverOversleeps == Spec => [](NoCacheTime => NoOversleep)
<1>1. KInv => (NoCacheTime => NoOversleep)
  BY DEF KInv, TimeInv
<1> QED
  BY <1>1, Invariants, PTL

\* event_base_loopbreak: event_process_active_single_queue starts no callback after the one it
\* runs, if any, from the call of another thread on.
THEOREM BreaksAfterOneEvent == Spec => []BreakAfterOneEvent
<1>1. KInv => BreakAfterOneEvent
  BY DEF KInv, BreakInv, BreakAfterOneEvent
<1> QED
  BY <1>1, Invariants, PTL

\* Only LoopRun starts a callback: the other steps leave loop.running, or turn to where the loop
\* runs none.
LEMMA OnlyRunStarts ==
  ASSUME IInv, KInv, LoopStep \/ FdsReady \/ SelectFails \/ LoopEnter
  PROVE  \/ LoopRun
         \/ loop'.running = loop.running
         \/ loop'.running = NoCallback
         \/ loop'.pc \in {"top", "queue", "out"}
<1>1. loop \in LoopLocals
  BY NowTypes
<1>2. ASSUME NEW b, LoopExit(b)
      PROVE  loop'.pc = "out"
  BY <1>2 DEF LoopExit, Outside
<1>3. ASSUME NEW b, NEW x, NEW l, l = loop \/ l = [loop EXCEPT !.endtime = x],
             \/ \E n : ProcessDone(b, l, n)
             \/ \E i : ProcessFrom(b, l, i)
             \/ QueueDone(b, l)
      PROVE  loop'.pc \in {"top", "queue", "out"}
  <2>1. \/ loop'.pc = "out"
        \/ loop' = [l EXCEPT !.pc = "top", !.count = 0, !.endtime = NoTimeval]
        \/ loop' = [l EXCEPT !.pc = "queue", !.count = 0]
    BY <1>2, <1>3 DEF ProcessDone, ProcessFrom, QueueDone
  <2> QED
    BY <1>1, <1>3, <2>1 DEF LoopLocals
<1>4. CASE LoopTop
  BY <1>1, <1>2, <1>4 DEF LoopTop, LoopLocals
<1>5. CASE LoopProcess
  <2> DEFINE b == IF MaxDispatchTime = -1 THEN base ELSE update_time_cache(base)
             end == IF MaxDispatchTime = -1 THEN NoTimeval ELSE gettime(b) + MaxDispatchTime
             l == [loop EXCEPT !.endtime = end]
  <2>1. \/ ProcessFrom(b, l, 0)
        \/ LoopExit(base)
        \/ loop' = [loop EXCEPT !.pc = "top"]
    BY <1>5 DEF LoopProcess
  <2> HIDE DEF b, end
  <2>2. CASE ProcessFrom(b, l, 0)
    BY <1>3, <2>2
  <2> QED
    BY <1>1, <1>2, <2>1, <2>2 DEF LoopLocals
<1>6. CASE LoopQueueEmpty
  BY <1>3, <1>6 DEF LoopQueueEmpty
<1>7. CASE LoopAfter
  <2> DEFINE limited == base.event_running_priority >= LimitCallbacksAfterPrio
             timed == limited /\ loop.count > 0 /\ loop.endtime # NoTimeval
             b == IF timed THEN update_time_cache(base) ELSE base
  <2>1. \/ \E n : ProcessDone(base, loop, n)
        \/ \E n : ProcessDone(b, loop, n)
        \/ QueueDone(b, loop)
        \/ loop' = [loop EXCEPT !.pc = "queue"]
    BY <1>7 DEF LoopAfter
  <2> HIDE DEF b
  <2> QED
    BY <1>1, <1>3, <2>1 DEF LoopLocals
<1>8. CASE LoopEnter \/ LoopMakeLaterActive \/ LoopDispatch \/ LoopRelock \/ LoopUpdateTime
           \/ LoopTimeoutsDone \/ NotifyDrain \/ NotifyDrained \/ LoopReturn
           \/ SignalCount \/ SignalAgain
  <2>1. CASE LoopEnter
    BY <1>1, <2>1 DEF LoopEnter, LoopLocals
  <2>2. CASE LoopMakeLaterActive
    BY <2>2 DEF LoopMakeLaterActive
  <2>3. CASE LoopDispatch \/ LoopRelock \/ LoopUpdateTime \/ LoopTimeoutsDone
    BY <1>1, <2>3 DEF LoopDispatch, LoopRelock, LoopUpdateTime, LoopTimeoutsDone, LoopLocals
  <2>4. CASE NotifyDrain \/ NotifyDrained \/ SignalCount \/ SignalAgain
    BY <1>1, <2>4, SignalSteps DEF NotifyDrain, NotifyDrained, LoopLocals
  <2>5. CASE LoopReturn
    BY <1>1, <2>5 DEF LoopReturn, LoopLocals
  <2> QED
    BY <1>8, <2>1, <2>2, <2>3, <2>4, <2>5
<1>9. ASSUME NEW ready, SelectReturn(ready)
      PROVE  loop'.running = loop.running
  BY <1>1, <1>9 DEF SelectReturn, LoopLocals
<1>10. ASSUME NEW e \in Event, LoopActivate(e) \/ LoopTimeout(e)
       PROVE  loop'.running = loop.running
  BY <1>1, <1>10 DEF LoopActivate, LoopTimeout, AbortLoop, LoopLocals
<1> QED
  BY <1>2, <1>4, <1>5, <1>6, <1>7, <1>8, <1>9, <1>10
  DEF LoopStep, FdsReady, SelectFails

\* A callback starts in LoopRun only.
LEMMA StartsInRun ==
  ASSUME IInv, WInv, KInv, [Next]_vars, NEW c \in Callback, Starts(c)
  PROVE  LoopRun
<1>1. c # NoCallback
  BY BaseAssumption DEF Callback
<1>2. loop \in LoopLocals /\ KInv'
  BY NowTypes, NextKInv
<1>3. ASSUME loop'.running \in {loop.running, NoCallback}
      PROVE  FALSE
  BY <1>1, <1>3 DEF Starts
<1>4. ASSUME NEW k, loop' = [loop EXCEPT !.ncalls = k]
      PROVE  FALSE
  BY <1>2, <1>3, <1>4 DEF LoopLocals
<1>5. CASE \E a \in Actor : Api(a)
  BY <1>4, <1>5, ApiEffect DEF Effect
<1>6. CASE \E t \in Thread : ThreadResume(t) \/ ThreadIdle(t)
  <2>1. PICK t \in Thread : ThreadResume(t) \/ ThreadIdle(t)
    BY <1>6
  <2>2. CASE ThreadResume(t)
    <3>1. th[t].ev \in UserEvent /\ (th[t].op = "finalize" => Final(ev, th[t].ev))
      BY <2>2 DEF ThreadResume, KInv, CallersInv
    <3> QED
      BY <1>4, <2>2, <3>1, ResumeEffect DEF Effect
  <2>3. CASE ThreadIdle(t)
    BY <1>3, <2>3 DEF ThreadIdle
  <2> QED
    BY <2>1, <2>2, <2>3
<1>7. CASE LoopStep \/ FdsReady \/ SelectFails \/ LoopEnter
  <2>1. loop'.pc \in {"top", "queue", "out"} => loop'.running = NoCallback
    BY <1>2 DEF KInv, NotifyInv
  <2> QED
    BY <1>3, <1>7, <2>1, OnlyRunStarts
<1>8. CASE Tick \/ UNCHANGED vars
  BY <1>3, <1>8 DEF Tick, vars
<1> QED
  BY <1>5, <1>6, <1>7, <1>8 DEF Next

\* The callback that starts has been armed.
LEMMA StartStep ==
  ASSUME IInv, WInv, KInv, [Next]_vars, NEW c \in UserEvent \cup Deferred, Starts(c),
         ~loop'.finalizer
  PROVE  hist.armed[c]
<1>1. c \in Callback /\ c # NotifyEv
  BY UserEvents, BaseAssumption
<1>2. PICK d \in Callback : Runs(d)
  BY <1>1, StartsInRun, RunEffect
<1>3. c = d /\ ~Final(ev, c) /\ q.flags[c] \cap Registration # {}
  BY <1>2 DEF Runs, Starts, Registration
<1> QED
  BY <1>1, <1>3 DEF KInv, ArmedInv, Sound

\* event_del: once it has returned no callback of the event starts, until somebody adds or
\* activates the event again, in whatever queue or closure it was when it was deleted.  The same
\* holds of an event that is not persistent after it has run, and of a deferred callback.
THEOREM AlwaysRunsOnlyIfArmed == Spec => RunsOnlyIfArmed
<1> DEFINE Armed == \A c \in UserEvent \cup Deferred :
                      Starts(c) /\ ~loop'.finalizer => hist.armed[c]
<1>1. IInv /\ WInv /\ KInv /\ [Next]_vars => [Armed]_vars
  BY StartStep
<1>2. Spec => [][Armed]_vars
  BY <1>1, Invariants, PTL DEF Spec
<1> QED
  BY <1>2 DEF RunsOnlyIfArmed

-----------------------------------------------------------------------------
(* Finalizers.                                                             *)

\* The functions of the API that somebody calls
Calls == ThreadApi \cup CallbackApi

\* event_finalize is called as event2/event.h asks: for events with EV_FINALIZE, which
\* event_del does not wait for.  Signal events have none here, as event_active_nolock_ then
\* waits before the event is marked.
FinalizesByTheBook ==
  "event_finalize" \in Calls =>
    /\ UserEvent \subseteq EvFinalize
    /\ \A e \in UserEvent : Kind[e] # "signal"
    /\ "event_del_block" \notin Calls

\* Nobody makes an event active that may not have been added.
NoActivations == {"event_active", "event_active_later_"} \cap Calls = {}

\* The loop runs the finalizer of c.
RunsFinalizer(c) == loop.finalizer /\ loop.running = c

\* The flags and the closure of c, by what has been asked of it
FinalOK(c) ==
  \/ hist.finalized[c] = "no" /\ ~Final(ev, c) /\ ~RunsFinalizer(c)
  \/ /\ hist.finalized[c] = "asked" /\ Final(ev, c)
     /\ q.flags[c] = {"FINALIZING"} \cup (IF RunsFinalizer(c) THEN {} ELSE {"ACTIVE"})
  \/ /\ hist.finalized[c] = "done" /\ Final(ev, c)
     /\ q.flags[c] = {"FINALIZING"} /\ ~RunsFinalizer(c)

\* A thread that waits for a callback does so in a program that finalizes no events.
WaitsOK ==
  \A t \in Thread : th[t].pc \in {"wait", "woken"} =>
    /\ "event_finalize" \notin Calls
    /\ th[t].op # "finalize"
    /\ th[t].op = "active" => "event_active" \in Calls

\* What is registered has been added, or is to be finalized.
PendingInv ==
  \A e \in UserEvent :
    q.flags[e] \cap Registration # {} => hist.asked[e] # "no" \/ hist.finalized[e] # "no"

FInv ==
  /\ loop.finalizer => loop.running \in Callback
  /\ \A c \in Callback : FinalOK(c)
  /\ \A e \in Event : hist.finalized[e] # "no" => "event_finalize" \in Calls
  /\ WaitsOK
  /\ NoActivations => PendingInv

\* The initial state
LEMMA InitFInv == Init => FInv
<1> SUFFICES ASSUME Init
             PROVE  FInv
  OBVIOUS
<1>1. loop.finalizer = FALSE /\ \A t \in Thread : th[t].pc = "idle"
  BY DEF Init, Outside, Idle
<1>2. \A c \in Callback : hist.finalized[c] = "no" /\ ~Final(ev, c)
  BY DEF Init, Final
<1>3. NotifyEv \in Callback
  BY BaseAssumption DEF Callback
<1>4. \A c \in Callback : q.flags[c] = IF c = NotifyEv THEN {"INSERTED"} ELSE {}
  BY <1>3 DEF Init, event_queue_insert_inserted, EmptyQueues
<1>5. PendingInv
  BY <1>2, <1>4, UserEvents DEF PendingInv
<1> QED
  BY <1>1, <1>2, <1>5 DEF FInv, FinalOK, RunsFinalizer, WaitsOK, Callback

\* The loop thread goes on with or without the same finalizer.
SameFinalizer ==
  \/ loop'.finalizer = loop.finalizer /\ loop'.running = loop.running
  \/ ~loop.finalizer /\ ~loop'.finalizer

\* No thread begins to wait.
ThreadsStay ==
  \A t \in Thread :
    \/ th'[t] = th[t]
    \/ th'[t].pc \in {"idle", "deleted"}
    \/ th[t].pc \in {"wait", "woken"} /\ th'[t].op = th[t].op

LEMMA WaitsStay ==
  ASSUME WaitsOK, ThreadsStay
  PROVE  WaitsOK'
  BY DEF WaitsOK, ThreadsStay

\* A step about callback c, which is not being finalized.
Ordinary(c) ==
  /\ \A d \in Callback \ {c} : q'.flags[d] = q.flags[d] /\ ev'[d] = ev[d]
  /\ \A e \in UserEvent \ {c} : hist'.asked[e] = hist.asked[e]
  /\ hist'.finalized = hist.finalized /\ hist.finalized[c] = "no"
  /\ Final(ev', c) => Final(ev, c)
  /\ NoActivations /\ c \in UserEvent /\ q'.flags[c] \cap Registration # {} =>
       \/ hist'.asked[c] # "no"
       \/ q.flags[c] \cap Registration # {} /\ hist'.asked[c] = hist.asked[c]

LEMMA OrdinaryFInv ==
  ASSUME FInv, NEW c \in Callback, Ordinary(c), SameFinalizer, WaitsOK'
  PROVE  FInv'
<1>1. loop'.finalizer => loop'.running \in Callback
  BY DEF FInv, SameFinalizer
<1>2. \A d : RunsFinalizer(d)' <=> RunsFinalizer(d)
  BY DEF RunsFinalizer, SameFinalizer
<1>3. ASSUME NEW d \in Callback
      PROVE  FinalOK(d)'
  <2>1. /\ FinalOK(d) /\ hist'.finalized[d] = hist.finalized[d]
        /\ RunsFinalizer(d)' <=> RunsFinalizer(d)
    BY <1>2 DEF FInv, Ordinary
  <2>2. CASE d = c
    <3>1. hist'.finalized[d] = "no" /\ ~Final(ev, d) /\ ~RunsFinalizer(d)
      BY <2>1, <2>2 DEF FinalOK, Ordinary
    <3> QED
      BY <2>1, <2>2, <3>1 DEF FinalOK, Ordinary, Final
  <2>3. CASE d # c
    <3>1. q'.flags[d] = q.flags[d] /\ ev'[d] = ev[d]
      BY <2>3 DEF Ordinary
    <3> QED
      BY <2>1, <3>1 DEF FinalOK, Final
  <2> QED
    BY <2>2, <2>3
<1>4. \A e \in Event : hist'.finalized[e] # "no" => "event_finalize" \in Calls
  BY DEF FInv, Ordinary
<1>5. NoActivations => PendingInv'
  <2> SUFFICES ASSUME NoActivations, NEW e \in UserEvent, q'.flags[e] \cap Registration # {}
               PROVE  hist'.asked[e] # "no" \/ hist'.finalized[e] # "no"
    BY DEF PendingInv
  <2>1. q.flags[e] \cap Registration # {} => hist.asked[e] # "no" \/ hist.finalized[e] # "no"
    BY DEF FInv, PendingInv
  <2>2. e \in Callback /\ hist'.finalized = hist.finalized
    BY UserEvents DEF Ordinary
  <2> QED
    BY <2>1, <2>2 DEF Ordinary
<1> QED
  BY <1>1, <1>3, <1>4, <1>5 DEF FInv

\* A step that concerns no callback
LEMMA NothingFInv ==
  ASSUME FInv, q'.flags = q.flags, \A c \in Callback : ev'[c].closure = ev[c].closure,
         hist'.finalized = hist.finalized, hist'.asked = hist.asked, SameFinalizer, WaitsOK'
  PROVE  FInv'
<1>1. loop'.finalizer => loop'.running \in Callback
  BY DEF FInv, SameFinalizer
<1>2. \A c \in Callback : FinalOK(c)'
  <2> TAKE c \in Callback
  <2>1. RunsFinalizer(c)' <=> RunsFinalizer(c)
    BY DEF RunsFinalizer, SameFinalizer
  <2>2. FinalOK(c) /\ ev'[c].closure = ev[c].closure
    BY DEF FInv
  <2> QED
    BY <2>1, <2>2 DEF FinalOK, Final
<1> QED
  BY <1>1, <1>2 DEF FInv, PendingInv

\* A callback that is not marked, or is registered otherwise than a finalizer, has none.
LEMMA NotFinalized ==
  ASSUME FInv, NEW c \in Callback,
         \/ "FINALIZING" \notin q.flags[c]
         \/ q.flags[c] \cap {"INSERTED", "TIMEOUT", "ACTIVE_LATER"} # {}
  PROVE  hist.finalized[c] = "no"
<1>1. FinalOK(c)
  BY DEF FInv
<1> QED
  BY <1>1 DEF FinalOK

\* What FInv needs of the loop and of the other callbacks
LEMMA EffectKeeps ==
  ASSUME IInv, NEW a, NEW c \in Callback, Effect(a, c)
  PROVE  /\ SameFinalizer
         /\ \A d \in Callback \ {c} : q'.flags[d] = q.flags[d] /\ ev'[d] = ev[d]
  BY NowTypes DEF Effect, About, SameFinalizer, LoopLocals

\* The threads: a call begins to wait, or it does not.
LEMMA WaitsAfter ==
  ASSUME IInv, FInv
  PROVE  /\ UNCHANGED th => WaitsOK'
         /\ \A t : th' = [th EXCEPT ![t] = Idle] => WaitsOK'
         /\ \A t, e : th' = Deleted(t, e) => WaitsOK'
         /\ \A t, op, e, tv, n :
              /\ CondWait(t, op, e, tv, n) /\ op # "finalize"
              /\ "event_finalize" \notin Calls
              /\ op = "active" => "event_active" \in Calls
              => WaitsOK'
<1>1. th \in [Thread -> ThreadLocals] /\ WaitsOK
  BY Parts DEF FInv
<1>2. UNCHANGED th => WaitsOK'
  BY <1>1, WaitsStay DEF ThreadsStay
<1>3. ASSUME NEW t, NEW e, th' = [th EXCEPT ![t] = Idle] \/ th' = Deleted(t, e)
      PROVE  WaitsOK'
  <2> DEFINE old == [Idle EXCEPT !.pc = "deleted", !.ev = e]
  <2>1. old.pc = "deleted" /\ Idle.pc = "idle"
    BY DEF Idle
  <2>2. th' = [th EXCEPT ![t] = Idle] \/ th' = [th EXCEPT ![t] = old]
    BY <1>3 DEF Deleted
  <2> HIDE DEF old
  <2>3. ThreadsStay
    BY <1>1, <2>1, <2>2 DEF ThreadsStay
  <2> QED
    BY <1>1, <2>3, WaitsStay
<1>4. ASSUME NEW t, NEW op, NEW e, NEW tv, NEW n, CondWait(t, op, e, tv, n), op # "finalize",
             "event_finalize" \notin Calls, op = "active" => "event_active" \in Calls
      PROVE  WaitsOK'
  BY <1>1, <1>4 DEF CondWait, WaitsOK
<1> QED
  BY <1>2, <1>3, <1>4

\* event_add_nolock_ after the wait
LEMMA AddNowOrdinary ==
  ASSUME IInv, NEW a, NEW e \in Event, NEW tv \in Timeval, AddNow(a, e, tv),
         hist.finalized[e] = "no"
  PROVE  Ordinary(e) /\ SameFinalizer
<1>1. e \in Callback /\ gettime(base) \in Nat
  BY Parts, TimeTypes
<1>2. SameFinalizer /\ \A d \in Callback \ {e} : q'.flags[d] = q.flags[d] /\ ev'[d] = ev[d]
  BY <1>1, AddNowEffect, EffectKeeps
<1>3. Keeps(ev', e)
  <2>1. ev' = AddFields(e, tv, FALSE, gettime(base))
    BY DEF AddNow
  <2> QED
    BY <1>1, <2>1, FieldsEffect
<1>4. /\ hist'.finalized = hist.finalized /\ hist'.asked[e] # "no"
      /\ \A d \in Event \ {e} : hist'.asked[d] = hist.asked[d]
  BY Parts DEF AddNow, Asked, History
<1> QED
  BY <1>2, <1>3, <1>4, UserEvents DEF Ordinary, Keeps, Final

\* event_del_nolock_ after the wait
LEMMA DelNowOrdinary ==
  ASSUME IInv, NEW a, NEW e \in Event, DelNow(a, e), hist.finalized[e] = "no"
  PROVE  Ordinary(e) /\ SameFinalizer
<1>1. e \in Callback /\ Good(q)
  BY Parts
<1>2. SameFinalizer /\ \A d \in Callback \ {e} : q'.flags[d] = q.flags[d] /\ ev'[d] = ev[d]
  BY <1>1, DelNowEffect, EffectKeeps
<1>3. q'.flags[e] \cap Registration = {} /\ ev' = ev
  <2>1. q' = event_del_nolock_(q, e) /\ ev' = ev
    BY DEF DelNow
  <2>2. q'.flags = [q.flags EXCEPT ![e] = q.flags[e] \ Registration]
    BY <1>1, <2>1, DelEffect DEF Lowers
  <2> QED
    BY <1>1, <2>1, <2>2, GoodFields
<1>4. /\ hist'.finalized = hist.finalized
      /\ \A d \in Event \ {e} : hist'.asked[d] = hist.asked[d]
  BY Parts DEF DelNow, History
<1> QED
  BY <1>2, <1>3, <1>4, UserEvents DEF Ordinary

\* event_active_nolock_ after the wait
LEMMA ActivateNowOrdinary ==
  ASSUME IInv, NEW a, NEW e \in Event, NEW n \in Nat, NEW v, Keeps(v, e), SameTimeouts(v),
         NEW b \in BaseFields, NotifiesOnly(base, b), ActivateNow(a, e, n, v, b),
         UNCHANGED loop, hist.finalized[e] = "no", e \in UserEvent => ~NoActivations
  PROVE  Ordinary(e) /\ SameFinalizer
<1>1. e \in Callback
  BY Parts
<1>2. SameFinalizer /\ \A d \in Callback \ {e} : q'.flags[d] = q.flags[d] /\ ev'[d] = ev[d]
  BY <1>1, ActivateNowEffect, EffectKeeps
<1>3. Keeps(ev', e)
  <2>1. ev' = ActiveCalls(v, e, n)
    BY DEF ActivateNow
  <2>2. {} \in SUBSET Result /\ NoTimeval \in Timeval /\ 0 \in Nat
    BY DEF Timeval
  <2> QED
    BY <1>1, <2>1, <2>2, FieldsEffect
<1>4. hist'.finalized = hist.finalized /\ hist'.asked = hist.asked
  BY Parts DEF ActivateNow, History
<1> QED
  BY <1>2, <1>3, <1>4 DEF Ordinary, Keeps, Final

\* event_add
LEMMA AddFInv ==
  ASSUME FinalizesByTheBook, IInv, FInv, NEW a, NEW e \in UserEvent, NEW tv \in Timeval,
         event_add(a, e, tv)
  PROVE  FInv'
<1>1. e \in Event /\ e \in Callback /\ hist.finalized[e] = "no"
  BY UserEvents, NotFinalized DEF event_add
<1>2. CASE /\ Kind[e] = "signal" /\ CondWait(a, "add", e, tv, 0)
           /\ UNCHANGED <<q, ev, loop, hist>>
  <2>1. "event_finalize" \notin Calls
    BY <1>2 DEF FinalizesByTheBook
  <2>2. WaitsOK'
    BY <1>2, <2>1, WaitsAfter
  <2> QED
    BY <1>2, <2>2, NothingFInv DEF SameFinalizer
<1>3. CASE AddNow(a, e, tv) /\ UNCHANGED th
  BY <1>1, <1>3, AddNowOrdinary, OrdinaryFInv, WaitsAfter
<1> QED
  BY <1>2, <1>3 DEF event_add

\* event_remove_timer
LEMMA RemoveTimerFInv ==
  ASSUME IInv, FInv, NEW a, NEW e \in UserEvent, event_remove_timer(a, e)
  PROVE  FInv'
<1>1. e \in Event /\ e \in Callback /\ "TIMEOUT" \in q.flags[e] /\ hist.finalized[e] = "no"
  BY UserEvents, NotFinalized DEF event_remove_timer
<1>2. SameFinalizer /\ \A d \in Callback \ {e} : q'.flags[d] = q.flags[d] /\ ev'[d] = ev[d]
  BY <1>1, RemoveTimerEffects, EffectKeeps
<1>3. ev'[e].closure = ev[e].closure
  BY <1>1, Parts DEF event_remove_timer, CallbackFields
<1>4. /\ hist'.finalized = hist.finalized /\ hist'.asked[e] # "no"
      /\ \A d \in Event \ {e} : hist'.asked[d] = hist.asked[d]
  BY <1>1, Parts DEF event_remove_timer, History
<1>5. Ordinary(e)
  BY <1>1, <1>2, <1>3, <1>4, UserEvents DEF Ordinary, Final
<1>6. WaitsOK'
  BY WaitsAfter DEF event_remove_timer
<1> QED
  BY <1>1, <1>2, <1>5, <1>6, OrdinaryFInv

\* event_del and its two variants
LEMMA DelFInv ==
  ASSUME FinalizesByTheBook, IInv, FInv, NEW a, NEW e \in UserEvent,
         NEW f \in {"event_del", "event_del_block", "event_del_noblock"}, event_del(a, e, f)
  PROVE  FInv'
<1>1. e \in Event /\ e \in Callback /\ hist.finalized[e] = "no"
  BY UserEvents, NotFinalized DEF event_del
<1>2. CASE /\ f = "event_del_block" \/ e \notin EvFinalize
           /\ CondWait(a, "del", e, NoTimeval, 0)
           /\ UNCHANGED <<q, ev, loop, hist>>
  <2>1. f \in Calls
    BY DEF event_del, CanCall, Calls
  <2>2. "event_finalize" \notin Calls
    BY <1>2, <2>1 DEF FinalizesByTheBook
  <2>3. WaitsOK'
    BY <1>2, <2>2, WaitsAfter
  <2> QED
    BY <1>2, <2>3, NothingFInv DEF SameFinalizer
<1>3. CASE DelNow(a, e) /\ (UNCHANGED th \/ th' = Deleted(a, e))
  <2>1. WaitsOK'
    BY <1>3, WaitsAfter
  <2> QED
    BY <1>1, <1>3, <2>1, DelNowOrdinary, OrdinaryFInv
<1> QED
  BY <1>2, <1>3 DEF event_del

\* event_active
LEMMA ActiveFInv ==
  ASSUME FinalizesByTheBook, IInv, FInv, NEW a, NEW e \in UserEvent, NEW n \in Nat,
         event_active(a, e, n)
  PROVE  FInv'
<1> DEFINE v == ActiveResult(q, e, IF Kind[e] = "signal" THEN {"EV_SIGNAL"} ELSE {"EV_READ"})
           b == ActiveContinue(base, e)
<1>1. e \in Event /\ e \in Callback /\ base \in BaseFields /\ hist.finalized[e] = "no"
  BY UserEvents, Parts, NotFinalized DEF event_active
<1>2. "event_active" \in Calls /\ ~NoActivations
  BY DEF event_active, CanCall, Calls, NoActivations
<1>3. Keeps(v, e) /\ SameTimeouts(v)
  <2>1. (IF Kind[e] = "signal" THEN {"EV_SIGNAL"} ELSE {"EV_READ"}) \in SUBSET Result
        /\ NoTimeval \in Timeval
    BY DEF Result, Timeval
  <2> QED
    BY <1>1, <2>1, FieldsEffect
<1>4. b \in BaseFields /\ NotifiesOnly(base, b)
  BY <1>1, NotifyEffect
<1>5. UNCHANGED loop
      /\ \/ ev' = v /\ UNCHANGED <<q, base, th, hist>>
         \/ /\ Kind[e] = "signal" /\ CondWait(a, "active", e, NoTimeval, n) /\ ev' = v
            /\ UNCHANGED <<q, hist>>
         \/ ActivateNow(a, e, n, v, b) /\ UNCHANGED th
  BY DEF event_active
<1> HIDE DEF v, b
<1>6. CASE ev' = v /\ UNCHANGED <<q, th, hist>>
  <2>1. \A c \in Callback : ev'[c].closure = ev[c].closure
    BY <1>3, <1>6 DEF Keeps
  <2> QED
    BY <1>5, <1>6, <2>1, WaitsAfter, NothingFInv DEF SameFinalizer
<1>7. CASE /\ Kind[e] = "signal" /\ CondWait(a, "active", e, NoTimeval, n) /\ ev' = v
           /\ UNCHANGED <<q, hist>>
  <2>1. \A c \in Callback : ev'[c].closure = ev[c].closure
    BY <1>3, <1>7 DEF Keeps
  <2>2. "event_finalize" \notin Calls
    BY <1>7 DEF FinalizesByTheBook
  <2>3. WaitsOK'
    BY <1>2, <1>7, <2>2, WaitsAfter
  <2> QED
    BY <1>5, <1>7, <2>1, <2>3, NothingFInv DEF SameFinalizer
<1>8. CASE ActivateNow(a, e, n, v, b) /\ UNCHANGED th
  <2>1. Ordinary(e) /\ SameFinalizer
    BY <1>1, <1>2, <1>3, <1>4, <1>5, <1>8, ActivateNowOrdinary
  <2> QED
    BY <1>1, <1>8, <2>1, WaitsAfter, OrdinaryFInv
<1> QED
  BY <1>5, <1>6, <1>7, <1>8

\* event_active_later_
LEMMA ActiveLaterFInv ==
  ASSUME IInv, FInv, NEW a, NEW e \in UserEvent, event_active_later_(a, e)
  PROVE  FInv'
<1>1. e \in Event /\ e \in Callback /\ hist.finalized[e] = "no"
  BY UserEvents, NotFinalized DEF event_active_later_
<1>2. ~NoActivations
  BY DEF event_active_later_, CanCall, Calls, NoActivations
<1>3. SameFinalizer /\ \A d \in Callback \ {e} : q'.flags[d] = q.flags[d] /\ ev'[d] = ev[d]
  BY <1>1, ActiveLaterEffects, EffectKeeps
<1>4. Keeps(ev', e)
  <2>1. {"EV_READ"} \in SUBSET Result /\ NoTimeval \in Timeval
    BY DEF Result, Timeval
  <2> QED
    BY <1>1, <2>1, FieldsEffect DEF event_active_later_
<1>5. hist'.finalized = hist.finalized /\ hist'.asked = hist.asked
  BY Parts DEF event_active_later_, History
<1>6. Ordinary(e)
  BY <1>1, <1>2, <1>3, <1>4, <1>5 DEF Ordinary, Keeps, Final
<1>7. WaitsOK'
  BY WaitsAfter DEF event_active_later_
<1> QED
  BY <1>1, <1>3, <1>6, <1>7, OrdinaryFInv

\* A finalizer is asked for: the callback is active and marked.
LEMMA AskedFInv ==
  ASSUME FInv, NEW c \in Callback, hist.finalized[c] = "no",
         \A d \in Callback \ {c} : q'.flags[d] = q.flags[d] /\ ev'[d] = ev[d],
         q'.flags[c] = {"ACTIVE", "FINALIZING"}, Final(ev', c),
         hist'.finalized[c] = "asked",
         \A d \in Callback \ {c} : hist'.finalized[d] = hist.finalized[d],
         \A e \in UserEvent \ {c} : hist'.asked[e] = hist.asked[e],
         c \in Event => "event_finalize" \in Calls,
         SameFinalizer, WaitsOK'
  PROVE  FInv'
<1>1. loop'.finalizer => loop'.running \in Callback
  BY DEF FInv, SameFinalizer
<1>2. \A d : RunsFinalizer(d)' <=> RunsFinalizer(d)
  BY DEF RunsFinalizer, SameFinalizer
<1>3. ASSUME NEW d \in Callback
      PROVE  FinalOK(d)'
  <2>1. FinalOK(d)
    BY DEF FInv
  <2>2. CASE d = c
    <3>1. ~RunsFinalizer(c)'
      BY <1>2, <2>1, <2>2 DEF FinalOK
    <3> QED
      BY <2>2, <3>1 DEF FinalOK, Final
  <2>3. CASE d # c
    BY <1>2, <2>1, <2>3 DEF FinalOK, Final
  <2> QED
    BY <2>2, <2>3
<1>4. \A e \in Event : hist'.finalized[e] # "no" => "event_finalize" \in Calls
  BY DEF FInv, Callback
<1>5. NoActivations => PendingInv'
  BY UserEvents DEF FInv, PendingInv
<1> QED
  BY <1>1, <1>3, <1>4, <1>5 DEF FInv

\* The flags of a callback without a registration, when it is activated and marked
LEMMA MarkedFlags ==
  ASSUME NEW s, Good(s), NEW c \in Callback, s.flags[c] = {}
  PROVE  SetFinalizing(event_callback_activate_nolock_(s, c), c).flags[c] = {"ACTIVE", "FINALIZING"}
<1> DEFINE u == event_callback_activate_nolock_(s, c)
<1>1. Good(u)
  BY ActivateGood
<1>2. u.flags = [s.flags EXCEPT ![c] = (s.flags[c] \ {"ACTIVE_LATER"}) \cup {"ACTIVE"}]
  BY ActivateEffect
<1> HIDE DEF u
<1>3. SetFinalizing(u, c).flags = [u.flags EXCEPT ![c] = u.flags[c] \cup {"FINALIZING"}]
  BY <1>1, InsertEffect
<1>4. s.flags \in [Callback -> SUBSET Flag]
  BY GoodFields
<1>5. u.flags[c] = {"ACTIVE"} /\ u.flags \in [Callback -> SUBSET Flag]
  BY <1>1, <1>2, <1>4, GoodFields
<1> QED
  BY <1>3, <1>5 DEF u

\* event_finalize
LEMMA FinalizeFInv ==
  ASSUME FinalizesByTheBook, IInv, KInv, FInv, NEW a, NEW e \in UserEvent, event_finalize(a, e)
  PROVE  FInv'
<1> DEFINE s == event_del_nolock_(q, e)
           v == [ev EXCEPT ![e].closure = "finalize", ![e].res = {"EV_FINALIZE"}]
           b == ActiveContinue(DelNotifies(e, base, a), e)
<1>1. /\ e \in Event /\ e \in Callback /\ e # NotifyEv /\ hist.finalized[e] = "no" /\ Good(q)
      /\ ev \in [Callback -> CallbackFields] /\ q.flags \in [Callback -> SUBSET Flag]
  BY UserEvents, Parts, GoodFields DEF event_finalize
<1>2. "event_finalize" \in Calls /\ Kind[e] # "signal"
  BY DEF event_finalize, CanCall, Calls, FinalizesByTheBook
<1>3. /\ ev' = ActiveCalls(v, e, 1)
      /\ q' = SetFinalizing(
                IF CanActivate(s, e) THEN event_callback_activate_nolock_(s, e) ELSE s, e)
      /\ UNCHANGED th
      /\ hist' = [hist EXCEPT !.finalized[e] = "asked", !.asked[e] = "no"]
  BY <1>2 DEF event_finalize, FinalizeNow
<1>4. SameFinalizer /\ \A d \in Callback \ {e} : q'.flags[d] = q.flags[d] /\ ev'[d] = ev[d]
  BY <1>1, FinalizeEffects, EffectKeeps
<1>5. Final(ev', e)
  BY <1>1, <1>2, <1>3 DEF ActiveCalls, CallbackFields, Final
<1>6. Good(s) /\ s.flags[e] = {}
  <2>1. FinalOK(e) /\ Sound(q, ev, hist, e)
    BY <1>1 DEF FInv, KInv, ArmedInv
  <2>2. "FINALIZING" \notin q.flags[e]
    BY <1>1, <2>1 DEF FinalOK, Sound
  <2>3. q.flags[e] \ Registration = {}
    BY <1>1, <2>2 DEF Flag, Registration
  <2>4. Good(s) /\ s.flags = [q.flags EXCEPT ![e] = q.flags[e] \ Registration]
    BY <1>1, DelGood, DelEffect DEF Lowers
  <2> QED
    BY <1>1, <2>3, <2>4
<1> HIDE DEF s, v
<1>7. q'.flags[e] = {"ACTIVE", "FINALIZING"}
  BY <1>1, <1>3, <1>6, MarkedFlags DEF CanActivate
<1>8. /\ hist'.finalized = [hist.finalized EXCEPT ![e] = "asked"]
      /\ hist'.asked = [hist.asked EXCEPT ![e] = "no"]
      /\ hist.finalized \in [Callback -> {"no", "asked", "done", "twice"}]
      /\ hist.asked \in [Event -> {"no", "forever", "timed"}]
  BY <1>3, Parts DEF History
<1>9. /\ hist'.finalized[e] = "asked"
      /\ \A d \in Callback \ {e} : hist'.finalized[d] = hist.finalized[d]
      /\ \A d \in UserEvent \ {e} : hist'.asked[d] = hist.asked[d]
  BY <1>1, <1>8, UserEvents
<1> QED
  BY <1>1, <1>2, <1>3, <1>4, <1>5, <1>7, <1>9, WaitsAfter, AskedFInv

\* The three functions on a deferred callback
LEMMA DeferredFInv ==
  ASSUME IInv, KInv, FInv, NEW a, NEW c \in Deferred,
         \/ event_deferred_cb_schedule_(a, c)
         \/ event_deferred_cb_cancel_(a, c)
         \/ event_callback_finalize_(a, c)
  PROVE  FInv'
<1>1. /\ c \in Callback /\ c # NotifyEv /\ c \notin UserEvent /\ c \notin Event /\ Good(q)
      /\ ev \in [Callback -> CallbackFields] /\ q.flags \in [Callback -> SUBSET Flag]
  BY UserEvents, Parts, GoodFields, QueuesAssumption
<1>2. SameFinalizer /\ \A d \in Callback \ {c} : q'.flags[d] = q.flags[d] /\ ev'[d] = ev[d]
  BY <1>1, DeferredEffects, EffectKeeps
<1>3. WaitsOK'
  BY WaitsAfter
  DEF event_deferred_cb_schedule_, event_deferred_cb_cancel_, event_callback_finalize_
<1>4. CASE event_deferred_cb_schedule_(a, c) \/ event_deferred_cb_cancel_(a, c)
  <2>1. ev' = ev /\ hist'.finalized = hist.finalized /\ hist'.asked = hist.asked
    BY <1>4, Parts DEF event_deferred_cb_schedule_, event_deferred_cb_cancel_, History
  <2>2. "FINALIZING" \notin q.flags[c]
    BY <1>4 DEF event_deferred_cb_schedule_, event_deferred_cb_cancel_
  <2>3. Ordinary(c)
    BY <1>1, <1>2, <2>1, <2>2, NotFinalized DEF Ordinary
  <2> QED
    BY <1>1, <1>2, <1>3, <2>3, OrdinaryFInv
<1>5. CASE event_callback_finalize_(a, c)
  <2> DEFINE s == Cancelled(q, c)
  <2>1. /\ ev' = [ev EXCEPT ![c].closure = "cb_finalize"]
        /\ q' = SetFinalizing(event_callback_activate_nolock_(s, c), c)
        /\ hist' = [hist EXCEPT !.finalized[c] = "asked"]
        /\ hist.finalized[c] = "no"
    BY <1>5 DEF event_callback_finalize_
  <2>2. Final(ev', c)
    BY <1>1, <2>1 DEF CallbackFields, Final
  <2>3. Good(s) /\ s.flags[c] = {}
    <3>1. FinalOK(c) /\ Sound(q, ev, hist, c)
      BY <1>1 DEF FInv, KInv, ArmedInv
    <3>2. q.flags[c] \cap {"INSERTED", "TIMEOUT", "FINALIZING"} = {}
      BY <2>1, <3>1 DEF FinalOK, Sound
    <3>3. q.flags[c] \ {"ACTIVE", "ACTIVE_LATER"} = {}
      BY <1>1, <3>2 DEF Flag
    <3>4. Lowers(q, s, c, q.flags[c] \ {"ACTIVE", "ACTIVE_LATER"})
      BY <1>1, CancelledEffect
    <3>5. Good(s)
      BY <1>1, CancelledGood
    <3> HIDE DEF s
    <3> QED
      BY <1>1, <3>3, <3>4, <3>5 DEF Lowers
  <2> HIDE DEF s
  <2>4. q'.flags[c] = {"ACTIVE", "FINALIZING"}
    BY <1>1, <2>1, <2>3, MarkedFlags
  <2>5. /\ hist'.finalized = [hist.finalized EXCEPT ![c] = "asked"] /\ hist'.asked = hist.asked
        /\ hist.finalized \in [Callback -> {"no", "asked", "done", "twice"}]
    BY <2>1, Parts DEF History
  <2>6. /\ hist'.finalized[c] = "asked"
        /\ \A d \in Callback \ {c} : hist'.finalized[d] = hist.finalized[d]
    BY <1>1, <2>5
  <2> QED
    BY <1>1, <1>2, <1>3, <2>1, <2>2, <2>4, <2>5, <2>6, AskedFInv
<1> QED
  BY <1>4, <1>5

\* event_base_loopexit: nobody finalizes its event.
LEMMA LoopExitFInv ==
  ASSUME IInv, FInv, NEW a, NEW tv \in Timeval, event_base_loopexit(a, tv)
  PROVE  FInv'
<1>1. ExitEv \in Event /\ ExitEv \in Callback /\ ExitEv \notin UserEvent /\ base \in BaseFields
  BY UserEvents, Parts DEF UserEvent
<1>2. UNCHANGED <<loop, th>> /\ hist.finalized[ExitEv] = "no"
  BY <1>1, NotFinalized DEF event_base_loopexit
<1>3. CASE tv \in {NoTimeval, 0}
  <2> DEFINE v == ActiveResult(q, ExitEv, {"EV_TIMEOUT"})
             b == ActiveContinue(base, ExitEv)
  <2>1. ActivateNow(a, ExitEv, 1, v, b)
    BY <1>3 DEF event_base_loopexit
  <2>2. Keeps(v, ExitEv) /\ SameTimeouts(v)
    <3>1. {"EV_TIMEOUT"} \in SUBSET Result /\ NoTimeval \in Timeval
      BY DEF Result, Timeval
    <3> QED
      BY <1>1, <3>1, FieldsEffect
  <2>3. b \in BaseFields /\ NotifiesOnly(base, b)
    BY <1>1, NotifyEffect
  <2> HIDE DEF v, b
  <2>4. Ordinary(ExitEv) /\ SameFinalizer
    BY <1>1, <1>2, <2>1, <2>2, <2>3, ActivateNowOrdinary
  <2> QED
    BY <1>1, <1>2, <2>4, WaitsAfter, OrdinaryFInv
<1>4. CASE tv \notin {NoTimeval, 0}
  <2>1. AddNow(a, ExitEv, tv)
    BY <1>2, <1>4 DEF event_base_loopexit, AddNow
  <2> QED
    BY <1>1, <1>2, <2>1, AddNowOrdinary, WaitsAfter, OrdinaryFInv
<1> QED
  BY <1>3, <1>4

\* Any call of the API
LEMMA ApiFInv ==
  ASSUME FinalizesByTheBook, IInv, KInv, FInv, NEW a \in Actor, Api(a)
  PROVE  FInv'
<1>1. /\ Delays \subseteq Timeval /\ NoTimeval \in Timeval
      /\ 1 .. MaxCalls \subseteq Nat /\ 1 .. 1 \subseteq Nat
  BY BaseAssumption DEF Timeval
<1>2. ASSUME NEW e \in UserEvent, NEW tv \in Timeval, event_add(a, e, tv)
      PROVE  FInv'
  BY <1>2, AddFInv
<1>3. ASSUME NEW e \in UserEvent, event_remove_timer(a, e)
      PROVE  FInv'
  BY <1>3, RemoveTimerFInv
<1>4. ASSUME NEW e \in UserEvent,
             NEW f \in {"event_del", "event_del_block", "event_del_noblock"}, event_del(a, e, f)
      PROVE  FInv'
  BY <1>4, DelFInv
<1>5. ASSUME NEW e \in UserEvent, NEW n \in Nat, event_active(a, e, n)
      PROVE  FInv'
  BY <1>5, ActiveFInv
<1>6. ASSUME NEW e \in UserEvent, event_active_later_(a, e)
      PROVE  FInv'
  BY <1>6, ActiveLaterFInv
<1>7. ASSUME NEW e \in UserEvent, event_finalize(a, e)
      PROVE  FInv'
  BY <1>7, FinalizeFInv
<1>8. ASSUME NEW c \in Deferred,
             \/ event_deferred_cb_schedule_(a, c)
             \/ event_deferred_cb_cancel_(a, c)
             \/ event_callback_finalize_(a, c)
      PROVE  FInv'
  BY <1>8, DeferredFInv
<1>9. ASSUME NEW tv \in Timeval, event_base_loopexit(a, tv)
      PROVE  FInv'
  BY <1>9, LoopExitFInv
<1>10. ASSUME \/ event_base_loopbreak(a) \/ event_base_loopcontinue(a)
              \/ event_base_add_virtual_(a) \/ event_base_del_virtual_(a)
       PROVE  FInv'
  <2>1. UNCHANGED <<q, ev, loop, th, hist>>
    BY <1>10 DEF event_base_loopbreak, event_base_loopcontinue, event_base_add_virtual_,
                 event_base_del_virtual_
  <2> QED
    BY <2>1, WaitsAfter, NothingFInv DEF SameFinalizer
<1> QED
  BY <1>1, <1>2, <1>3, <1>4, <1>5, <1>6, <1>7, <1>8, <1>9, <1>10 DEF Api

\* A thread that goes on after its wait, or after event_del
LEMMA ThreadFInv ==
  ASSUME IInv, KInv, FInv, NEW t \in Thread, ThreadResume(t) \/ ThreadIdle(t)
  PROVE  FInv'
<1>1. CASE ThreadResume(t)
  <2> DEFINE e == th[t].ev
  <2>1. th[t].pc = "woken"
    BY <1>1 DEF ThreadResume
  <2>2. e \in UserEvent /\ th[t].tv \in Timeval /\ th[t].n \in Nat
    BY <2>1, Parts DEF KInv, CallersInv, ThreadLocals
  <2>3. e \in Event /\ e \in Callback /\ base \in BaseFields
    BY <2>2, UserEvents, Parts
  <2>4. /\ hist.finalized[e] = "no" /\ th[t].op # "finalize"
        /\ th[t].op = "active" => ~NoActivations
    BY <2>1, <2>3 DEF FInv, WaitsOK, NoActivations
  <2>5. e = th[t].ev
    OBVIOUS
  <2> HIDE DEF e
  <2>6. CASE DelNow(t, e) /\ th' = Deleted(t, e)
    BY <2>3, <2>4, <2>6, DelNowOrdinary, WaitsAfter, OrdinaryFInv
  <2>7. CASE AddNow(t, e, th[t].tv) /\ th' = [th EXCEPT ![t] = Idle]
    BY <2>2, <2>3, <2>4, <2>7, AddNowOrdinary, WaitsAfter, OrdinaryFInv
  <2>8. CASE /\ th[t].op = "active" /\ ActivateNow(t, e, th[t].n, ev, base)
             /\ th' = [th EXCEPT ![t] = Idle] /\ UNCHANGED loop
    <3>1. Keeps(ev, e) /\ SameTimeouts(ev) /\ NotifiesOnly(base, base)
      BY KeepsSame, NotifiesTwice
    <3>2. Ordinary(e) /\ SameFinalizer
      BY <2>2, <2>3, <2>4, <2>8, <3>1, ActivateNowOrdinary
    <3> QED
      BY <2>3, <2>8, <3>2, WaitsAfter, OrdinaryFInv
  <2> QED
    BY <1>1, <2>4, <2>5, <2>6, <2>7, <2>8 DEF ThreadResume
<1>2. CASE ThreadIdle(t)
  <2>1. UNCHANGED <<q, ev, loop, hist>> /\ th' = [th EXCEPT ![t] = Idle]
    BY <1>2 DEF ThreadIdle
  <2> QED
    BY <2>1, WaitsAfter, NothingFInv DEF SameFinalizer
<1> QED
  BY <1>1, <1>2

\* The loop runs no finalizer where it runs no callback.
LEMMA NoFinalizer ==
  ASSUME IInv, KInv, FInv,
         loop.pc \in {"top", "process", "queue", "after", "select", "timeouts", "activate", "later"}
  PROVE  ~loop.finalizer
<1>1. loop.running = NoCallback
  BY DEF KInv, NotifyInv
<1> QED
  BY <1>1, BaseAssumption DEF FInv

\* The steps of the loop that take no callback and end none keep what it runs.
LEMMA TurnKeeps ==
  ASSUME IInv, KInv, FInv,
         \/ LoopEnter \/ LoopTop \/ LoopDispatch \/ (\E ready : SelectReturn(ready))
         \/ SelectFails \/ LoopRelock \/ LoopUpdateTime \/ LoopTimeoutsDone \/ LoopProcess
         \/ LoopQueueEmpty \/ SignalCount \/ SignalAgain \/ NotifyDrain \/ NotifyDrained
         \/ LoopAfter
  PROVE  SameFinalizer
<1>1. loop \in LoopLocals
  BY NowTypes
<1>2. ASSUME NEW b, LoopExit(b), ~loop.finalizer
      PROVE  SameFinalizer
  BY <1>2 DEF LoopExit, Outside, SameFinalizer
<1>3. ASSUME NEW b, NEW x, NEW l, l = loop \/ l = [loop EXCEPT !.endtime = x], ~loop.finalizer,
             \/ \E n : ProcessDone(b, l, n)
             \/ \E i : ProcessFrom(b, l, i)
             \/ QueueDone(b, l)
      PROVE  SameFinalizer
  <2>1. \/ \E c : LoopExit(c)
        \/ loop' = [l EXCEPT !.pc = "top", !.count = 0, !.endtime = NoTimeval]
        \/ loop' = [l EXCEPT !.pc = "queue", !.count = 0]
    BY <1>3 DEF ProcessDone, ProcessFrom, QueueDone
  <2> QED
    BY <1>1, <1>2, <1>3, <2>1 DEF LoopLocals, SameFinalizer
<1>4. CASE LoopTop
  <2>1. ~loop.finalizer
    BY <1>4, NoFinalizer DEF LoopTop
  <2> QED
    BY <1>1, <1>2, <1>4, <2>1 DEF LoopTop, LoopLocals, SameFinalizer
<1>5. CASE LoopProcess
  <2> DEFINE b == IF MaxDispatchTime = -1 THEN base ELSE update_time_cache(base)
             end == IF MaxDispatchTime = -1 THEN NoTimeval ELSE gettime(b) + MaxDispatchTime
             l == [loop EXCEPT !.endtime = end]
  <2>1. \/ ProcessFrom(b, l, 0)
        \/ LoopExit(base)
        \/ loop' = [loop EXCEPT !.pc = "top"]
    BY <1>5 DEF LoopProcess
  <2>2. ~loop.finalizer
    BY <1>5, NoFinalizer DEF LoopProcess
  <2> HIDE DEF b, end
  <2>3. CASE ProcessFrom(b, l, 0)
    BY <1>3, <2>2, <2>3
  <2> QED
    BY <1>1, <1>2, <2>1, <2>2, <2>3 DEF LoopLocals, SameFinalizer
<1>6. CASE LoopQueueEmpty
  BY <1>3, <1>6, NoFinalizer DEF LoopQueueEmpty
<1>7. CASE LoopAfter
  <2> DEFINE limited == base.event_running_priority >= LimitCallbacksAfterPrio
             timed == limited /\ loop.count > 0 /\ loop.endtime # NoTimeval
             b == IF timed THEN update_time_cache(base) ELSE base
  <2>1. \/ \E n : ProcessDone(base, loop, n)
        \/ \E n : ProcessDone(b, loop, n)
        \/ QueueDone(b, loop)
        \/ loop' = [loop EXCEPT !.pc = "queue"]
    BY <1>7 DEF LoopAfter
  <2>2. ~loop.finalizer
    BY <1>7, NoFinalizer DEF LoopAfter
  <2> HIDE DEF b
  <2> QED
    BY <1>1, <1>3, <2>1, <2>2 DEF LoopLocals, SameFinalizer
<1>8. CASE SelectFails
  BY <1>2, <1>8, NoFinalizer DEF SelectFails
<1>9. CASE LoopEnter
  BY <1>1, <1>9 DEF LoopEnter, LoopLocals, SameFinalizer
<1>10. CASE LoopDispatch \/ LoopRelock \/ LoopUpdateTime \/ LoopTimeoutsDone
  BY <1>1, <1>10 DEF LoopDispatch, LoopRelock, LoopUpdateTime, LoopTimeoutsDone, LoopLocals,
                     SameFinalizer
<1>11. CASE NotifyDrain \/ NotifyDrained \/ SignalCount \/ SignalAgain
  BY <1>1, <1>11, SignalSteps DEF NotifyDrain, NotifyDrained, LoopLocals, SameFinalizer
<1>12. CASE \E ready : SelectReturn(ready)
  BY <1>1, <1>12 DEF SelectReturn, LoopLocals, SameFinalizer
<1> QED
  BY <1>4, <1>5, <1>6, <1>7, <1>8, <1>9, <1>10, <1>11, <1>12

LEMMA TurnFInv ==
  ASSUME IInv, KInv, FInv,
         \/ LoopEnter \/ LoopTop \/ LoopDispatch \/ (\E ready : SelectReturn(ready))
         \/ SelectFails \/ LoopRelock \/ LoopUpdateTime \/ LoopTimeoutsDone \/ LoopProcess
         \/ LoopQueueEmpty \/ SignalCount \/ SignalAgain \/ NotifyDrain \/ NotifyDrained
         \/ LoopAfter
  PROVE  FInv'
<1>1. UNCHANGED <<q, th>> /\ (ev' = ev \/ ev' = SignalCall(loop.running, loop.ncalls))
  BY DEF LoopEnter, LoopTop, LoopDispatch, SelectReturn, SelectFails, LoopRelock, LoopUpdateTime,
         LoopTimeoutsDone, LoopProcess, LoopQueueEmpty, SignalCount, SignalAgain, NotifyDrain,
         NotifyDrained, LoopAfter
<1>2. hist' = hist \/ hist' = [hist EXCEPT !.late = 0]
  BY DEF LoopEnter, LoopTop, LoopDispatch, SelectReturn, SelectFails, LoopRelock, LoopUpdateTime,
         LoopTimeoutsDone, LoopProcess, LoopQueueEmpty, SignalCount, SignalAgain, NotifyDrain,
         NotifyDrained, LoopAfter
<1>3. \A c \in Callback : ev'[c].closure = ev[c].closure
  BY <1>1, NowTypes DEF SignalCall, CallbackFields
<1>4. hist'.finalized = hist.finalized /\ hist'.asked = hist.asked
  BY <1>2, Parts DEF History
<1>5. SameFinalizer
  BY TurnKeeps
<1> QED
  BY <1>1, <1>3, <1>4, <1>5, WaitsAfter, NothingFInv

\* event_queue_make_later_events_active: a finalizer is never in that queue.
LEMMA LaterFInv ==
  ASSUME IInv, FInv, LoopMakeLaterActive
  PROVE  FInv'
<1> DEFINE c == Head(q.active_later_queue)
<1>1. /\ q.active_later_queue # << >> /\ q' = MakeLaterActive(q)
      /\ UNCHANGED <<ev, loop, th, hist>>
  BY DEF LoopMakeLaterActive
<1>2. c \in Callback /\ "ACTIVE_LATER" \in q.flags[c]
  <2>1. /\ q.active_later_queue \in Seq(Callback)
        /\ Lists(q.active_later_queue, With(q, "ACTIVE_LATER"))
    BY NowTypes DEF Queues, Good, QueuesOK, LaterListed
  <2>2. c \in With(q, "ACTIVE_LATER")
    BY <1>1, <2>1, TailLists
  <2> QED
    BY <2>2 DEF With
<1>3. q'.flags = [q.flags EXCEPT ![c] = (q.flags[c] \ {"ACTIVE_LATER"}) \cup {"ACTIVE"}]
  BY <1>1, <1>2, NowTypes DEF MakeLaterActive, Queues
<1> HIDE DEF c
<1>4. hist.finalized[c] = "no"
  BY <1>2, NotFinalized
<1>5. q.flags[c] \cap Registration # {}
  BY <1>2 DEF Registration
<1>6. \A d \in Callback \ {c} : q'.flags[d] = q.flags[d]
  BY <1>3, NowTypes
<1>7. Ordinary(c)
  BY <1>1, <1>4, <1>5, <1>6 DEF Ordinary, Final
<1> QED
  BY <1>1, <1>2, <1>7, WaitsAfter, OrdinaryFInv DEF SameFinalizer

\* A registered callback that is not finalized is activated by the loop.
LEMMA LoopOrdinary ==
  ASSUME IInv, FInv, NEW e \in Event, hist.finalized[e] = "no",
         q.flags[e] \cap Registration # {}, Keeps(ev', e),
         \A d \in Callback \ {e} : q'.flags[d] = q.flags[d],
         UNCHANGED <<th, hist>>, SameFinalizer
  PROVE  FInv'
<1>1. e \in Callback
  BY UserEvents
<1>2. Ordinary(e)
  BY DEF Ordinary, Keeps, Final
<1> QED
  BY <1>1, <1>2, WaitsAfter, OrdinaryFInv

\* event_callback_activate_nolock_ leaves the flags of the other callbacks.
LEMMA ActivateOthers ==
  ASSUME NEW s, Good(s), NEW c \in Callback
  PROVE  \A d \in Callback \ {c} : event_callback_activate_nolock_(s, c).flags[d] = s.flags[d]
<1> DEFINE r == event_callback_activate_nolock_(s, c)
           F == (s.flags[c] \ {"ACTIVE_LATER"}) \cup {"ACTIVE"}
<1>1. r.flags = [s.flags EXCEPT ![c] = F] /\ s.flags \in [Callback -> SUBSET Flag]
  BY ActivateEffect, GoodFields
<1> HIDE DEF r, F
<1>2. \A d \in Callback \ {c} : r.flags[d] = s.flags[d]
  BY <1>1
<1> QED
  BY <1>2 DEF r

\* evmap_io_active_
LEMMA ActivateFInv ==
  ASSUME IInv, FInv, NEW e \in Event, LoopActivate(e)
  PROVE  FInv'
<1>1. e \in Callback /\ Good(q) /\ q.flags \in [Callback -> SUBSET Flag]
  BY UserEvents, NowTypes
<1>2. /\ UNCHANGED <<th, hist>>
      /\ \/ /\ "INSERTED" \in q.flags[e]
            /\ ev' = ActiveResult(q, e, {"EV_READ"})
            /\ q' = event_callback_activate_nolock_(q, e)
         \/ UNCHANGED <<q, ev>>
  BY DEF LoopActivate
<1>3. SameFinalizer
  BY NowTypes DEF LoopActivate, LoopLocals, SameFinalizer
<1>4. CASE UNCHANGED <<q, ev>>
  BY <1>2, <1>3, <1>4, WaitsAfter, NothingFInv
<1>5. CASE /\ "INSERTED" \in q.flags[e]
           /\ ev' = ActiveResult(q, e, {"EV_READ"})
           /\ q' = event_callback_activate_nolock_(q, e)
  <2>1. {"EV_READ"} \in SUBSET Result /\ NoTimeval \in Timeval
    BY DEF Result, Timeval
  <2>2. Keeps(ev', e)
    BY <1>1, <1>5, <2>1, FieldsEffect
  <2>3. \A d \in Callback \ {e} : q'.flags[d] = q.flags[d]
    BY <1>1, <1>5, ActivateOthers
  <2>4. hist.finalized[e] = "no" /\ q.flags[e] \cap Registration # {}
    BY <1>1, <1>5, NotFinalized DEF Registration
  <2> QED
    BY <1>2, <1>3, <2>2, <2>3, <2>4, LoopOrdinary
<1> QED
  BY <1>2, <1>4, <1>5

\* timeout_process
LEMMA TimeoutFInv ==
  ASSUME IInv, FInv, NEW e \in Event, LoopTimeout(e)
  PROVE  FInv'
<1> DEFINE s == event_del_nolock_(q, e)
           v == ActiveResult(s, e, {"EV_TIMEOUT"})
<1>1. e \in Callback /\ Good(q) /\ q.flags \in [Callback -> SUBSET Flag]
  BY UserEvents, NowTypes
<1>2. /\ e \in q.timeheap /\ UNCHANGED <<th, hist>>
      /\ q' = s \/ q' = event_callback_activate_nolock_(s, e)
      /\ ev' = ActiveCalls(v, e, 1)
      /\ loop' \in AbortLoop(e)
  BY DEF LoopTimeout, Earliest
<1>3. "TIMEOUT" \in q.flags[e]
  BY <1>1, <1>2, GoodFields DEF With
<1>4. Keeps(ev', e)
  <2>1. {"EV_TIMEOUT"} \in SUBSET Result /\ NoTimeval \in Timeval
    BY DEF Result, Timeval
  <2> QED
    BY <1>1, <1>2, <2>1, FieldsEffect
<1>5. Good(s) /\ s.flags = [q.flags EXCEPT ![e] = q.flags[e] \ Registration]
  BY <1>1, DelGood, DelEffect DEF Lowers
<1> HIDE DEF s, v
<1>6. \A d \in Callback \ {e} : q'.flags[d] = q.flags[d]
  <2>1. \A d \in Callback \ {e} : q'.flags[d] = s.flags[d]
    BY <1>1, <1>2, <1>5, ActivateOthers
  <2> QED
    BY <1>1, <1>5, <2>1
<1>7. SameFinalizer
  BY <1>2, NowTypes DEF AbortLoop, LoopLocals, SameFinalizer
<1>8. hist.finalized[e] = "no" /\ q.flags[e] \cap Registration # {}
  BY <1>1, <1>3, NotFinalized DEF Registration
<1> QED
  BY <1>2, <1>4, <1>6, <1>7, <1>8, LoopOrdinary

\* What the history tells of the application's wishes when a callback starts
LEMMA StartedAsked ==
  ASSUME IInv, NEW c \in Callback
  PROVE  /\ Started(c).finalized = hist.finalized
         /\ \A e \in Event : Started(c).asked[e] = hist.asked[e] \/ (e = c /\ c \notin Persist)
  BY Parts DEF Started, History

\* The run of a callback: a finalizer keeps nothing but EVLIST_FINALIZING.
LEMMA RunFInv ==
  ASSUME IInv, KInv, FInv, LoopRun
  PROVE  FInv'
<1>1. PICK c \in Callback : Runs(c)
  BY RunEffect
<1>2. ~loop.finalizer
  BY RunEffect, NoFinalizer
<1>3. /\ "ACTIVE" \in q.flags[c] /\ q.flags \in [Callback -> SUBSET Flag]
      /\ \A d \in Callback : ev'[d].closure = ev[d].closure
      /\ loop'.running = c /\ (loop'.finalizer <=> Final(ev, c)) /\ UNCHANGED th
  BY <1>1, NowTypes DEF Runs
<1>4. /\ hist'.finalized = hist.finalized
      /\ \A e \in Event : hist'.asked[e] = hist.asked[e] \/ (e = c /\ c \notin Persist)
  BY <1>1, StartedAsked DEF Runs
<1>5. PICK F : /\ Taken(c).flags = [q.flags EXCEPT ![c] = F]
               /\ F \subseteq q.flags[c] \ {"ACTIVE"}
               /\ c \notin Persist /\ "FINALIZING" \notin q.flags[c] /\ c # NotifyEv =>
                    F \cap Registration = {}
  BY <1>3, TakenEffect
<1>6. \A d \in Callback \ {c} : q'.flags[d] = q.flags[d]
  <2>1. CASE Rescheduled(c)
    <3>1. Lowers(Taken(c), q', c, q'.flags[c])
      BY <1>1, <1>3, <2>1, TakenEffect, AddEffect DEF Runs, Rescheduled
    <3> QED
      BY <1>3, <1>5, <3>1 DEF Lowers
  <2>2. CASE ~Rescheduled(c)
    <3>1. q' = Taken(c)
      BY <1>1, <2>2 DEF Runs
    <3> QED
      BY <1>3, <1>5, <3>1
  <2> QED
    BY <2>1, <2>2
<1>7. FinalOK(c) /\ ~RunsFinalizer(c) /\ (c # NotifyEv => Sound(q, ev, hist, c))
  BY <1>2 DEF FInv, RunsFinalizer, KInv, ArmedInv
<1>8. CASE hist.finalized[c] = "no"
  <2>1. ~Final(ev, c) /\ ~loop'.finalizer
    BY <1>3, <1>7, <1>8 DEF FinalOK
  <2>2. ASSUME c \in UserEvent, q'.flags[c] \cap Registration # {}
        PROVE  q.flags[c] \cap Registration # {} /\ hist'.asked[c] = hist.asked[c]
    <3>1. c # NotifyEv /\ c \in Event
      BY <2>2, UserEvents
    <3>2. CASE c \in Persist
      BY <1>3, <1>4, <3>1, <3>2 DEF Registration
    <3>3. CASE c \notin Persist
      <4>1. F \cap Registration = {}
        BY <1>5, <1>7, <2>1, <3>1, <3>3 DEF Sound
      <4>2. ~Rescheduled(c)
        BY <1>7, <3>1, <3>3 DEF Sound, Rescheduled
      <4>3. q' = Taken(c)
        BY <1>1, <4>2 DEF Runs
      <4> QED
        BY <1>3, <1>5, <2>2, <4>1, <4>3
    <3> QED
      BY <3>2, <3>3
  <2>3. \A e \in UserEvent \ {c} : hist'.asked[e] = hist.asked[e]
    BY <1>4, UserEvents
  <2>4. \A d \in Callback \ {c} : ev'[d] = ev[d]
    BY <1>1 DEF Runs
  <2>5. Ordinary(c)
    BY <1>3, <1>4, <1>6, <1>8, <2>1, <2>2, <2>3, <2>4 DEF Ordinary, Final
  <2> QED
    BY <1>2, <1>3, <2>1, <2>5, WaitsAfter, OrdinaryFInv DEF SameFinalizer
<1>9. CASE hist.finalized[c] = "asked"
  <2>1. Final(ev, c) /\ q.flags[c] = {"FINALIZING", "ACTIVE"}
    BY <1>7, <1>9 DEF FinalOK
  <2>2. q' = event_queue_remove_active(q, c)
    BY <1>1, <2>1 DEF Runs, Rescheduled, Final, Taken
  <2>3. q'.flags[c] = {"FINALIZING"}
    <3>1. Lowers(q, event_queue_remove_active(q, c), c, q.flags[c] \ {"ACTIVE"})
      BY NowTypes, RemoveEffect
    <3> QED
      BY <1>3, <2>1, <2>2, <3>1 DEF Lowers
  <2>4. ASSUME NEW d \in Callback
        PROVE  FinalOK(d)'
    <3>1. CASE d = c
      BY <1>3, <1>4, <1>9, <2>1, <2>3, <3>1 DEF FinalOK, Final, RunsFinalizer
    <3>2. CASE d # c
      <4>1. FinalOK(d) /\ ~RunsFinalizer(d) /\ ~RunsFinalizer(d)'
        BY <1>2, <1>3, <3>2 DEF FInv, RunsFinalizer
      <4> QED
        BY <1>3, <1>4, <1>6, <3>2, <4>1 DEF FinalOK, Final
    <3> QED
      BY <3>1, <3>2
  <2>5. NoActivations => PendingInv'
    <3> SUFFICES ASSUME NoActivations, NEW e \in UserEvent, q'.flags[e] \cap Registration # {},
                        e # c
                 PROVE  hist'.asked[e] # "no" \/ hist'.finalized[e] # "no"
      BY <1>4, <1>9 DEF PendingInv
    <3>1. e \in Callback /\ e \in Event
      BY UserEvents
    <3> QED
      BY <1>4, <1>6, <3>1 DEF FInv, PendingInv
  <2>6. WaitsOK'
    BY <1>3, WaitsAfter
  <2> QED
    BY <1>3, <1>4, <2>4, <2>5, <2>6 DEF FInv
<1>10. CASE hist.finalized[c] = "done"
  BY <1>3, <1>7, <1>10 DEF FinalOK
<1> QED
  BY <1>7, <1>8, <1>9, <1>10 DEF FinalOK

\* The end of a callback: a finalizer is done.
LEMMA ReturnFInv ==
  ASSUME IInv, FInv, LoopReturn
  PROVE  FInv'
<1> DEFINE c == loop.running
<1>1. /\ loop \in LoopLocals /\ ev \in [Callback -> CallbackFields]
      /\ th \in [Thread -> ThreadLocals] /\ hist \in History
  BY NowTypes, Parts
<1>2. /\ q' = q
      /\ ev' = IF loop.ncalls > 0 THEN [ev EXCEPT ![c].pncalls = FALSE] ELSE ev
      /\ hist' = IF ~loop.finalizer THEN hist
                 ELSE [hist EXCEPT !.finalized[c] = IF @ = "asked" THEN "done" ELSE "twice"]
      /\ th' = th \/ th' = Woken(CondWaiters)
  BY DEF LoopReturn, EVTHREAD_COND_BROADCAST
<1>3. \A d \in Callback : ev'[d].closure = ev[d].closure
  BY <1>1, <1>2 DEF CallbackFields
<1>4. ~loop'.finalizer
  BY <1>1 DEF LoopReturn, LoopLocals
<1>5. WaitsOK'
  <2>1. ThreadsStay
    BY <1>1, <1>2 DEF Woken, CondWaiters, ThreadLocals, ThreadsStay
  <2> QED
    BY <2>1, WaitsStay DEF FInv
<1>6. CASE ~loop.finalizer
  BY <1>2, <1>3, <1>4, <1>5, <1>6, NothingFInv DEF SameFinalizer
<1>7. CASE loop.finalizer
  <2>1. c \in Callback /\ RunsFinalizer(c) /\ FinalOK(c)
    BY <1>7 DEF FInv, RunsFinalizer
  <2>2. hist.finalized[c] = "asked" /\ q.flags[c] = {"FINALIZING"} /\ Final(ev, c)
    BY <2>1 DEF FinalOK
  <2>3. /\ hist.finalized \in [Callback -> {"no", "asked", "done", "twice"}]
        /\ hist'.finalized = [hist.finalized EXCEPT ![c] = "done"] /\ hist'.asked = hist.asked
    BY <1>1, <1>2, <1>7, <2>1, <2>2 DEF History
  <2> HIDE DEF c
  <2>4. /\ hist'.finalized[c] = "done"
        /\ \A d \in Callback \ {c} : hist'.finalized[d] = hist.finalized[d]
    BY <2>1, <2>3
  <2>5. ASSUME NEW d \in Callback
        PROVE  FinalOK(d)'
    <3>1. CASE d = c
      BY <1>2, <1>3, <1>4, <2>1, <2>2, <2>4, <3>1 DEF FinalOK, Final, RunsFinalizer
    <3>2. CASE d # c
      <4>1. FinalOK(d) /\ ~RunsFinalizer(d) /\ ~RunsFinalizer(d)'
        BY <1>4, <2>1, <3>2 DEF FInv, RunsFinalizer
      <4> QED
        BY <1>2, <1>3, <2>4, <3>2, <4>1 DEF FinalOK, Final
    <3> QED
      BY <3>1, <3>2
  <2>6. \A e \in Event : hist'.finalized[e] # "no" => "event_finalize" \in Calls
    BY <2>2, <2>4, UserEvents DEF FInv
  <2>7. NoActivations => PendingInv'
    BY <1>2, <2>3, <2>4, UserEvents DEF FInv, PendingInv
  <2> QED
    BY <1>4, <1>5, <2>5, <2>6, <2>7 DEF FInv
<1> QED
  BY <1>6, <1>7

\* Every step keeps the flags of the finalizers.
LEMMA NextFInv ==
  ASSUME FinalizesByTheBook, IInv, KInv, FInv, [Next]_vars
  PROVE  FInv'
<1>1. CASE \E a \in Actor : Api(a)
  BY <1>1, ApiFInv
<1>2. CASE \E t \in Thread : ThreadResume(t) \/ ThreadIdle(t)
  BY <1>2, ThreadFInv
<1>3. ASSUME NEW e \in Event, LoopActivate(e) \/ LoopTimeout(e)
      PROVE  FInv'
  BY <1>3, ActivateFInv, TimeoutFInv
<1>4. CASE LoopStep \/ FdsReady \/ SelectFails \/ LoopEnter
  BY <1>3, <1>4, TurnFInv, LaterFInv, RunFInv, ReturnFInv DEF LoopStep, FdsReady
<1>5. CASE Tick \/ UNCHANGED vars
  <2>1. UNCHANGED <<q, ev, loop, th, hist>>
    BY <1>5 DEF Tick, vars
  <2> QED
    BY <2>1, WaitsAfter, NothingFInv DEF SameFinalizer
<1> QED
  BY <1>1, <1>2, <1>4, <1>5 DEF Next

LEMMA Finalizers ==
  ASSUME FinalizesByTheBook
  PROVE  Spec => [](IInv /\ KInv /\ FInv)
<1>1. IInv /\ KInv /\ FInv /\ [Next]_vars => FInv'
  BY NextFInv
<1> QED
  BY <1>1, InitFInv, Invariants, PTL DEF Spec

\* event_finalize, event_callback_finalize_: a finalizer that was asked for stays on its queue
\* until it runs, whatever the threads and the callbacks call meanwhile.
THEOREM FinalizersAlwaysRun ==
  ASSUME FinalizesByTheBook
  PROVE  Spec => []FinalizerWillRun
<1>1. FInv => FinalizerWillRun
  <2> SUFFICES ASSUME FInv, NEW c \in Callback, hist.finalized[c] = "asked"
               PROVE  {"ACTIVE", "FINALIZING"} \subseteq q.flags[c] \/ RunsFinalizer(c)
    BY DEF FinalizerWillRun, RunsFinalizer
  <2>1. FinalOK(c)
    BY DEF FInv
  <2> QED
    BY <2>1 DEF FinalOK
<1> QED
  BY <1>1, Finalizers, PTL

\* event_process_active_single_queue: a finalizer runs once, on a callback that is marked, and
\* when it has, nothing of the callback is left in the base, so that its memory can be released.
THEOREM FinalizedIsAlwaysGone ==
  ASSUME FinalizesByTheBook
  PROVE  Spec => []FinalizedIsGone
<1>1. FInv => FinalizedIsGone
  <2> SUFFICES ASSUME FInv
               PROVE  FinalizedIsGone
    OBVIOUS
  <2>1. \A c \in Callback : FinalOK(c)
    BY DEF FInv
  <2>2. loop.finalizer => "FINALIZING" \in q.flags[loop.running]
    <3> SUFFICES ASSUME loop.finalizer
                 PROVE  "FINALIZING" \in q.flags[loop.running]
      OBVIOUS
    <3>1. loop.running \in Callback /\ RunsFinalizer(loop.running)
      BY DEF FInv, RunsFinalizer
    <3> QED
      BY <2>1, <3>1 DEF FinalOK
  <2> QED
    BY <2>1, <2>2 DEF FinalizedIsGone, FinalOK
<1> QED
  BY <1>1, Finalizers, PTL

\* event_persist_closure, event_del: where nobody calls event_active, an event is in the backend
\* or in the heap only if it was added after its last deletion: the re-scheduling of a persistent
\* event does not undo a deletion that races with it.
THEOREM PendingIsAlwaysAdded ==
  ASSUME FinalizesByTheBook, NoActivations
  PROVE  Spec => []PendingOnlyIfAdded
<1>1. FInv => PendingOnlyIfAdded
  <2> SUFFICES ASSUME FInv, NEW e \in UserEvent, q.flags[e] \cap {"INSERTED", "TIMEOUT"} # {}
               PROVE  hist.asked[e] # "no"
    BY DEF PendingOnlyIfAdded
  <2>1. e \in Callback
    BY UserEvents
  <2>2. hist.finalized[e] = "no"
    BY <2>1, NotFinalized
  <2>3. q.flags[e] \cap Registration # {}
    BY DEF Registration
  <2> QED
    BY <2>2, <2>3 DEF FInv, PendingInv
<1> QED
  BY <1>1, Finalizers, PTL

-----------------------------------------------------------------------------
(* The order of the callbacks.                                             *)

\* What the code does not interrupt the queue it works on for, or interrupts it without a need:
\* deferred callbacks, which are the least urgent then; event_base_loopcontinue of another
\* thread, which may come when only internal events have run; and event_active, when it has
\* waited for the callback of a signal event and goes on.
UrgentInterrupts ==
  /\ \A c \in Deferred, d \in Callback : Priority[d] <= Priority[c]
  /\ "event_base_loopcontinue" \notin ThreadApi
  /\ {"event_active", "event_finalize"} \cap ThreadApi # {} =>
       \A e \in UserEvent : Kind[e] # "signal"

\* event_process_active is under way.
Processing == {"queue", "count", "callback", "drain", "return", "after"}

\* A callback is active that is more urgent than the queue that is worked on.
Urgent == \E c \in Callback : "ACTIVE" \in q.flags[c] /\ Priority[c] < base.event_running_priority

\* The queue is left if there is one more urgent.
UrgentInv == loop.pc \in Processing /\ Urgent => base.event_continue

\* The queue is that of the callback that runs, which is counted unless it is internal.
QueueInv ==
  loop.pc \in {"count", "callback", "drain", "return"} =>
    /\ Priority[loop.running] = base.event_running_priority
    /\ loop.running \in Internal \/ loop.count > 0

\* The queue is left only when a callback has been counted, and before the next one.
ContinueInv ==
  /\ base.event_continue => loop.pc \notin {"later", "select", "selected", "activate",
                                            "timeouts", "process", "queue"}
  /\ base.event_continue /\ loop.pc \in Processing => loop.count > 0
  /\ loop.pc \notin Processing => base.event_running_priority = -1

\* No thread waits to activate an event.
NoneActivates == \A t \in Thread : th[t].op \notin {"active", "finalize"}

OInv == UrgentInv /\ QueueInv /\ ContinueInv /\ NoneActivates

\* The bases b and n agree in what decides on the next queue.
SameTurn(b, n) ==
  /\ n.event_running_priority = b.event_running_priority
  /\ n.event_continue = b.event_continue

\* n sets event_continue in b, if callback c is more urgent.
Interrupts(b, n, c) ==
  /\ n.event_running_priority = b.event_running_priority
  /\ n.event_continue = (b.event_continue \/ Priority[c] < b.event_running_priority)

LEMMA TurnBases ==
  ASSUME NEW b \in BaseFields, NEW a, NEW e
  PROVE  /\ SameTurn(b, b)
         /\ SameTurn(b, evthread_notify_base(b, a))
         /\ SameTurn(b, DelNotifies(e, b, a))
         /\ \A s, tv, v : SameTurn(b, AddNotifies(s, e, tv, v, b, a))
         /\ SameTurn(b, Waiting(b))
         /\ SameTurn(b, clear_time_cache(b))
         /\ SameTurn(b, update_time_cache(b))
         /\ Interrupts(b, ActiveContinue(b, e), e)
<1>1. SameTurn(b, b) /\ SameTurn(b, evthread_notify_base(b, a))
  BY DEF BaseFields, SameTurn, evthread_notify_base
<1>2. SameTurn(b, DelNotifies(e, b, a))
      /\ \A s, tv, v : SameTurn(b, AddNotifies(s, e, tv, v, b, a))
  BY <1>1 DEF DelNotifies, AddNotifies
<1>3. SameTurn(b, Waiting(b)) /\ SameTurn(b, clear_time_cache(b))
      /\ SameTurn(b, update_time_cache(b))
  BY DEF BaseFields, SameTurn, Waiting, clear_time_cache, update_time_cache
<1>4. Interrupts(b, ActiveContinue(b, e), e)
  BY DEF BaseFields, Interrupts, ActiveContinue
<1> QED
  BY <1>1, <1>2, <1>3, <1>4

LEMMA TurnTwice ==
  ASSUME NEW b, NEW n, NEW m, NEW c
  PROVE  /\ SameTurn(b, n) /\ SameTurn(n, m) => SameTurn(b, m)
         /\ SameTurn(b, n) /\ Interrupts(n, m, c) => Interrupts(b, m, c)
         /\ Interrupts(b, n, c) /\ SameTurn(n, m) => Interrupts(b, m, c)
  BY DEF SameTurn, Interrupts

\* The step does not make c active, or lets it interrupt the queue that is worked on.
Polite(c) ==
  \/ /\ SameTurn(base, base')
     /\ "ACTIVE" \in q'.flags[c] => "ACTIVE" \in q.flags[c] \/ c \in Deferred
  \/ Interrupts(base, base', c)

\* Where the priorities are
LEMMA PriorityTypes ==
  /\ Priority \in [Callback -> Nat] /\ Priorities \subseteq Nat
  /\ \A c \in Internal : Priority[c] = 0
  /\ UserEvent \cap Internal = {} /\ Deferred \cap Internal = {}
  BY QueuesAssumption, BaseAssumption DEF Priorities, UserEvent

\* A polite call about one callback keeps the order.
LEMMA PoliteOInv ==
  ASSUME UrgentInterrupts, IInv, OInv, NEW a, NEW c \in Callback, Effect(a, c), Polite(c),
         LockFree, NoneActivates'
  PROVE  OInv'
<1> DEFINE rp == base.event_running_priority
<1>1. /\ loop'.pc = loop.pc /\ loop'.running = loop.running /\ loop'.count = loop.count
      /\ base'.event_running_priority = rp
      /\ base.event_continue \in BOOLEAN /\ rp \in Int
  BY Parts, PriorityTypes DEF Effect, LoopLocals, Polite, SameTurn, Interrupts, BaseFields
<1>2. /\ loop.pc \in Processing => loop.pc \in {"count", "callback", "drain", "return"}
      /\ loop.pc \in {"count", "callback", "drain", "return"} =>
           loop.running \in Callback /\ rp \in Nat /\ rp = Priority[loop.running]
  BY PriorityTypes DEF LockFree, Processing, OInv, QueueInv, IInv, Located
<1>3. base.event_continue => base'.event_continue
  BY DEF Polite, SameTurn, Interrupts
<1>4. UrgentInv'
  <2> SUFFICES ASSUME loop.pc \in Processing, NEW d \in Callback, "ACTIVE" \in q'.flags[d],
                      Priority[d] < rp
               PROVE  base'.event_continue
    BY <1>1 DEF UrgentInv, Urgent
  <2>1. CASE "ACTIVE" \in q.flags[d]
    BY <1>3, <2>1 DEF OInv, UrgentInv, Urgent
  <2>2. CASE "ACTIVE" \notin q.flags[d]
    <3>1. d = c
      BY <2>2 DEF Effect, About
    <3>2. d \notin Deferred
      BY <1>2, PriorityTypes DEF UrgentInterrupts
    <3> QED
      BY <2>2, <3>1, <3>2 DEF Polite, Interrupts
  <2> QED
    BY <2>1, <2>2
<1>5. QueueInv'
  BY <1>1 DEF OInv, QueueInv
<1>6. ContinueInv'
  <2>1. CASE base'.event_continue = base.event_continue
    BY <1>1, <2>1 DEF OInv, ContinueInv
  <2>2. CASE base'.event_continue /\ Priority[c] < rp
    <3>1. rp > 0 /\ rp # -1
      BY <1>1, <2>2, PriorityTypes
    <3>2. loop.pc \in Processing
      BY <3>1 DEF OInv, ContinueInv
    <3>3. loop.running \notin Internal
      BY <1>2, <3>1, <3>2, PriorityTypes
    <3> QED
      BY <1>1, <1>2, <3>2, <3>3 DEF OInv, QueueInv, ContinueInv, Processing
  <2> QED
    BY <1>1, <2>1, <2>2 DEF Polite, SameTurn, Interrupts
<1> QED
  BY <1>4, <1>5, <1>6 DEF OInv

\* The threads that begin to wait do so in event_add or event_del.
LEMMA NoneActivatesStep ==
  ASSUME IInv, OInv
  PROVE  /\ UNCHANGED th => NoneActivates'
         /\ \A t : th' = [th EXCEPT ![t] = Idle] => NoneActivates'
         /\ \A t, e : th' = Deleted(t, e) => NoneActivates'
         /\ \A t, op, e, tv, n :
              CondWait(t, op, e, tv, n) /\ (t \in Thread => op \in {"add", "del"})
                => NoneActivates'
<1>1. th \in [Thread -> ThreadLocals] /\ NoneActivates
  BY Parts DEF OInv
<1>2. UNCHANGED th => NoneActivates'
  BY <1>1 DEF NoneActivates
<1>3. ASSUME NEW t, th' = [th EXCEPT ![t] = Idle]
      PROVE  NoneActivates'
  BY <1>1, <1>3 DEF NoneActivates, Idle
<1>4. ASSUME NEW t, NEW e, th' = Deleted(t, e)
      PROVE  NoneActivates'
  BY <1>1, <1>4 DEF NoneActivates, Deleted, Idle
<1>5. ASSUME NEW t, NEW op, NEW e, NEW tv, NEW n, CondWait(t, op, e, tv, n),
             t \in Thread => op \in {"add", "del"}
      PROVE  NoneActivates'
  BY <1>1, <1>5 DEF NoneActivates, CondWait
<1> QED
  BY <1>2, <1>3, <1>4, <1>5

\* Nothing becomes active in event_add_nolock_ and event_del_nolock_.
LEMMA NoneActive ==
  ASSUME IInv, NEW e \in Event
  PROVE  /\ "ACTIVE" \in event_del_nolock_(q, e).flags[e] => "ACTIVE" \in q.flags[e]
         /\ \A tv : "ACTIVE" \in event_add_nolock_(q, e, tv).flags[e] => "ACTIVE" \in q.flags[e]
<1>1. /\ Good(q) /\ e \in Callback /\ q.flags \in [Callback -> SUBSET Flag]
  BY Parts, GoodFields
<1>2. event_del_nolock_(q, e).flags = [q.flags EXCEPT ![e] = q.flags[e] \ Registration]
  BY <1>1, DelEffect DEF Lowers
<1>3. \A tv : event_add_nolock_(q, e, tv).flags[e] \subseteq q.flags[e] \cup {"INSERTED", "TIMEOUT"}
  BY <1>1, AddEffect
<1> QED
  BY <1>1, <1>2, <1>3

\* event_add, event_del, with and without a wait
LEMMA AddDelPolite ==
  ASSUME IInv, NEW a, NEW e \in Event,
         \/ \E tv : AddNow(a, e, tv)
         \/ DelNow(a, e)
         \/ UNCHANGED q /\ base' = Waiting(base)
  PROVE  Polite(e)
<1>1. base \in BaseFields
  BY Parts
<1>2. SameTurn(base, base')
  BY <1>1, TurnBases DEF AddNow, DelNow
<1>3. "ACTIVE" \in q'.flags[e] => "ACTIVE" \in q.flags[e]
  BY NoneActive DEF AddNow, DelNow
<1> QED
  BY <1>2, <1>3 DEF Polite

\* The part of event_active_nolock_ after the wait, if there is none
LEMMA ActivatePolite ==
  ASSUME IInv, NEW a, NEW e \in Callback, NEW n, NEW v, NEW b \in BaseFields,
         Interrupts(base, b, e), ActivateNow(a, e, n, v, b)
  PROVE  Polite(e)
<1>1. SameTurn(b, base')
  BY TurnBases DEF ActivateNow
<1> QED
  BY <1>1, TurnTwice DEF Polite

LEMMA AddOInv ==
  ASSUME UrgentInterrupts, IInv, OInv, NEW a, NEW e \in UserEvent, NEW tv \in Timeval,
         event_add(a, e, tv)
  PROVE  OInv'
<1>1. e \in Event /\ e \in Callback /\ LockFree
  BY UserEvents DEF event_add, CanCall
<1>2. \/ CondWait(a, "add", e, tv, 0) /\ UNCHANGED q /\ base' = Waiting(base)
      \/ AddNow(a, e, tv) /\ UNCHANGED th
  BY DEF event_add
<1>3. Polite(e)
  BY <1>1, <1>2, AddDelPolite
<1>4. NoneActivates'
  BY <1>2, NoneActivatesStep
<1> QED
  BY <1>1, <1>3, <1>4, AddEffects, PoliteOInv

LEMMA RemoveTimerOInv ==
  ASSUME UrgentInterrupts, IInv, OInv, NEW a, NEW e \in UserEvent, event_remove_timer(a, e)
  PROVE  OInv'
<1>1. e \in Event /\ e \in Callback /\ LockFree
  BY UserEvents DEF event_remove_timer, CanCall
<1>2. q' = event_queue_remove_timeout(q, e) /\ UNCHANGED <<base, th>>
  BY DEF event_remove_timer
<1>3. Good(q) /\ q.flags \in [Callback -> SUBSET Flag] /\ base \in BaseFields
  BY Parts, GoodFields
<1>4. q'.flags = [q.flags EXCEPT ![e] = q.flags[e] \ {"TIMEOUT"}]
  BY <1>1, <1>2, <1>3, RemoveEffect DEF Lowers
<1>5. SameTurn(base, base')
  BY <1>2 DEF SameTurn
<1>6. Polite(e)
  BY <1>1, <1>3, <1>4, <1>5 DEF Polite
<1> QED
  BY <1>1, <1>2, <1>6, NoneActivatesStep, RemoveTimerEffects, PoliteOInv

LEMMA DelOInv ==
  ASSUME UrgentInterrupts, IInv, OInv, NEW a, NEW e \in UserEvent, NEW f, event_del(a, e, f)
  PROVE  OInv'
<1>1. e \in Event /\ e \in Callback /\ LockFree
  BY UserEvents DEF event_del, CanCall
<1>2. \/ CondWait(a, "del", e, NoTimeval, 0) /\ UNCHANGED q /\ base' = Waiting(base)
      \/ DelNow(a, e) /\ (UNCHANGED th \/ th' = Deleted(a, e))
  BY DEF event_del
<1>3. Polite(e)
  BY <1>1, <1>2, AddDelPolite
<1>4. NoneActivates'
  BY <1>2, NoneActivatesStep
<1> QED
  BY <1>1, <1>3, <1>4, DelEffects, PoliteOInv

LEMMA ActiveOInv ==
  ASSUME UrgentInterrupts, IInv, OInv, NEW a, NEW e \in UserEvent, NEW n \in Nat,
         event_active(a, e, n)
  PROVE  OInv'
<1> DEFINE v == ActiveResult(q, e, IF Kind[e] = "signal" THEN {"EV_SIGNAL"} ELSE {"EV_READ"})
           b == ActiveContinue(base, e)
<1>1. /\ e \in Callback /\ base \in BaseFields /\ LockFree
      /\ a \in Thread /\ a # LoopThread => "event_active" \in ThreadApi
  BY UserEvents, Parts DEF event_active, CanCall
<1>2. b \in BaseFields /\ Interrupts(base, b, e)
  BY <1>1, NotifyEffect, TurnBases
<1>3. \/ UNCHANGED <<q, base, th>>
      \/ /\ CondWait(a, "active", e, NoTimeval, n) /\ Kind[e] = "signal"
         /\ base' = Waiting(b) /\ UNCHANGED q
      \/ ActivateNow(a, e, n, v, b) /\ UNCHANGED th
  BY DEF event_active
<1> HIDE DEF v, b
<1>4. CASE UNCHANGED <<q, base, th>>
  <2>1. Polite(e)
    BY <1>4 DEF Polite, SameTurn
  <2> QED
    BY <1>1, <1>4, <2>1, NoneActivatesStep, ActiveEffects, PoliteOInv
<1>5. CASE /\ CondWait(a, "active", e, NoTimeval, n) /\ Kind[e] = "signal"
           /\ base' = Waiting(b) /\ UNCHANGED q
  <2>1. Polite(e)
    BY <1>2, <1>5, TurnBases, TurnTwice DEF Polite
  <2>2. a \notin Thread
    BY <1>1, <1>5, BaseAssumption DEF UrgentInterrupts
  <2>3. NoneActivates'
    BY <1>5, <2>2, NoneActivatesStep
  <2> QED
    BY <1>1, <2>1, <2>3, ActiveEffects, PoliteOInv
<1>6. CASE ActivateNow(a, e, n, v, b) /\ UNCHANGED th
  <2>1. Polite(e)
    BY <1>1, <1>2, <1>6, ActivatePolite
  <2> QED
    BY <1>1, <1>6, <2>1, NoneActivatesStep, ActiveEffects, PoliteOInv
<1> QED
  BY <1>3, <1>4, <1>5, <1>6

LEMMA ActiveLaterOInv ==
  ASSUME UrgentInterrupts, IInv, OInv, NEW a, NEW e \in UserEvent, event_active_later_(a, e)
  PROVE  OInv'
<1>1. /\ e \in Event /\ e \in Callback /\ LockFree /\ base \in BaseFields
      /\ Good(q) /\ q.flags \in [Callback -> SUBSET Flag]
  BY UserEvents, Parts, GoodFields DEF event_active_later_, CanCall
<1>2. /\ q' = event_queue_insert_active_later(q, e)
      /\ base' \in {base, evthread_notify_base(base, a)} /\ UNCHANGED th
  BY DEF event_active_later_
<1>3. q' = q \/ q'.flags = [q.flags EXCEPT ![e] = q.flags[e] \cup {"ACTIVE_LATER"}]
  BY <1>1, <1>2, InsertEffect
<1>4. "ACTIVE" \in q'.flags[e] => "ACTIVE" \in q.flags[e]
  BY <1>1, <1>3
<1>5. Polite(e)
  BY <1>1, <1>2, <1>4, TurnBases DEF Polite
<1> QED
  BY <1>1, <1>2, <1>5, NoneActivatesStep, ActiveLaterEffects, PoliteOInv

LEMMA FinalizeOInv ==
  ASSUME UrgentInterrupts, IInv, OInv, NEW a, NEW e \in UserEvent, event_finalize(a, e)
  PROVE  OInv'
<1> DEFINE s == event_del_nolock_(q, e)
           v == [ev EXCEPT ![e].closure = "finalize", ![e].res = {"EV_FINALIZE"}]
           b == ActiveContinue(DelNotifies(e, base, a), e)
<1>1. /\ e \in Event /\ e \in Callback /\ base \in BaseFields /\ LockFree
      /\ a \in Thread /\ a # LoopThread => "event_finalize" \in ThreadApi
  BY UserEvents, Parts DEF event_finalize, CanCall
<1>2. b \in BaseFields /\ Interrupts(base, b, e)
  <2>1. /\ DelNotifies(e, base, a) \in BaseFields
        /\ SameTurn(base, DelNotifies(e, base, a))
    BY <1>1, NotifyEffect, TurnBases DEF DelNotifies
  <2> QED
    BY <2>1, NotifyEffect, TurnBases, TurnTwice
<1>3. \/ /\ CondWait(a, "finalize", e, NoTimeval, 1) /\ Kind[e] = "signal"
         /\ base' = Waiting(b)
      \/ FinalizeNow(a, e, s, v, b) /\ UNCHANGED th
  BY DEF event_finalize
<1> HIDE DEF s, v, b
<1>4. SameTurn(b, base')
  BY <1>2, <1>3, TurnBases DEF FinalizeNow
<1>5. Polite(e)
  BY <1>2, <1>4, TurnTwice DEF Polite
<1>6. NoneActivates'
  <2>1. CASE CondWait(a, "finalize", e, NoTimeval, 1) /\ Kind[e] = "signal"
    <3>1. a \notin Thread
      BY <1>1, <2>1, BaseAssumption DEF UrgentInterrupts
    <3> QED
      BY <2>1, <3>1, NoneActivatesStep
  <2> QED
    BY <1>3, <2>1, NoneActivatesStep
<1> QED
  BY <1>1, <1>5, <1>6, FinalizeEffects, PoliteOInv

LEMMA DeferredOInv ==
  ASSUME UrgentInterrupts, IInv, OInv, NEW a, NEW c \in Deferred,
         \/ event_deferred_cb_schedule_(a, c)
         \/ event_deferred_cb_cancel_(a, c)
         \/ event_callback_finalize_(a, c)
  PROVE  OInv'
<1>1. /\ c \in Callback /\ base \in BaseFields /\ LockFree /\ UNCHANGED th
  BY UserEvents, Parts
  DEF event_deferred_cb_schedule_, event_deferred_cb_cancel_, event_callback_finalize_, CanCall
<1>2. SameTurn(base, base')
  <2>1. PICK n \in {base, [base EXCEPT !.n_deferreds_queued = @ + 1]} :
          base' = n \/ base' = evthread_notify_base(n, a)
    BY DEF event_deferred_cb_schedule_, event_deferred_cb_cancel_, event_callback_finalize_
  <2>2. n \in BaseFields /\ SameTurn(base, n)
    BY <1>1 DEF BaseFields, SameTurn
  <2> QED
    BY <2>1, <2>2, TurnBases, TurnTwice
<1>3. Polite(c)
  BY <1>2 DEF Polite
<1> QED
  BY <1>1, <1>3, NoneActivatesStep, DeferredEffects, PoliteOInv

LEMMA LoopExitOInv ==
  ASSUME UrgentInterrupts, IInv, OInv, NEW a, NEW tv \in Timeval, event_base_loopexit(a, tv)
  PROVE  OInv'
<1>1. ExitEv \in Event /\ ExitEv \in Callback /\ base \in BaseFields /\ LockFree /\ UNCHANGED th
  BY UserEvents, Parts DEF event_base_loopexit, CanCall
<1>2. CASE tv \in {NoTimeval, 0}
  <2> DEFINE v == ActiveResult(q, ExitEv, {"EV_TIMEOUT"})
             b == ActiveContinue(base, ExitEv)
  <2>1. ActivateNow(a, ExitEv, 1, v, b)
    BY <1>2 DEF event_base_loopexit
  <2>2. b \in BaseFields /\ Interrupts(base, b, ExitEv)
    BY <1>1, NotifyEffect, TurnBases
  <2> HIDE DEF v, b
  <2>3. Polite(ExitEv)
    BY <1>1, <2>1, <2>2, ActivatePolite
  <2> QED
    BY <1>1, <2>3, NoneActivatesStep, LoopExitEffects, PoliteOInv
<1>3. CASE tv \notin {NoTimeval, 0}
  <2> DEFINE v == AddFields(ExitEv, tv, FALSE, gettime(base))
  <2>1. /\ q' = event_add_nolock_(q, ExitEv, tv)
        /\ base' = AddNotifies(q, ExitEv, tv, v, base, a)
    BY <1>3 DEF event_base_loopexit
  <2>2. "ACTIVE" \in q'.flags[ExitEv] => "ACTIVE" \in q.flags[ExitEv]
    BY <1>1, <2>1, NoneActive
  <2> HIDE DEF v
  <2>3. Polite(ExitEv)
    BY <1>1, <2>1, <2>2, TurnBases DEF Polite
  <2> QED
    BY <1>1, <2>3, NoneActivatesStep, LoopExitEffects, PoliteOInv
<1> QED
  BY <1>2, <1>3

LEMMA BaseCallOInv ==
  ASSUME UrgentInterrupts, IInv, OInv, NEW a,
         event_base_loopbreak(a) \/ event_base_add_virtual_(a) \/ event_base_del_virtual_(a)
  PROVE  OInv'
<1>1. /\ ExitEv \in Callback /\ base \in BaseFields /\ LockFree /\ UNCHANGED <<q, th>>
  BY UserEvents, Parts
  DEF event_base_loopbreak, event_base_add_virtual_, event_base_del_virtual_, CanCall
<1>2. SameTurn(base, base')
  <2>1. PICK n : base' \in {n, evthread_notify_base(n, a)} /\ n \in BaseFields /\ SameTurn(base, n)
    <3>1. CASE event_base_loopbreak(a)
      <4>1. [base EXCEPT !.event_break = TRUE] \in BaseFields
            /\ SameTurn(base, [base EXCEPT !.event_break = TRUE])
        BY <1>1 DEF BaseFields, SameTurn
      <4> QED
        BY <3>1, <4>1 DEF event_base_loopbreak
    <3>2. CASE event_base_add_virtual_(a)
      <4>1. [base EXCEPT !.virtual_event_count = @ + 1] \in BaseFields
            /\ SameTurn(base, [base EXCEPT !.virtual_event_count = @ + 1])
        BY <1>1 DEF BaseFields, SameTurn
      <4> QED
        BY <3>2, <4>1 DEF event_base_add_virtual_
    <3>3. CASE event_base_del_virtual_(a)
      <4> DEFINE n == [base EXCEPT !.virtual_event_count = @ - 1]
      <4>1. base.virtual_event_count > 0 /\ base' \in {n, evthread_notify_base(n, a)}
        BY <3>3 DEF event_base_del_virtual_
      <4>2. n \in BaseFields /\ SameTurn(base, n)
        BY <1>1, <4>1 DEF BaseFields, SameTurn
      <4> QED
        BY <4>1, <4>2
    <3> QED
      BY <3>1, <3>2, <3>3
  <2> QED
    BY <2>1, TurnBases, TurnTwice
<1>3. Polite(ExitEv)
  BY <1>1, <1>2 DEF Polite
<1> QED
  BY <1>1, <1>3, NoneActivatesStep, BaseCallEffects, PoliteOInv

\* Only the loop thread calls event_base_loopcontinue, in a callback that is counted or outside
\* of the loop.
LEMMA LoopContinueOInv ==
  ASSUME UrgentInterrupts, IInv, OInv, NEW a \in Actor, event_base_loopcontinue(a)
  PROVE  OInv'
<1> DEFINE n == [base EXCEPT !.event_continue = TRUE]
<1>1. /\ base \in BaseFields /\ UNCHANGED <<q, loop, th>> /\ base' = evthread_notify_base(n, a)
      /\ InUserCallback \/ loop.pc = "out"
  BY Parts DEF event_base_loopcontinue, CanCall, UrgentInterrupts
<1>2. n \in BaseFields /\ n.event_continue
      /\ n.event_running_priority = base.event_running_priority
  BY <1>1 DEF BaseFields
<1> HIDE DEF n
<1>3. base'.event_continue /\ base'.event_running_priority = base.event_running_priority
  BY <1>1, <1>2, TurnBases DEF SameTurn
<1>4. loop.pc = "out" \/ (loop.pc = "callback" /\ loop.count > 0)
  BY <1>1, PriorityTypes DEF InUserCallback, OInv, QueueInv
<1>5. UrgentInv'
  BY <1>3 DEF UrgentInv
<1>6. QueueInv'
  BY <1>1, <1>3 DEF OInv, QueueInv
<1>7. ContinueInv'
  BY <1>1, <1>3, <1>4 DEF OInv, ContinueInv, Processing
<1> QED
  BY <1>1, <1>5, <1>6, <1>7, NoneActivatesStep DEF OInv

\* Every call keeps the order.
LEMMA ApiOInv ==
  ASSUME UrgentInterrupts, IInv, OInv, NEW a \in Actor, Api(a)
  PROVE  OInv'
<1>1. ASSUME NEW e \in UserEvent,
             \/ \E tv \in Delays \cup (IF Kind[e] = "timer" THEN {} ELSE {NoTimeval}) :
                  event_add(a, e, tv)
             \/ event_remove_timer(a, e)
             \/ \E f \in {"event_del", "event_del_block", "event_del_noblock"} :
                  event_del(a, e, f)
             \/ \E n \in 1 .. (IF Kind[e] = "signal" THEN MaxCalls ELSE 1) :
                  event_active(a, e, n)
             \/ event_active_later_(a, e)
             \/ event_finalize(a, e)
      PROVE  OInv'
  <2>1. Delays \cup (IF Kind[e] = "timer" THEN {} ELSE {NoTimeval}) \subseteq Timeval
    BY BaseAssumption DEF Timeval
  <2>2. 1 .. (IF Kind[e] = "signal" THEN MaxCalls ELSE 1) \subseteq Nat
    BY BaseAssumption
  <2> QED
    BY <1>1, <2>1, <2>2, AddOInv, RemoveTimerOInv, DelOInv, ActiveOInv, ActiveLaterOInv,
       FinalizeOInv
<1>2. CASE \E tv \in Delays \cup {NoTimeval} : event_base_loopexit(a, tv)
  <2>1. Delays \cup {NoTimeval} \subseteq Timeval
    BY BaseAssumption DEF Timeval
  <2> QED
    BY <1>2, <2>1, LoopExitOInv
<1> QED
  BY <1>1, <1>2, DeferredOInv, BaseCallOInv, LoopContinueOInv DEF Api

\* So does a call that goes on after its wait, or returns.
LEMMA ThreadOInv ==
  ASSUME UrgentInterrupts, IInv, KInv, OInv, NEW t \in Thread, ThreadResume(t) \/ ThreadIdle(t)
  PROVE  OInv'
<1>1. CASE ThreadResume(t)
  <2> DEFINE e == th[t].ev
  <2>1. /\ e \in UserEvent /\ e \in Event /\ e \in Callback /\ LockFree
        /\ th[t].op \notin {"active", "finalize"}
    BY <1>1, UserEvents DEF ThreadResume, KInv, CallersInv, OInv, NoneActivates
  <2>2. \/ DelNow(t, e) /\ th' = Deleted(t, e)
        \/ AddNow(t, e, th[t].tv) /\ th' = [th EXCEPT ![t] = Idle]
    BY <1>1, <2>1 DEF ThreadResume
  <2>3. Effect(t, e)
    BY <1>1, <2>1, ResumeEffect
  <2>4. Polite(e)
    BY <2>1, <2>2, AddDelPolite
  <2>5. NoneActivates'
    BY <2>2, NoneActivatesStep
  <2> QED
    BY <2>1, <2>3, <2>4, <2>5, PoliteOInv
<1>2. CASE ThreadIdle(t)
  <2>1. UNCHANGED <<q, base, loop>> /\ th' = [th EXCEPT ![t] = Idle]
    BY <1>2 DEF ThreadIdle
  <2> QED
    BY <2>1, NoneActivatesStep DEF OInv, UrgentInv, Urgent, QueueInv, ContinueInv
<1> QED
  BY <1>1, <1>2

\* Before and after event_process_active.
LEMMA OutsideOInv ==
  ASSUME OInv, base'.event_running_priority = -1, UNCHANGED th, loop'.pc \notin Processing,
         base'.event_continue => loop'.pc \in {"out", "top"}
  PROVE  OInv'
<1>1. NoneActivates'
  BY NoneActivatesStep DEF OInv, NoneActivates
<1> QED
  BY <1>1 DEF OInv, UrgentInv, QueueInv, ContinueInv, Processing

\* event_base_loop returns.
LEMMA ExitOInv ==
  ASSUME OInv, NEW b \in BaseFields, b.event_running_priority = -1, LoopExit(b), UNCHANGED th
  PROVE  OInv'
<1>1. base' = [clear_time_cache(b) EXCEPT !.running_loop = FALSE] /\ loop'.pc = "out"
  BY DEF LoopExit, Outside
<1>2. base'.event_running_priority = -1
  BY <1>1 DEF clear_time_cache, BaseFields
<1> QED
  BY <1>1, <1>2, OutsideOInv DEF Processing

\* The steps outside of event_process_active.
LEMMA TurnOInv ==
  ASSUME IInv, OInv,
         \/ LoopEnter \/ LoopTop \/ LoopMakeLaterActive \/ LoopDispatch
         \/ \E ready : SelectReturn(ready)
         \/ SelectFails \/ LoopRelock \/ LoopUpdateTime \/ LoopTimeoutsDone
  PROVE  OInv'
<1>1. base \in BaseFields /\ loop \in LoopLocals
  BY NowTypes
<1>2. /\ loop.pc \in {"out", "top", "later", "select", "selected", "activate", "timeouts"}
      /\ UNCHANGED th
  BY DEF LoopEnter, LoopTop, LoopMakeLaterActive, LoopDispatch, SelectReturn, SelectFails,
         LoopRelock, LoopUpdateTime, LoopTimeoutsDone
<1>3. /\ base.event_running_priority = -1
      /\ base.event_continue => loop.pc \in {"out", "top"}
  BY <1>2 DEF OInv, ContinueInv, Processing
<1>4. CASE LoopEnter
  <2>1. loop'.pc = "top" /\ base'.event_running_priority = -1
    BY <1>1, <1>3, <1>4 DEF LoopEnter, clear_time_cache, BaseFields, LoopLocals
  <2> QED
    BY <1>2, <2>1, OutsideOInv DEF Processing
<1>5. CASE LoopTop
  <2> DEFINE b == [base EXCEPT !.event_continue = FALSE, !.n_deferreds_queued = 0]
  <2>1. \/ LoopExit(b)
        \/ base' = b /\ \E tv : loop' = [loop EXCEPT !.pc = "later", !.tv = tv]
    BY <1>5 DEF LoopTop
  <2>2. b \in BaseFields /\ b.event_running_priority = -1 /\ ~b.event_continue
    BY <1>1, <1>3 DEF BaseFields
  <2> HIDE DEF b
  <2>3. CASE LoopExit(b)
    BY <1>2, <2>2, <2>3, ExitOInv
  <2>4. CASE base' = b /\ \E tv : loop' = [loop EXCEPT !.pc = "later", !.tv = tv]
    <3>1. loop'.pc = "later"
      BY <1>1, <2>4 DEF LoopLocals
    <3> QED
      BY <1>2, <2>2, <2>4, <3>1, OutsideOInv DEF Processing
  <2> QED
    BY <2>1, <2>3, <2>4
<1>6. CASE LoopMakeLaterActive
  <2>1. /\ loop' = loop /\ loop.pc = "later"
        /\ \E n : base' = [base EXCEPT !.n_deferreds_queued = n]
    BY <1>6 DEF LoopMakeLaterActive
  <2>2. SameTurn(base, base')
    BY <1>1, <2>1 DEF BaseFields, SameTurn
  <2> QED
    BY <1>2, <1>3, <2>1, <2>2, OutsideOInv DEF SameTurn, Processing
<1>7. CASE LoopDispatch
  <2>1. loop'.pc = "select" /\ SameTurn(base, base') /\ loop.pc = "later"
    BY <1>1, <1>7, TurnBases DEF LoopDispatch, LoopLocals
  <2> QED
    BY <1>2, <1>3, <2>1, OutsideOInv DEF SameTurn, Processing
<1>8. CASE \E ready : SelectReturn(ready)
  <2>1. loop'.pc = "selected" /\ base' = base /\ loop.pc = "select"
    BY <1>1, <1>8 DEF SelectReturn, LoopLocals
  <2> QED
    BY <1>2, <1>3, <2>1, OutsideOInv DEF Processing
<1>9. CASE SelectFails
  BY <1>1, <1>2, <1>3, <1>9, ExitOInv DEF SelectFails
<1>10. CASE LoopRelock
  <2>1. loop'.pc = "activate" /\ base' = base /\ loop.pc = "selected"
    BY <1>1, <1>10 DEF LoopRelock, LoopLocals
  <2> QED
    BY <1>2, <1>3, <2>1, OutsideOInv DEF Processing
<1>11. CASE LoopUpdateTime
  <2>1. loop'.pc = "timeouts" /\ SameTurn(base, base') /\ loop.pc = "activate"
    BY <1>1, <1>11, TurnBases DEF LoopUpdateTime, LoopLocals
  <2> QED
    BY <1>2, <1>3, <2>1, OutsideOInv DEF SameTurn, Processing
<1>12. CASE LoopTimeoutsDone
  <2>1. loop'.pc = "process" /\ base' = base /\ loop.pc = "timeouts"
    BY <1>1, <1>12 DEF LoopTimeoutsDone, LoopLocals
  <2> QED
    BY <1>2, <1>3, <2>1, OutsideOInv DEF Processing
<1> QED
  BY <1>4, <1>5, <1>6, <1>7, <1>8, <1>9, <1>10, <1>11, <1>12

\* The activations of the loop come when no queue is worked on.
LEMMA ActivateOInv ==
  ASSUME IInv, OInv, NEW e \in Event, LoopActivate(e) \/ LoopTimeout(e)
  PROVE  OInv'
<1>1. base \in BaseFields /\ loop \in LoopLocals /\ e \in Callback
  BY NowTypes, UserEvents
<1>2. /\ loop.pc \in {"activate", "timeouts"} /\ UNCHANGED th
      /\ base' \in {base, ActiveContinue(base, e)}
  BY DEF LoopActivate, LoopTimeout
<1>3. base.event_running_priority = -1 /\ ~base.event_continue
  BY <1>2 DEF OInv, ContinueInv, Processing
<1>4. base'.event_running_priority = -1 /\ ~base'.event_continue
  <2>1. Priority[e] \in Nat /\ ~(Priority[e] < -1)
    BY <1>1, PriorityTypes
  <2>2. Interrupts(base, ActiveContinue(base, e), e)
    BY <1>1, TurnBases
  <2> QED
    BY <1>2, <1>3, <2>1, <2>2 DEF Interrupts
<1>5. loop'.pc = loop.pc
  BY <1>1 DEF LoopActivate, LoopTimeout, AbortLoop, LoopLocals
<1> QED
  BY <1>2, <1>4, <1>5, OutsideOInv DEF Processing

\* Callbacks and queues by their priority
LEMMA QueueOfPriority ==
  ASSUME IInv
  PROVE  /\ \A c \in Callback : "ACTIVE" \in q.flags[c] => q.activequeues[Priority[c]] # << >>
         /\ \A i \in Priorities : q.activequeues[i] # << >> =>
              /\ Head(q.activequeues[i]) \in Callback
              /\ "ACTIVE" \in q.flags[Head(q.activequeues[i])]
              /\ Priority[Head(q.activequeues[i])] = i
<1>1. \A i \in Priorities :
        /\ q.activequeues[i] \in Seq(Callback)
        /\ Lists(q.activequeues[i], { c \in With(q, "ACTIVE") : Priority[c] = i })
  BY Parts, QueuesFields DEF Good, QueuesOK, ActiveListed
<1>2. ASSUME NEW c \in Callback, "ACTIVE" \in q.flags[c]
      PROVE  q.activequeues[Priority[c]] # << >>
  <2>1. Priority[c] \in Priorities
    BY QueuesAssumption DEF Priorities
  <2>2. c \in { d \in With(q, "ACTIVE") : Priority[d] = Priority[c] }
    BY <1>2 DEF With
  <2>3. c \in { q.activequeues[Priority[c]][k] : k \in 1 .. Len(q.activequeues[Priority[c]]) }
    BY <1>1, <2>1, <2>2 DEF Lists
  <2> QED
    BY <2>3
<1>3. ASSUME NEW i \in Priorities, q.activequeues[i] # << >>
      PROVE  Head(q.activequeues[i]) \in { c \in With(q, "ACTIVE") : Priority[c] = i }
  BY <1>1, <1>3, TailLists
<1> QED
  BY <1>2, <1>3 DEF With

\* event_process_active passes over empty queues only.
LEMMA FirstQueuePasses ==
  ASSUME NEW i \in 0 .. NPriorities
  PROVE  /\ FirstQueue(i) \in i .. NPriorities
         /\ \A k \in i .. FirstQueue(i) - 1 : q.activequeues[k] = << >>
<1> DEFINE T == { j \in i .. NPriorities : j = NPriorities \/ q.activequeues[j] # << >> }
<1>1. NPriorities \in Nat
  BY QueuesAssumption
<1>2. T \in SUBSET Nat /\ NPriorities \in T
  BY <1>1
<1>3. PICK m \in T : \A n \in T : m <= n
  BY <1>2, LeastNat
<1>4. \A k \in i .. m - 1 : q.activequeues[k] = << >>
  BY <1>1, <1>2, <1>3
<1> QED
  BY <1>3, <1>4 DEF FirstQueue

\* event_process_active returns.
LEMMA DoneOInv ==
  ASSUME OInv, NEW b \in BaseFields, NEW l \in LoopLocals, NEW n, ProcessDone(b, l, n),
         UNCHANGED th
  PROVE  OInv'
<1> DEFINE b1 == [b EXCEPT !.event_running_priority = -1]
<1>1. b1 \in BaseFields /\ b1.event_running_priority = -1
  BY DEF BaseFields
<1>2. \/ LoopExit(b1)
      \/ base' = b1 /\ loop' = [l EXCEPT !.pc = "top", !.count = 0, !.endtime = NoTimeval]
  BY DEF ProcessDone
<1> HIDE DEF b1
<1>3. CASE base' = b1 /\ loop' = [l EXCEPT !.pc = "top", !.count = 0, !.endtime = NoTimeval]
  <2>1. loop'.pc = "top"
    BY <1>3 DEF LoopLocals
  <2> QED
    BY <1>1, <1>3, <2>1, OutsideOInv DEF Processing
<1> QED
  BY <1>1, <1>2, <1>3, ExitOInv

\* event_process_active turns to the first queue from i on that is not empty; those before i are.
LEMMA FromOInv ==
  ASSUME IInv, OInv, NEW b \in BaseFields, ~b.event_continue, NEW l \in LoopLocals,
         NEW i \in 0 .. NPriorities, \A k \in 0 .. i - 1 : q.activequeues[k] = << >>,
         ProcessFrom(b, l, i), UNCHANGED <<q, th>>
  PROVE  OInv'
<1> DEFINE j == FirstQueue(i)
<1>1. CASE ProcessDone(b, l, 0)
  BY <1>1, DoneOInv
<1>2. CASE /\ base' = [b EXCEPT !.event_running_priority = j]
           /\ loop' = [l EXCEPT !.pc = "queue", !.count = 0]
  <2>1. j \in 0 .. NPriorities /\ \A k \in 0 .. j - 1 : q.activequeues[k] = << >>
    BY FirstQueuePasses, QueuesAssumption
  <2> HIDE DEF j
  <2>2. base'.event_running_priority = j /\ ~base'.event_continue /\ loop'.pc = "queue"
    BY <1>2 DEF BaseFields, LoopLocals
  <2>3. ~Urgent'
    <3> SUFFICES ASSUME NEW c \in Callback, "ACTIVE" \in q.flags[c], Priority[c] < j
                 PROVE  FALSE
      BY <2>2 DEF Urgent
    <3>1. Priority[c] \in 0 .. j - 1
      BY <2>1, PriorityTypes
    <3> QED
      BY <2>1, <3>1, QueueOfPriority
  <2>4. NoneActivates'
    BY NoneActivatesStep
  <2> QED
    BY <2>2, <2>3, <2>4 DEF OInv, UrgentInv, QueueInv, ContinueInv, Processing
<1> QED
  BY <1>1, <1>2 DEF ProcessFrom

LEMMA ProcessOInv ==
  ASSUME IInv, OInv, LoopProcess
  PROVE  OInv'
<1> DEFINE b == IF MaxDispatchTime = -1 THEN base ELSE update_time_cache(base)
           end == IF MaxDispatchTime = -1 THEN NoTimeval ELSE gettime(b) + MaxDispatchTime
           l == [loop EXCEPT !.endtime = end]
<1>1. base \in BaseFields /\ loop \in LoopLocals /\ loop.pc = "process" /\ UNCHANGED <<q, th>>
  BY NowTypes DEF LoopProcess
<1>2. base.event_running_priority = -1 /\ ~base.event_continue
  BY <1>1 DEF OInv, ContinueInv, Processing
<1>3. b \in BaseFields /\ ~b.event_continue
  BY <1>1, <1>2, TurnBases, TimeTypes, Parts DEF SameTurn
<1>4. \/ ProcessFrom(b, l, 0)
      \/ LoopExit(base)
      \/ loop' = [loop EXCEPT !.pc = "top"] /\ UNCHANGED base
  BY DEF LoopProcess
<1>5. l \in LoopLocals
  <2>1. end \in Timeval
    <3>1. b \in BaseFields => gettime(b) \in Nat
      BY Parts, TimeTypes
    <3> HIDE DEF b
    <3> QED
      BY <1>3, <3>1, BaseAssumption DEF Timeval
  <2> HIDE DEF end
  <2> QED
    BY <1>1, <2>1 DEF LoopLocals
<1> HIDE DEF b, l
<1>6. CASE ProcessFrom(b, l, 0)
  <2>1. 0 \in 0 .. NPriorities /\ \A k \in 0 .. 0 - 1 : q.activequeues[k] = << >>
    BY QueuesAssumption
  <2> QED
    BY <1>1, <1>3, <1>5, <1>6, <2>1, FromOInv
<1>7. CASE loop' = [loop EXCEPT !.pc = "top"] /\ UNCHANGED base
  <2>1. loop'.pc = "top"
    BY <1>1, <1>7 DEF LoopLocals
  <2> QED
    BY <1>1, <1>2, <1>7, <2>1, OutsideOInv DEF Processing
<1> QED
  BY <1>1, <1>2, <1>4, <1>6, <1>7, ExitOInv

\* A queue is empty.
LEMMA QueueEmptyOInv ==
  ASSUME IInv, OInv, LoopQueueEmpty
  PROVE  OInv'
<1> DEFINE rp == base.event_running_priority
<1>1. /\ base \in BaseFields /\ loop \in LoopLocals /\ loop.pc = "queue" /\ UNCHANGED <<q, th>>
      /\ q.activequeues[rp] = << >> /\ QueueDone(base, loop)
      /\ rp \in Priorities /\ rp \in Nat /\ ~base.event_continue
  BY NowTypes, PriorityTypes DEF LoopQueueEmpty, IInv, Located, OInv, ContinueInv
<1>2. CASE \E n : ProcessDone(base, loop, n)
  BY <1>1, <1>2, DoneOInv
<1>3. CASE ProcessFrom(base, loop, rp + 1)
  <2>1. rp + 1 \in 0 .. NPriorities
    BY <1>1, QueuesAssumption DEF Priorities
  <2>2. \A k \in 0 .. rp - 1 : q.activequeues[k] = << >>
    <3> SUFFICES ASSUME NEW k \in 0 .. rp - 1, q.activequeues[k] # << >>
                 PROVE  FALSE
      OBVIOUS
    <3>1. k \in Priorities /\ k < rp
      BY <1>1, QueuesAssumption DEF Priorities
    <3>2. /\ Head(q.activequeues[k]) \in Callback
          /\ "ACTIVE" \in q.flags[Head(q.activequeues[k])]
          /\ Priority[Head(q.activequeues[k])] = k
      BY <3>1, QueueOfPriority
    <3> QED
      BY <1>1, <3>1, <3>2 DEF OInv, UrgentInv, Urgent, Processing
  <2>3. \A k \in 0 .. (rp + 1) - 1 : q.activequeues[k] = << >>
    BY <1>1, <2>2
  <2> QED
    BY <1>1, <1>3, <2>1, <2>3, FromOInv
<1> QED
  BY <1>1, <1>2, <1>3 DEF QueueDone

\* After a callback: the queue is left only when one has been counted, and goes on only if
\* nothing more urgent is active.
LEMMA AfterOInv ==
  ASSUME IInv, OInv, LoopAfter
  PROVE  OInv'
<1> DEFINE limited == base.event_running_priority >= LimitCallbacksAfterPrio
           timed == limited /\ loop.count > 0 /\ loop.endtime # NoTimeval
           b == IF timed THEN update_time_cache(base) ELSE base
<1>1. base \in BaseFields /\ loop \in LoopLocals /\ loop.pc = "after" /\ UNCHANGED <<q, th>>
  BY NowTypes DEF LoopAfter
<1>2. b \in BaseFields /\ SameTurn(base, b)
  BY <1>1, TurnBases, TimeTypes, Parts
<1>3. \/ \E n : ProcessDone(base, loop, n)
      \/ \E n : ProcessDone(b, loop, n)
      \/ b.event_continue /\ QueueDone(b, loop)
      \/ ~b.event_continue /\ base' = b /\ loop' = [loop EXCEPT !.pc = "queue"]
  BY DEF LoopAfter
<1> HIDE DEF b
<1>4. CASE \E n : ProcessDone(base, loop, n) \/ ProcessDone(b, loop, n)
  BY <1>1, <1>2, <1>4, DoneOInv
<1>5. CASE b.event_continue /\ QueueDone(b, loop)
  <2>1. loop.count > 0
    BY <1>1, <1>2, <1>5 DEF SameTurn, OInv, ContinueInv, Processing
  <2>2. ProcessDone(b, loop, loop.count)
    BY <1>5, <2>1 DEF QueueDone
  <2> QED
    BY <1>1, <1>2, <2>2, DoneOInv
<1>6. CASE ~b.event_continue /\ base' = b /\ loop' = [loop EXCEPT !.pc = "queue"]
  <2>1. loop'.pc = "queue"
    BY <1>1, <1>6 DEF LoopLocals
  <2>2. SameTurn(base, base') /\ ~base'.event_continue /\ ~base.event_continue
    BY <1>2, <1>6 DEF SameTurn
  <2>3. ~Urgent'
    BY <1>1, <2>2 DEF SameTurn, OInv, UrgentInv, Urgent, Processing
  <2> QED
    BY <1>1, <2>1, <2>2, <2>3, NoneActivatesStep
    DEF OInv, UrgentInv, QueueInv, ContinueInv, Processing
<1> QED
  BY <1>3, <1>4, <1>5, <1>6

\* The queue that is worked on runs its first callback, and the flags of the others stay.
LEMMA RunTurn ==
  ASSUME IInv, KInv, LoopRun
  PROVE  LET c == loop'.running
         IN  /\ c \in Callback /\ Priority[c] = base.event_running_priority
             /\ \A d \in Callback \ {c} : q'.flags[d] = q.flags[d]
             /\ SameTurn(base, base') /\ UNCHANGED th
             /\ loop'.pc \in {"count", "callback", "return"} /\ loop.pc = "queue"
             /\ c \in Internal \/ loop'.count > 0
<1> DEFINE i == base.event_running_priority
           h == Head(q.activequeues[i])
           count == Min2(loop.count + Counted(h), MaxDispatchCallbacks)
<1>1. loop.pc = "queue" /\ i \in Priorities /\ q.activequeues[i] # << >>
  BY DEF LoopRun, IInv, Located
<1>2. h \in Callback /\ Priority[h] = i
  BY <1>1, QueueOfPriority
<1>3. base \in BaseFields /\ loop \in LoopLocals /\ q.flags \in [Callback -> SUBSET Flag] /\ Good(q)
  BY NowTypes
<1>4. loop'.running = h /\ loop'.count = count
  <2>1. \E pc, f, n : loop' = [loop EXCEPT !.pc = pc, !.count = count, !.running = h,
                                          !.finalizer = f, !.ncalls = n]
    BY DEF LoopRun
  <2> HIDE DEF count, h
  <2> QED
    BY <1>3, <2>1 DEF LoopLocals
<1>5. SameTurn(base, base')
  <2>1. \E e : base' = [base EXCEPT !.current_event = e, !.current_event_waiters = 0]
    BY DEF LoopRun
  <2> QED
    BY <1>3, <2>1 DEF BaseFields, SameTurn
<1>6. h \in Internal \/ count > 0
  <2>1. loop.count \in Nat /\ MaxDispatchCallbacks \in Nat \ {0}
    BY <1>3, BaseAssumption DEF LoopLocals
  <2> HIDE DEF h
  <2> QED
    BY <2>1 DEF Counted, Min2
<1>7. PICK c \in Callback : Runs(c)
  BY RunEffect
<1>8. c = h
  BY <1>4, <1>7 DEF Runs
<1>9. \A d \in Callback : ev'[d].closure = ev[d].closure
  BY <1>7 DEF Runs
<1>10. \A d \in Callback \ {c} : q'.flags[d] = q.flags[d]
  <2>1. CASE c = NotifyEv
    <3>1. ~Rescheduled(c) /\ NotifyEv \in Persist
      BY <2>1, BaseAssumption DEF KInv, NotifyInv, Rescheduled
    <3>2. q' = event_queue_remove_active(q, c)
      BY <1>7, <2>1, <3>1 DEF Runs, Taken
    <3>3. q'.flags = [q.flags EXCEPT ![c] = q.flags[c] \ {"ACTIVE"}]
      BY <1>3, <3>2, RemoveEffect DEF Lowers
    <3> QED
      BY <1>3, <3>3
  <2>2. CASE c # NotifyEv
    <3>1. hist'.armed = IF (c \in Event /\ c \notin Persist) \/ c \in Deferred
                          THEN [hist.armed EXCEPT ![c] = FALSE] ELSE hist.armed
      BY <1>7, StartedEffect DEF Runs
    <3> QED
      BY <1>7, <1>9, <2>2, <3>1, RunSound DEF Runs
  <2> QED
    BY <2>1, <2>2
<1> HIDE DEF i, h, count
<1> QED
  BY <1>1, <1>2, <1>4, <1>5, <1>6, <1>7, <1>8, <1>10 DEF Runs, i

LEMMA RunOInv ==
  ASSUME IInv, KInv, OInv, LoopRun
  PROVE  OInv'
<1> DEFINE c == loop'.running
<1>1. /\ c \in Callback /\ Priority[c] = base.event_running_priority
      /\ \A d \in Callback \ {c} : q'.flags[d] = q.flags[d]
      /\ SameTurn(base, base') /\ UNCHANGED th
      /\ loop'.pc \in {"count", "callback", "return"} /\ loop.pc = "queue"
      /\ c \in Internal \/ loop'.count > 0
  BY RunTurn
<1>2. ~base.event_continue /\ ~Urgent
  BY <1>1 DEF OInv, ContinueInv, UrgentInv, Processing
<1>3. ~Urgent'
  <2>1. Priority[c] \in Nat
    BY <1>1, PriorityTypes
  <2> QED
    BY <1>1, <1>2, <2>1 DEF Urgent, SameTurn
<1> QED
  BY <1>1, <1>2, <1>3, NoneActivatesStep
  DEF SameTurn, OInv, UrgentInv, QueueInv, ContinueInv, Processing

\* The rest of a callback, and its end.
LEMMA CallbackOInv ==
  ASSUME IInv, OInv, SignalCount \/ SignalAgain \/ NotifyDrain \/ NotifyDrained \/ LoopReturn
  PROVE  OInv'
<1>1. base \in BaseFields /\ loop \in LoopLocals /\ th \in [Thread -> ThreadLocals]
  BY NowTypes, Parts
<1>2. loop.pc \in {"count", "callback", "drain", "return"} /\ UNCHANGED q
  BY DEF SignalCount, SignalAgain, NotifyDrain, NotifyDrained, LoopReturn
<1>3. SameTurn(base, base')
  BY <1>1 DEF SignalCount, SignalAgain, NotifyDrain, NotifyDrained, LoopReturn, BaseFields, SameTurn
<1>4. /\ loop'.pc \in {"count", "callback", "drain", "return", "after"} /\ loop'.count = loop.count
      /\ loop'.pc # "after" => loop'.running = loop.running
  BY <1>1, <1>2 DEF SignalCount, SignalAgain, NotifyDrain, NotifyDrained, LoopReturn, LoopLocals
<1>5. NoneActivates'
  <2>1. UNCHANGED th \/ th' = EVTHREAD_COND_BROADCAST
    BY DEF SignalCount, SignalAgain, NotifyDrain, NotifyDrained, LoopReturn
  <2>2. \A t \in Thread : EVTHREAD_COND_BROADCAST[t].op = th[t].op
    BY <1>1 DEF EVTHREAD_COND_BROADCAST, Woken, ThreadLocals
  <2> QED
    BY <2>1, <2>2 DEF OInv, NoneActivates
<1>6. UrgentInv' /\ QueueInv' /\ ContinueInv'
  BY <1>2, <1>3, <1>4
  DEF SameTurn, OInv, UrgentInv, Urgent, QueueInv, ContinueInv, Processing
<1> QED
  BY <1>5, <1>6 DEF OInv

LEMMA InitOInv == Init => OInv
<1> SUFFICES ASSUME Init
             PROVE  OInv
  OBVIOUS
<1>1. /\ loop.pc = "out" /\ base.event_running_priority = -1 /\ ~base.event_continue
      /\ \A t \in Thread : th[t].op = "none"
  BY DEF Init, Outside, Idle
<1> QED
  BY <1>1 DEF OInv, UrgentInv, QueueInv, ContinueInv, NoneActivates, Processing

\* Every step keeps the order.
LEMMA NextOInv ==
  ASSUME UrgentInterrupts, IInv, KInv, OInv, [Next]_vars
  PROVE  OInv'
<1>1. CASE \E a \in Actor : Api(a)
  BY <1>1, ApiOInv
<1>2. CASE \E t \in Thread : ThreadResume(t) \/ ThreadIdle(t)
  BY <1>2, ThreadOInv
<1>3. CASE LoopStep \/ FdsReady \/ SelectFails \/ LoopEnter
  BY <1>3, TurnOInv, ActivateOInv, ProcessOInv, QueueEmptyOInv, AfterOInv, RunOInv, CallbackOInv
  DEF LoopStep, FdsReady
<1>4. CASE Tick \/ UNCHANGED vars
  <2>1. UNCHANGED <<q, base, loop, th>>
    BY <1>4 DEF Tick, vars
  <2> QED
    BY <2>1 DEF OInv, UrgentInv, Urgent, QueueInv, ContinueInv, NoneActivates
<1> QED
  BY <1>1, <1>2, <1>3, <1>4 DEF Next

LEMMA Order ==
  ASSUME UrgentInterrupts
  PROVE  Spec => [](IInv /\ KInv /\ OInv)
<1>1. IInv /\ KInv /\ OInv /\ [Next]_vars => OInv'
  BY NextOInv
<1> QED
  BY <1>1, InitOInv, Invariants, PTL DEF Spec

\* The callback that starts is of the queue that is worked on, and none more urgent is active.
LEMMA OrderStep ==
  ASSUME IInv, WInv, KInv, OInv, [Next]_vars, NEW c \in Callback, Starts(c),
         NEW d \in With(q, "ACTIVE")
  PROVE  Priority[c] <= Priority[d]
<1>1. LoopRun
  BY StartsInRun
<1>2. Priority[c] = base.event_running_priority /\ loop.pc = "queue"
  BY <1>1, RunTurn DEF Starts
<1>3. ~Urgent
  BY <1>2 DEF OInv, UrgentInv, ContinueInv, Processing
<1>4. d \in Callback /\ "ACTIVE" \in q.flags[d]
  BY DEF With
<1>5. Priority[c] \in Nat /\ Priority[d] \in Nat
  BY <1>4, PriorityTypes
<1> QED
  BY <1>2, <1>3, <1>4, <1>5 DEF Urgent

\* event_process_active and event_continue: no callback starts while a more urgent one is active,
\* whoever made it active and when, if the queue is interrupted as UrgentInterrupts says.
THEOREM UrgentAlwaysFirst ==
  ASSUME UrgentInterrupts
  PROVE  Spec => PriorityOrder
<1> DEFINE Ordered == \A c \in Callback :
                        Starts(c) => \A d \in With(q, "ACTIVE") : Priority[c] <= Priority[d]
<1>1. IInv /\ WInv /\ KInv /\ OInv /\ [Next]_vars => [Ordered]_vars
  BY OrderStep
<1>2. Spec => [][Ordered]_vars
  BY <1>1, Invariants, Order, PTL DEF Spec
<1> QED
  BY <1>2 DEF PriorityOrder

-----------------------------------------------------------------------------
(* The calls of a signal event.                                            *)

SignalEvents == { e \in Event : Kind[e] = "signal" }

\* What the code does not keep apart, when the application uses signal events: their calls and
\* the timeval that event_remove_timer clears share a union; event_active_later_ gives no number of
\* calls; event_signal_closure counts the calls without the lock, so that a thread that gives or
\* takes calls meanwhile has to wait for the callback, which event_del_noblock, an event_del of an
\* EV_FINALIZE event and event_finalize do not do; and nothing is tested again after the wait, in
\* which the callback, a timeout or another thread may have made the event active.
SignalsByTheBook ==
  SignalEvents # {} =>
    /\ {"event_remove_timer", "event_active_later_"} \cap Calls = {}
    /\ {"event_del_noblock", "event_finalize"} \cap ThreadApi = {}
    /\ SignalEvents \cap EvFinalize = {}
    /\ "event_active" \notin CallbackApi /\ Delays = {} /\ \A t, u \in Thread : t = u

SignalKinds ==
  \A c \in Callback :
    /\ ev[c].closure = "signal" => c \in SignalEvents
    /\ ev[c].closure = "persist" => c \notin SignalEvents

NoneLater == \A e \in SignalEvents : "ACTIVE_LATER" \notin q.flags[e]

Untimed == \A e \in SignalEvents : "TIMEOUT" \notin q.flags[e]

OnlyIo == \A e \in loop.polled \cup loop.ready : e \notin SignalEvents

\* A signal event that is active has a call to make, also while its callback runs.
CallsLeft ==
  \A e \in SignalEvents :
    ev[e].closure = "signal" /\ "ACTIVE" \in q.flags[e] => ev[e].ncalls > 0

\* A thread that waits for the callback of a signal event finds it as it has left it.
WaitsFor(w) ==
  /\ w.op = "active" => w.n \in 1 .. MaxCalls
  /\ w.op = "add" => w.tv = NoTimeval
  /\ ev[w.ev].closure = "signal" => "ACTIVE" \notin q.flags[w.ev]

WaitingCalls ==
  \A t \in Thread : th[t].pc \in {"wait", "woken"} =>
    /\ WaitsFor(th[t])
    /\ th[t].pc = "woken" /\ ev[th[t].ev].closure = "signal" => loop.running # th[t].ev

\* While event_signal_closure runs, threads wait, and nobody makes the event active again.
RunningCalls ==
  loop.running \in SignalEvents /\ ev[loop.running].closure = "signal" =>
    base.current_event = loop.running /\ "ACTIVE" \notin q.flags[loop.running]

\* While event_signal_closure has calls left, ev_ncalls and ev_pncalls say so, and nobody has
\* deleted the event.
CallsKept ==
  loop.ncalls > 0 =>
    /\ loop.pc \in {"count", "callback"} /\ loop.running \in SignalEvents
    /\ ev[loop.running].closure = "signal"
    /\ ev[loop.running].ncalls > 0 /\ ev[loop.running].pncalls
    /\ loop.running \in Persist => hist.armed[loop.running]

SInv ==
  /\ SignalKinds /\ NoneLater /\ Untimed /\ OnlyIo /\ CallsLeft
  /\ WaitingCalls /\ RunningCalls /\ CallsKept

\* Signal events are events of the application.
LEMMA SignalsAreEvents ==
  /\ SignalEvents \subseteq UserEvent /\ SignalEvents \subseteq Event
  /\ SignalEvents \subseteq Callback /\ NotifyEv \notin SignalEvents /\ ExitEv \notin SignalEvents
  /\ SignalEvents \cap Deferred = {} /\ NoCallback \notin SignalEvents
  BY BaseAssumption, UserEvents DEF SignalEvents, UserEvent

\* Nothing is active, and no call is left, initially.
LEMMA InitSInv == Init => SInv
<1> SUFFICES ASSUME Init
             PROVE  SInv
  OBVIOUS
<1>1. /\ loop = Outside /\ \A t \in Thread : th[t] = Idle
      /\ q = event_queue_insert_inserted(EmptyQueues, NotifyEv)
  BY DEF Init
<1>2. \A c \in Callback : /\ ev[c].ncalls = 0
                          /\ ev[c].closure = "signal" => c \notin Deferred /\ Kind[c] = "signal"
  BY DEF Init
<1>3. \A c \in Callback : q.flags[c] \subseteq {"INSERTED"}
  <2>1. NotifyEv \in Callback
    BY BaseAssumption DEF Callback
  <2> QED
    BY <1>1, <2>1 DEF event_queue_insert_inserted, EmptyQueues
<1>4. SignalKinds
  BY <1>2 DEF SignalKinds, SignalEvents, Callback, Init
<1>5. NoneLater /\ Untimed /\ CallsLeft
  BY <1>3, SignalsAreEvents DEF NoneLater, Untimed, CallsLeft
<1>6. OnlyIo /\ WaitingCalls /\ RunningCalls /\ CallsKept
  BY <1>1, SignalsAreEvents
  DEF Outside, Idle, OnlyIo, WaitingCalls, RunningCalls, CallsKept
<1> QED
  BY <1>4, <1>5, <1>6 DEF SInv

\* The step concerns no callback but c, and leaves the loop where it is, but for calls that are
\* not to be made.
Touches(c) ==
  /\ \A d \in Callback \ {c} :
       q'.flags[d] = q.flags[d] /\ ev'[d] = ev[d] /\ hist'.armed[d] = hist.armed[d]
  /\ base'.current_event = base.current_event
  /\ loop'.pc = loop.pc /\ loop'.running = loop.running
  /\ loop'.polled \subseteq loop.polled /\ loop'.ready \subseteq loop.ready
  /\ loop'.ncalls \in Nat /\ loop'.ncalls <= loop.ncalls

\* No thread begins to wait but as WaitsFor says.
CallersStay ==
  \A t \in Thread : th'[t].pc \in {"wait", "woken"} =>
    \/ th'[t] = th[t]
    \/ th'[t].pc = "wait" /\ WaitsFor(th[t])'

\* The step leaves the calls of c alone.
SameCalls(c) ==
  /\ ev'[c].ncalls = ev[c].ncalls /\ ev'[c].pncalls = ev[c].pncalls
  /\ "ACTIVE" \in q'.flags[c] => "ACTIVE" \in q.flags[c]

\* The step gives c some calls, and nobody waits for its callback.
NewCalls(c) ==
  /\ ev'[c].ncalls > 0
  /\ \A t \in Thread : th'[t].pc \in {"wait", "woken"} => th'[t].ev # c

\* The step gives c no calls while its callback runs, and deletes it only with those left.
Calm(c) ==
  /\ ev'[c].closure = "persist" => ev[c].closure = "persist"
  /\ ev'[c].closure = "signal" =>
       /\ ev[c].closure = "signal"
       /\ \/ SameCalls(c)
          \/ NewCalls(c) /\ loop.running # c
  /\ c \in SignalEvents =>
       q'.flags[c] \cap {"ACTIVE_LATER", "TIMEOUT"} \subseteq q.flags[c]
  /\ loop'.ncalls > 0 /\ loop.running = c =>
       /\ ev'[c].closure = ev[c].closure
       /\ c \in Persist /\ hist.armed[c] => hist'.armed[c]

\* Such a step keeps the invariant.
LEMMA CalmSInv ==
  ASSUME IInv, IInv', SInv, NEW c \in Callback, Touches(c), Calm(c), CallersStay
  PROVE  SInv'
<1> USE DEF Touches
<1>1. /\ loop.ncalls \in Nat
      /\ \A t \in Thread : th'[t].pc # "idle" => th'[t].ev \in Callback
  <2>1. loop \in LoopLocals
    BY NowTypes
  <2>2. \A t \in Thread : th'[t].pc # "idle" => th'[t].ev \in Callback
    BY DEF IInv, Located, Callback
  <2> QED
    BY <2>1, <2>2 DEF LoopLocals
<1>2. SignalKinds'
  BY DEF SInv, SignalKinds, Calm
<1>3. NoneLater' /\ Untimed'
  BY SignalsAreEvents DEF SInv, NoneLater, Untimed, Calm
<1>4. OnlyIo'
  BY DEF SInv, OnlyIo
<1>5. CallsLeft'
  BY SignalsAreEvents DEF SInv, CallsLeft, Calm, SameCalls, NewCalls
<1>6. RunningCalls'
  <2> SUFFICES ASSUME loop.running \in SignalEvents, ev'[loop.running].closure = "signal"
               PROVE  base.current_event = loop.running /\ "ACTIVE" \notin q'.flags[loop.running]
    BY DEF RunningCalls
  <2>1. loop.running \in Callback
    BY SignalsAreEvents
  <2>2. /\ ev[loop.running].closure = "signal"
        /\ "ACTIVE" \in q'.flags[loop.running] => "ACTIVE" \in q.flags[loop.running]
    BY <2>1 DEF Calm, SameCalls
  <2> QED
    BY <2>2 DEF SInv, RunningCalls
<1>7. CallsKept'
  <2> SUFFICES ASSUME loop'.ncalls > 0
               PROVE  /\ loop.pc \in {"count", "callback"} /\ loop.running \in SignalEvents
                      /\ ev'[loop.running].closure = "signal"
                      /\ ev'[loop.running].ncalls > 0 /\ ev'[loop.running].pncalls
                      /\ loop.running \in Persist => hist'.armed[loop.running]
    BY DEF CallsKept
  <2>1. loop.ncalls > 0
    BY <1>1
  <2>2. /\ loop.pc \in {"count", "callback"} /\ loop.running \in SignalEvents
        /\ ev[loop.running].closure = "signal"
        /\ ev[loop.running].ncalls > 0 /\ ev[loop.running].pncalls
        /\ loop.running \in Persist => hist.armed[loop.running]
    BY <2>1 DEF SInv, CallsKept
  <2>3. CASE loop.running = c
    BY <2>2, <2>3 DEF Calm, SameCalls
  <2>4. CASE loop.running # c
    BY <2>2, <2>4, SignalsAreEvents
  <2> QED
    BY <2>3, <2>4
<1>8. WaitingCalls'
  <2> SUFFICES ASSUME NEW t \in Thread, th'[t].pc \in {"wait", "woken"}
               PROVE  /\ WaitsFor(th[t])'
                      /\ th'[t].pc = "woken" /\ ev'[th'[t].ev].closure = "signal" =>
                           loop'.running # th'[t].ev
    BY DEF WaitingCalls
  <2>1. CASE th'[t] = th[t]
    <3> DEFINE d == th[t].ev
    <3>1. d \in Callback
      BY <1>1, <2>1
    <3>2. /\ WaitsFor(th[t])
          /\ th[t].pc = "woken" /\ ev[d].closure = "signal" => loop.running # d
      BY <2>1 DEF SInv, WaitingCalls
    <3>3. ev'[d].closure = "signal" =>
            /\ ev[d].closure = "signal"
            /\ "ACTIVE" \in q'.flags[d] => "ACTIVE" \in q.flags[d]
      BY <2>1, <3>1 DEF Calm, SameCalls, NewCalls
    <3> QED
      BY <2>1, <3>2, <3>3 DEF WaitsFor
  <2>2. CASE th'[t] # th[t]
    BY <2>2 DEF CallersStay
  <2> QED
    BY <2>1, <2>2
<1> QED
  BY <1>2, <1>3, <1>4, <1>5, <1>6, <1>7, <1>8 DEF SInv

\* A thread has to wait for the callback of a signal event, which is not active meanwhile.
LEMMA RunningWaits ==
  ASSUME SInv, WInv, NEW e \in Callback, ev[e].closure = "signal", NEW a
  PROVE  /\ Kind[e] = "signal"
         /\ loop.running = e /\ a # LoopThread => Running(a, e)
         /\ Running(a, e) => "ACTIVE" \notin q.flags[e]
<1>1. e \in SignalEvents /\ e # NoCallback
  BY SignalsAreEvents DEF SInv, SignalKinds
<1>2. loop.running = e => base.current_event = e /\ "ACTIVE" \notin q.flags[e]
  BY <1>1 DEF SInv, RunningCalls
<1>3. base.current_event = e => loop.running = e /\ base.th_owner_id = LoopThread
  BY <1>1 DEF WInv
<1> QED
  BY <1>1, <1>2, <1>3 DEF Running, EVBASE_IN_THREAD, SignalEvents

\* current_event in the bases of the API
SameCurrent(b, n) == n.current_event = b.current_event

\* None of the functions on the base of a call sets current_event.
LEMMA CurrentBases ==
  ASSUME NEW b \in BaseFields, NEW a, NEW e
  PROVE  /\ SameCurrent(b, b)
         /\ SameCurrent(b, evthread_notify_base(b, a))
         /\ SameCurrent(b, DelNotifies(e, b, a))
         /\ \A s, tv, v : SameCurrent(b, AddNotifies(s, e, tv, v, b, a))
         /\ SameCurrent(b, Waiting(b))
         /\ SameCurrent(b, ActiveContinue(b, e))
<1>1. SameCurrent(b, b) /\ SameCurrent(b, evthread_notify_base(b, a))
  BY DEF BaseFields, SameCurrent, evthread_notify_base
<1>2. SameCurrent(b, DelNotifies(e, b, a))
      /\ \A s, tv, v : SameCurrent(b, AddNotifies(s, e, tv, v, b, a))
  BY <1>1 DEF DelNotifies, AddNotifies
<1>3. SameCurrent(b, Waiting(b)) /\ SameCurrent(b, ActiveContinue(b, e))
  BY DEF BaseFields, SameCurrent, Waiting, ActiveContinue
<1> QED
  BY <1>1, <1>2, <1>3

\* *ev_pncalls = 0 leaves no more calls than there were.
LEMMA AbortLeaves ==
  ASSUME IInv, NEW e, loop' \in AbortLoop(e) \cup {loop}
  PROVE  /\ loop'.pc = loop.pc /\ loop'.running = loop.running /\ loop'.polled = loop.polled
         /\ loop'.ready = loop.ready /\ loop'.ncalls \in Nat /\ loop'.ncalls <= loop.ncalls
<1>1. loop \in LoopLocals /\ loop.ncalls \in Nat
  BY NowTypes DEF LoopLocals
<1>2. Min2(1, loop.ncalls) \in Nat /\ Min2(1, loop.ncalls) <= loop.ncalls
  BY <1>1 DEF Min2
<1>3. PICK n \in {0, Min2(1, loop.ncalls), loop.ncalls} :
        \/ loop' = loop /\ n = loop.ncalls
        \/ loop' = [loop EXCEPT !.ncalls = n]
  BY DEF AbortLoop
<1>4. n \in Nat /\ n <= loop.ncalls
  BY <1>1, <1>2
<1> QED
  BY <1>1, <1>3, <1>4 DEF LoopLocals

\* A call of the API about c touches c only.
LEMMA EffectTouches ==
  ASSUME IInv, NEW a, NEW c \in Callback, Effect(a, c), SameCurrent(base, base'),
         NEW e, loop' \in AbortLoop(e) \cup {loop}
  PROVE  Touches(c)
  BY AbortLeaves DEF Effect, About, SameCurrent, Touches

\* *ev_pncalls = 0: no calls are left of an event that is deleted in its callback.
LEMMA AbortsCalls ==
  ASSUME IInv, SInv, NEW e, loop.running = e, loop' \in AbortLoop(e),
         ~(loop.pc = "count" /\ loop.ncalls > 0)
  PROVE  ~(loop'.ncalls > 0)
<1> DEFINE zero == [loop EXCEPT !.ncalls = 0]
<1>1. zero.ncalls = 0 /\ loop.ncalls \in Nat
  BY NowTypes DEF LoopLocals
<1>2. CASE loop.ncalls > 0
  <2>1. loop.pc = "callback" /\ Kind[e] = "signal" /\ ev[e].ncalls # 0 /\ ev[e].pncalls
    BY <1>2 DEF SInv, CallsKept, SignalEvents
  <2>2. loop' = zero
    BY <2>1 DEF AbortLoop
  <2> QED
    BY <1>1, <2>2
<1>3. CASE loop.ncalls = 0
  BY <1>1, <1>3, AbortLeaves
<1> QED
  BY <1>1, <1>2, <1>3

\* The fields v keep the closure of e and its calls.
KeepsCalls(v, e) ==
  /\ v[e].closure = ev[e].closure
  /\ v[e].ncalls = ev[e].ncalls /\ v[e].pncalls = ev[e].pncalls

\* What the functions on the fields do to ev_ncalls
LEMMA FieldsCalls ==
  ASSUME IInv, NEW e \in Callback
  PROVE  /\ KeepsCalls(ev, e)
         /\ \A s, res : KeepsCalls(ActiveResult(s, e, res), e)
         /\ \A tv, now : /\ KeepsCalls(AddFields(e, tv, FALSE, now), e)
                         /\ KeepsCalls(AddFields(e, tv, TRUE, now), e)
         /\ \A n : \A v \in [Callback -> CallbackFields] :
              LET w == ActiveCalls(v, e, n)
              IN  /\ w[e].closure = v[e].closure
                  /\ Kind[e] = "signal" => w[e].ncalls = n
                  /\ Kind[e] # "signal" => w = v
<1>1. ev \in [Callback -> CallbackFields]
  BY NowTypes
<1>2. ASSUME NEW s, NEW res
      PROVE  KeepsCalls(ActiveResult(s, e, res), e)
  BY <1>1 DEF ActiveResult, CallbackFields, KeepsCalls
<1>3. ASSUME NEW tv, NEW now
      PROVE  /\ KeepsCalls(AddFields(e, tv, FALSE, now), e)
             /\ KeepsCalls(AddFields(e, tv, TRUE, now), e)
  BY <1>1 DEF AddFields, CallbackFields, KeepsCalls
<1>4. ASSUME NEW v \in [Callback -> CallbackFields], NEW n
      PROVE  LET w == ActiveCalls(v, e, n)
             IN  /\ w[e].closure = v[e].closure
                 /\ Kind[e] = "signal" => w[e].ncalls = n
                 /\ Kind[e] # "signal" => w = v
  BY DEF ActiveCalls, CallbackFields
<1> QED
  BY <1>2, <1>3, <1>4 DEF KeepsCalls

\* The threads: none begins to wait, or one does.
LEMMA CallersStep ==
  ASSUME IInv
  PROVE  /\ UNCHANGED th => CallersStay
         /\ \A t : th' = [th EXCEPT ![t] = Idle] => CallersStay
         /\ \A t, e : th' = Deleted(t, e) => CallersStay
         /\ \A t, op, e, tv, n :
              /\ CondWait(t, op, e, tv, n)
              /\ op = "active" => n \in 1 .. MaxCalls
              /\ op = "add" => tv = NoTimeval
              /\ ev'[e].closure = "signal" => "ACTIVE" \notin q'.flags[e]
              => CallersStay
<1>1. th \in [Thread -> ThreadLocals]
  BY Parts
<1>2. UNCHANGED th => CallersStay
  BY DEF CallersStay
<1>3. ASSUME NEW t, th' = [th EXCEPT ![t] = Idle]
      PROVE  CallersStay
  BY <1>1, <1>3 DEF CallersStay, Idle
<1>4. ASSUME NEW t, NEW e, th' = Deleted(t, e)
      PROVE  CallersStay
  BY <1>1, <1>4 DEF CallersStay, Deleted, Idle
<1>5. ASSUME NEW t, NEW op, NEW e, NEW tv, NEW n, CondWait(t, op, e, tv, n),
             op = "active" => n \in 1 .. MaxCalls,
             op = "add" => tv = NoTimeval,
             ev'[e].closure = "signal" => "ACTIVE" \notin q'.flags[e]
      PROVE  CallersStay
  <2> DEFINE w == [pc |-> "wait", op |-> op, ev |-> e, tv |-> tv, n |-> n]
  <2>1. \A u \in Thread : th'[u] = th[u] \/ th'[u] = w
    BY <1>1, <1>5 DEF CondWait
  <2>2. \A u \in Thread : th'[u] = w => th'[u].pc = "wait" /\ WaitsFor(th[u])'
    BY <1>5 DEF WaitsFor
  <2> HIDE DEF w
  <2> QED
    BY <2>1, <2>2 DEF CallersStay
<1> QED
  BY <1>2, <1>3, <1>4, <1>5

\* event_add_nolock_ after the wait leaves the calls alone.
LEMMA AddNowCalm ==
  ASSUME IInv, IInv', SInv, NEW a, NEW e \in Event, NEW tv \in Timeval, AddNow(a, e, tv),
         e \in SignalEvents => tv = NoTimeval
  PROVE  Touches(e) /\ Calm(e)
<1>1. /\ e \in Callback /\ Good(q) /\ Good(q') /\ base \in BaseFields /\ gettime(base) \in Nat
      /\ q.flags \in [Callback -> SUBSET Flag]
  BY UserEvents, NowTypes, NextTypes, Parts, TimeTypes
<1>2. /\ ev' = AddFields(e, tv, FALSE, gettime(base))
      /\ q' = event_add_nolock_(q, e, tv)
      /\ SameCurrent(base, base')
      /\ hist'.armed[e] = TRUE
  BY <1>1, CurrentBases, AskedTypes, Parts DEF AddNow, Asked, History
<1>3. UNCHANGED loop
  BY DEF AddNow, AbortLoop, SignalEvents
<1>4. Touches(e)
  BY <1>1, <1>2, <1>3, AddNowEffect, EffectTouches
<1>5. /\ q'.flags[e] \subseteq q.flags[e] \cup {"INSERTED", "TIMEOUT"}
      /\ tv = NoTimeval => q'.timeheap = q.timeheap
  BY <1>1, <1>2, AddEffect
<1>6. e \in SignalEvents => ("TIMEOUT" \in q'.flags[e] => "TIMEOUT" \in q.flags[e])
  <2>1. q.timeheap = With(q, "TIMEOUT") /\ q'.timeheap = With(q', "TIMEOUT")
    BY <1>1, GoodFields
  <2> QED
    BY <1>1, <1>5, <2>1 DEF With
<1>7. ev'[e].closure = ev[e].closure /\ SameCalls(e)
  <2>1. KeepsCalls(ev', e)
    BY <1>1, <1>2, FieldsCalls
  <2> QED
    BY <1>5, <2>1 DEF KeepsCalls, SameCalls
<1> QED
  BY <1>2, <1>4, <1>5, <1>6, <1>7 DEF Calm

\* event_del_nolock_ after the wait ends the calls.
LEMMA DelNowCalm ==
  ASSUME IInv, SInv, NEW a, NEW e \in Event, DelNow(a, e),
         ~(loop.running = e /\ loop.pc = "count" /\ loop.ncalls > 0)
  PROVE  Touches(e) /\ Calm(e)
<1>1. e \in Callback /\ Good(q) /\ base \in BaseFields /\ q.flags \in [Callback -> SUBSET Flag]
  BY UserEvents, NowTypes
<1>2. /\ ev' = ev /\ q' = event_del_nolock_(q, e)
      /\ SameCurrent(base, base') /\ loop' \in AbortLoop(e)
  BY <1>1, CurrentBases DEF DelNow
<1>3. Touches(e)
  BY <1>1, <1>2, DelNowEffect, EffectTouches
<1>4. q'.flags[e] \subseteq q.flags[e]
  <2>1. q'.flags = [q.flags EXCEPT ![e] = q.flags[e] \ Registration]
    BY <1>1, <1>2, DelEffect DEF Lowers
  <2> QED
    BY <1>1, <2>1
<1>5. SameCalls(e)
  BY <1>2, <1>4 DEF SameCalls
<1> QED
  BY <1>1, <1>2, <1>3, <1>4, <1>5, AbortsCalls DEF Calm

\* event_active_nolock_ after the wait gives the event its calls, if its callback does not run.
LEMMA ActivateNowCalm ==
  ASSUME IInv, SInv, NEW a, NEW e \in Event, NEW n \in Nat, NEW v, Keeps(v, e), KeepsCalls(v, e),
         NEW b, ActivateNow(a, e, n, v, b), UNCHANGED loop, Touches(e),
         e \in SignalEvents =>
           /\ n > 0
           /\ ev[e].closure = "signal" => loop.running # e
           /\ \A t \in Thread : th'[t].pc \in {"wait", "woken"} => th'[t].ev # e
  PROVE  Calm(e)
<1>1. e \in Callback /\ Good(q) /\ q.flags \in [Callback -> SUBSET Flag]
  BY UserEvents, NowTypes
<1>2. /\ ev' = ActiveCalls(v, e, n)
      /\ q' \in {q, event_callback_activate_nolock_(q, e)}
  BY DEF ActivateNow
<1>3. q'.flags[e] \cap {"ACTIVE_LATER", "TIMEOUT"} \subseteq q.flags[e]
  <2>1. \/ q' = q
        \/ q'.flags = [q.flags EXCEPT ![e] = (q.flags[e] \ {"ACTIVE_LATER"}) \cup {"ACTIVE"}]
    BY <1>1, <1>2, ActivateEffect
  <2> QED
    BY <1>1, <2>1
<1>4. v \in [Callback -> CallbackFields]
  BY DEF Keeps
<1>5. CASE e \in SignalEvents
  <2>1. ev'[e].closure = ev[e].closure /\ ev'[e].ncalls = n
    BY <1>1, <1>2, <1>4, <1>5, FieldsCalls DEF SignalEvents, KeepsCalls
  <2>2. NewCalls(e)
    BY <1>5, <2>1 DEF NewCalls
  <2>3. loop'.ncalls > 0 => loop.running # e
    BY <1>5 DEF SInv, CallsKept
  <2> QED
    BY <1>3, <1>5, <2>1, <2>2, <2>3 DEF Calm
<1>6. CASE e \notin SignalEvents
  <2>1. ev' = v
    BY <1>1, <1>2, <1>4, <1>6, FieldsCalls DEF SignalEvents
  <2>2. ev[e].closure # "signal"
    BY <1>1, <1>6 DEF SInv, SignalKinds
  <2>3. ~(loop.ncalls > 0 /\ loop.running = e)
    BY <1>6 DEF SInv, CallsKept
  <2> QED
    BY <1>1, <1>6, <2>1, <2>2, <2>3 DEF Calm, KeepsCalls
<1> QED
  BY <1>5, <1>6

\* event_finalize_nolock_, before and after the wait: the closure is no longer that of a signal.
LEMMA FinalizeCalm ==
  ASSUME IInv, SInv, NEW e \in Event, NEW s \in {q, event_del_nolock_(q, e)},
         NEW v \in [Callback -> CallbackFields], Final(v, e),
         ev' \in {v, ActiveCalls(v, e, 1)},
         q' \in {s, SetFinalizing(s, e),
                 SetFinalizing(event_callback_activate_nolock_(s, e), e)},
         ~(loop'.ncalls > 0 /\ loop.running = e)
  PROVE  Calm(e)
<1>1. e \in Callback /\ Good(q) /\ q.flags \in [Callback -> SUBSET Flag]
  BY UserEvents, NowTypes
<1>2. Good(s) /\ s.flags \in [Callback -> SUBSET Flag] /\ s.flags[e] \subseteq q.flags[e]
  <2>1. CASE s = q
    BY <1>1, <2>1
  <2>2. CASE s = event_del_nolock_(q, e)
    <3>1. Good(s) /\ s.flags = [q.flags EXCEPT ![e] = q.flags[e] \ Registration]
      BY <1>1, <2>2, DelGood, DelEffect DEF Lowers
    <3> QED
      BY <1>1, <3>1
  <2> QED
    BY <2>1, <2>2
<1>3. q'.flags[e] \cap {"ACTIVE_LATER", "TIMEOUT"} \subseteq q.flags[e]
  <2> DEFINE r == event_callback_activate_nolock_(s, e)
  <2>1. /\ r.flags \in [Callback -> SUBSET Flag] /\ r \in Queues
        /\ r.flags[e] = (s.flags[e] \ {"ACTIVE_LATER"}) \cup {"ACTIVE"}
    <3>1. /\ Good(r)
          /\ r.flags = [s.flags EXCEPT ![e] = (s.flags[e] \ {"ACTIVE_LATER"}) \cup {"ACTIVE"}]
      BY <1>1, <1>2, ActivateGood, ActivateEffect
    <3> HIDE DEF r
    <3> QED
      BY <1>1, <1>2, <3>1, GoodFields
  <2>2. \A x : x \in Queues => SetFinalizing(x, e).flags[e] = x.flags[e] \cup {"FINALIZING"}
    BY <1>1 DEF SetFinalizing, Queues
  <2>3. s \in Queues
    BY <1>2, GoodFields
  <2> HIDE DEF r
  <2>4. q' \in {s, SetFinalizing(s, e), SetFinalizing(r, e)}
    BY DEF r
  <2> QED
    BY <1>2, <2>1, <2>2, <2>3, <2>4
<1>4. ev'[e].closure = v[e].closure
  <2> DEFINE w == ActiveCalls(v, e, 1)
  <2>1. w[e].closure = v[e].closure
    BY <1>1, FieldsCalls
  <2> HIDE DEF w
  <2>2. ev' \in {v, w}
    BY DEF w
  <2> QED
    BY <2>1, <2>2
<1> QED
  BY <1>1, <1>3, <1>4 DEF Calm, Final

-----------------------------------------------------------------------------
(* The calls of the API, one by one.                                       *)

\* event_add keeps the calls of the signal events.
LEMMA AddSInv ==
  ASSUME SignalsByTheBook, IInv, IInv', WInv, SInv, NEW a, NEW e \in UserEvent,
         NEW tv \in Delays \cup {NoTimeval}, event_add(a, e, tv)
  PROVE  SInv'
<1>1. /\ e \in Event /\ e \in Callback /\ base \in BaseFields /\ tv \in Timeval
      /\ e \in SignalEvents => tv = NoTimeval
  BY UserEvents, NowTypes, BaseAssumption DEF Timeval, SignalsByTheBook
<1>2. CASE AddNow(a, e, tv) /\ UNCHANGED th
  BY <1>1, <1>2, AddNowCalm, CallersStep, CalmSInv
<1>3. CASE /\ CondWait(a, "add", e, tv, 0) /\ Kind[e] = "signal" /\ Running(a, e)
           /\ base' = Waiting(base) /\ UNCHANGED <<q, ev, loop, hist>>
  <2>1. Touches(e)
    BY <1>1, <1>3, CurrentBases, NowTypes DEF Touches, SameCurrent, LoopLocals
  <2>2. Calm(e)
    BY <1>3 DEF Calm, SameCalls
  <2>3. tv = NoTimeval /\ (ev'[e].closure = "signal" => "ACTIVE" \notin q'.flags[e])
    BY <1>1, <1>3, RunningWaits DEF SignalEvents
  <2>4. CallersStay
    BY <1>3, <2>3, CallersStep
  <2> QED
    BY <1>1, <2>1, <2>2, <2>4, CalmSInv
<1> QED
  BY <1>2, <1>3 DEF event_add

\* event_remove_timer: by the book it is not called if there are signal events.
LEMMA RemoveTimerSInv ==
  ASSUME SignalsByTheBook, IInv, IInv', SInv, NEW a, NEW e \in UserEvent, event_remove_timer(a, e)
  PROVE  SInv'
<1>1. /\ e \in Event /\ e \in Callback /\ ev \in [Callback -> CallbackFields]
      /\ Good(q) /\ q.flags \in [Callback -> SUBSET Flag]
  BY UserEvents, NowTypes
<1>2. /\ q' = event_queue_remove_timeout(q, e) /\ UNCHANGED <<base, loop, th>>
      /\ ev' = IF Kind[e] = "signal" THEN [ev EXCEPT ![e].ncalls = 0]
               ELSE [ev EXCEPT ![e].io_timeout = 0]
      /\ "event_remove_timer" \in Calls
  BY DEF event_remove_timer, CanCall, Calls
<1>3. e \notin SignalEvents /\ ev[e].closure # "signal"
  BY <1>1, <1>2 DEF SignalsByTheBook, SInv, SignalKinds
<1>4. KeepsCalls(ev', e)
  BY <1>1, <1>2, <1>3 DEF SignalEvents, CallbackFields, KeepsCalls
<1>5. Touches(e)
  BY <1>1, <1>2, RemoveTimerEffects, EffectTouches DEF SameCurrent
<1>6. Calm(e)
  BY <1>2, <1>3, <1>4 DEF Calm, KeepsCalls, SInv, CallsKept
<1> QED
  BY <1>1, <1>2, <1>5, <1>6, CallersStep, CalmSInv

\* event_del ends the calls of an event that its callback deletes, and waits for it otherwise.
LEMMA DelSInv ==
  ASSUME SignalsByTheBook, IInv, IInv', WInv, SInv, NEW a \in Actor, NEW e \in UserEvent, NEW f,
         event_del(a, e, f)
  PROVE  SInv'
<1>1. e \in Event /\ e \in Callback /\ base \in BaseFields
  BY UserEvents, NowTypes
<1>2. CASE /\ DelNow(a, e) /\ (UNCHANGED th \/ th' = Deleted(a, e))
           /\ ~(/\ f # "event_del_noblock" /\ Running(a, e)
                /\ (f = "event_del_block" \/ e \notin EvFinalize))
  <2>1. ~(loop.running = e /\ loop.pc = "count" /\ loop.ncalls > 0)
    <3> SUFFICES ASSUME loop.running = e, loop.pc = "count", loop.ncalls > 0
                 PROVE  FALSE
      OBVIOUS
    <3>1. e \in SignalEvents /\ ev[e].closure = "signal"
      BY DEF SInv, CallsKept
    <3>2. a # LoopThread /\ f \in ThreadApi
      BY DEF event_del, CanCall, InUserCallback
    <3>3. Running(a, e)
      BY <1>1, <3>1, <3>2, RunningWaits
    <3>4. f # "event_del_noblock" /\ e \notin EvFinalize
      BY <3>1, <3>2 DEF SignalsByTheBook
    <3> QED
      BY <1>2, <3>3, <3>4
  <2>2. Touches(e) /\ Calm(e)
    BY <1>1, <1>2, <2>1, DelNowCalm
  <2> QED
    BY <1>1, <1>2, <2>2, CallersStep, CalmSInv
<1>3. CASE /\ CondWait(a, "del", e, NoTimeval, 0) /\ Running(a, e) /\ base' = Waiting(base)
           /\ UNCHANGED <<q, ev, loop, hist>>
  <2>1. Touches(e)
    BY <1>1, <1>3, CurrentBases, NowTypes DEF Touches, SameCurrent, LoopLocals
  <2>2. Calm(e)
    BY <1>3 DEF Calm, SameCalls
  <2>3. ev'[e].closure = "signal" => "ACTIVE" \notin q'.flags[e]
    BY <1>1, <1>3, RunningWaits
  <2>4. CallersStay
    BY <1>3, <2>3, CallersStep
  <2> QED
    BY <1>1, <2>1, <2>2, <2>4, CalmSInv
<1> QED
  BY <1>2, <1>3 DEF event_del

\* event_active gives calls when the event is not active, or before it begins to wait.
LEMMA ActiveSInv ==
  ASSUME SignalsByTheBook, IInv, IInv', WInv, SInv, NEW a \in Actor, NEW e \in UserEvent,
         NEW n \in 1 .. (IF Kind[e] = "signal" THEN MaxCalls ELSE 1), event_active(a, e, n)
  PROVE  SInv'
<1> DEFINE v == ActiveResult(q, e, IF Kind[e] = "signal" THEN {"EV_SIGNAL"} ELSE {"EV_READ"})
           b == ActiveContinue(base, e)
<1>1. /\ e \in Event /\ e \in Callback /\ base \in BaseFields /\ n \in Nat
      /\ UNCHANGED loop
  BY UserEvents, NowTypes DEF event_active
<1>2. Keeps(v, e) /\ KeepsCalls(v, e)
  <2>1. NoTimeval \in Timeval /\ 0 \in Nat
    BY DEF Timeval
  <2>2. (IF Kind[e] = "signal" THEN {"EV_SIGNAL"} ELSE {"EV_READ"}) \in SUBSET Result
    BY DEF Result
  <2> QED
    BY <1>1, <2>1, <2>2, FieldsEffect, FieldsCalls
<1>3. b \in BaseFields /\ SameCurrent(base, b)
  BY <1>1, NotifyEffect, CurrentBases
<1>4. \/ "ACTIVE" \in q.flags[e] /\ ev' = v /\ UNCHANGED <<q, base, th, hist>>
      \/ /\ CondWait(a, "active", e, NoTimeval, n) /\ Kind[e] = "signal" /\ Running(a, e)
         /\ ev' = v /\ base' = Waiting(b) /\ UNCHANGED <<q, hist>>
      \/ /\ ActivateNow(a, e, n, v, b) /\ UNCHANGED th
         /\ ~(Kind[e] = "signal" /\ Running(a, e))
  BY DEF event_active
<1> HIDE DEF v, b
<1>5. SameCurrent(base, base')
  <2>1. base' \in {base, b, Waiting(b), evthread_notify_base(b, a)}
    BY <1>4 DEF ActivateNow
  <2>2. SameCurrent(b, Waiting(b)) /\ SameCurrent(b, evthread_notify_base(b, a))
    BY <1>3, CurrentBases
  <2> QED
    BY <1>3, <2>1, <2>2 DEF SameCurrent
<1>6. Touches(e)
  BY <1>1, <1>5, ActiveEffects, EffectTouches
<1>7. CASE ev' = v /\ UNCHANGED <<q, hist>>
  <2>1. Calm(e)
    BY <1>2, <1>7 DEF Calm, SameCalls, KeepsCalls
  <2>2. CASE UNCHANGED th
    BY <1>1, <1>6, <2>1, <2>2, CallersStep, CalmSInv
  <2>3. CASE /\ CondWait(a, "active", e, NoTimeval, n) /\ Kind[e] = "signal" /\ Running(a, e)
    <3>1. n \in 1 .. MaxCalls /\ (ev'[e].closure = "signal" => "ACTIVE" \notin q'.flags[e])
      BY <1>1, <1>2, <1>7, <2>3, RunningWaits DEF KeepsCalls
    <3>2. CallersStay
      BY <2>3, <3>1, CallersStep
    <3> QED
      BY <1>1, <1>6, <2>1, <3>2, CalmSInv
  <2>4. CASE ActivateNow(a, e, n, v, b) /\ UNCHANGED th
    BY <2>2, <2>4
  <2> QED
    BY <1>4, <2>2, <2>3, <2>4
<1>8. CASE /\ ActivateNow(a, e, n, v, b) /\ UNCHANGED th
           /\ ~(Kind[e] = "signal" /\ Running(a, e))
  <2>1. ASSUME e \in SignalEvents
        PROVE  /\ n > 0
               /\ ev[e].closure = "signal" => loop.running # e
               /\ \A t \in Thread : th'[t].pc \in {"wait", "woken"} => th'[t].ev # e
    <3>1. /\ a \in Thread /\ a # LoopThread /\ th[a].pc = "idle"
          /\ \A t \in Thread : t = a
      BY <2>1, BaseAssumption DEF SignalsByTheBook, event_active, CanCall, Actor
    <3>2. \A t \in Thread : th'[t].pc = "idle"
      BY <1>8, <3>1
    <3>3. ev[e].closure = "signal" => loop.running # e
      BY <1>1, <1>8, <3>1, RunningWaits
    <3> QED
      BY <3>2, <3>3
  <2>2. Calm(e)
    BY <1>1, <1>2, <1>6, <1>8, <2>1, ActivateNowCalm
  <2> QED
    BY <1>1, <1>6, <1>8, <2>2, CallersStep, CalmSInv
<1> QED
  BY <1>4, <1>7, <1>8

\* event_active_later_: by the book it is not called if there are signal events.
LEMMA ActiveLaterSInv ==
  ASSUME SignalsByTheBook, IInv, IInv', SInv, NEW a, NEW e \in UserEvent, event_active_later_(a, e)
  PROVE  SInv'
<1>1. e \in Event /\ e \in Callback /\ base \in BaseFields
  BY UserEvents, NowTypes
<1>2. /\ ev' = ActiveResult(q, e, {"EV_READ"}) /\ UNCHANGED <<loop, th>>
      /\ base' \in {base, evthread_notify_base(base, a)}
      /\ "event_active_later_" \in Calls
  BY DEF event_active_later_, CanCall, Calls
<1>3. e \notin SignalEvents /\ ev[e].closure # "signal"
  BY <1>1, <1>2 DEF SignalsByTheBook, SInv, SignalKinds
<1>4. KeepsCalls(ev', e) /\ SameCurrent(base, base')
  BY <1>1, <1>2, FieldsCalls, CurrentBases
<1>5. Touches(e)
  BY <1>1, <1>2, <1>4, ActiveLaterEffects, EffectTouches
<1>6. Calm(e)
  BY <1>2, <1>3, <1>4 DEF Calm, KeepsCalls, SInv, CallsKept
<1> QED
  BY <1>1, <1>2, <1>5, <1>6, CallersStep, CalmSInv

\* event_finalize takes the calls of its event, which no thread does.
LEMMA FinalizeSInv ==
  ASSUME SignalsByTheBook, IInv, IInv', SInv, NEW a \in Actor, NEW e \in UserEvent,
         event_finalize(a, e)
  PROVE  SInv'
<1> DEFINE s == event_del_nolock_(q, e)
           v == [ev EXCEPT ![e].closure = "finalize", ![e].res = {"EV_FINALIZE"}]
           b == ActiveContinue(DelNotifies(e, base, a), e)
<1>1. e \in Event /\ e \in Callback /\ base \in BaseFields /\ ev \in [Callback -> CallbackFields]
  BY UserEvents, NowTypes
<1>2. v \in [Callback -> CallbackFields] /\ Final(v, e)
  BY <1>1 DEF CallbackFields, Closure, Result, Final
<1>3. b \in BaseFields /\ SameCurrent(base, b)
  <2>1. DelNotifies(e, base, a) \in BaseFields /\ SameCurrent(base, DelNotifies(e, base, a))
    BY <1>1, NotifyEffect, CurrentBases DEF DelNotifies
  <2> QED
    BY <2>1, NotifyEffect, CurrentBases DEF SameCurrent
<1>4. /\ \/ /\ CondWait(a, "finalize", e, NoTimeval, 1)
            /\ q' = s /\ ev' = v /\ base' = Waiting(b)
         \/ FinalizeNow(a, e, s, v, b) /\ UNCHANGED th
      /\ loop' \in AbortLoop(e)
  BY DEF event_finalize
<1> HIDE DEF v, b
<1>5. SameCurrent(base, base')
  BY <1>3, <1>4, CurrentBases DEF FinalizeNow, SameCurrent
<1>6. Touches(e)
  BY <1>1, <1>4, <1>5, FinalizeEffects, EffectTouches
<1>7. Calm(e)
  <2>1. /\ ev' \in {v, ActiveCalls(v, e, 1)}
        /\ q' \in {s, SetFinalizing(s, e),
                   SetFinalizing(event_callback_activate_nolock_(s, e), e)}
    BY <1>4 DEF FinalizeNow
  <2>2. ~(loop'.ncalls > 0 /\ loop.running = e)
    <3> SUFFICES ASSUME loop.running = e
                 PROVE  ~(loop'.ncalls > 0)
      OBVIOUS
    <3>1. ~(loop.pc = "count" /\ loop.ncalls > 0)
      <4>1. loop.pc = "count" => "event_finalize" \in ThreadApi
        BY DEF event_finalize, CanCall, InUserCallback
      <4>2. loop.ncalls > 0 => e \in SignalEvents
        BY DEF SInv, CallsKept
      <4> QED
        BY <4>1, <4>2 DEF SignalsByTheBook
    <3> QED
      BY <1>4, <3>1, AbortsCalls
  <2> QED
    BY <1>1, <1>2, <2>1, <2>2, FinalizeCalm
<1>8. CallersStay
  <2>1. CondWait(a, "finalize", e, NoTimeval, 1) => ev'[e].closure # "signal"
    <3>1. CASE ev' = v
      BY <1>2, <3>1 DEF Final
    <3>2. CASE FinalizeNow(a, e, s, v, b)
      <4>1. ev'[e].closure = v[e].closure
        BY <1>1, <1>2, <3>2, FieldsCalls DEF FinalizeNow
      <4> QED
        BY <1>2, <4>1 DEF Final
    <3> QED
      BY <1>4, <3>1, <3>2
  <2> QED
    BY <1>4, <2>1, CallersStep
<1> QED
  BY <1>1, <1>6, <1>7, <1>8, CalmSInv

\* The deferred callbacks are no signal events.
LEMMA DeferredSInv ==
  ASSUME IInv, IInv', SInv, NEW a, NEW c \in Deferred,
         \/ event_deferred_cb_schedule_(a, c)
         \/ event_deferred_cb_cancel_(a, c)
         \/ event_callback_finalize_(a, c)
  PROVE  SInv'
<1>1. c \in Callback /\ c \notin SignalEvents /\ base \in BaseFields
      /\ ev \in [Callback -> CallbackFields]
  BY UserEvents, NowTypes, SignalsAreEvents
<1>2. UNCHANGED <<loop, th>> /\ ev' \in {ev, [ev EXCEPT ![c].closure = "cb_finalize"]}
  BY DEF event_deferred_cb_schedule_, event_deferred_cb_cancel_, event_callback_finalize_
<1>3. SameCurrent(base, base')
  <2>1. PICK n \in {base, [base EXCEPT !.n_deferreds_queued = @ + 1]} :
          base' = n \/ base' = evthread_notify_base(n, a)
    BY DEF event_deferred_cb_schedule_, event_deferred_cb_cancel_, event_callback_finalize_
  <2>2. n \in BaseFields /\ SameCurrent(base, n)
    BY <1>1 DEF BaseFields, SameCurrent
  <2> QED
    BY <2>1, <2>2, CurrentBases DEF SameCurrent
<1>4. Touches(c)
  BY <1>1, <1>2, <1>3, DeferredEffects, EffectTouches
<1>5. ev[c].closure # "signal" /\ ~(loop.ncalls > 0 /\ loop.running = c)
  BY <1>1 DEF SInv, SignalKinds, CallsKept
<1>6. /\ ev'[c].closure # "signal"
      /\ ev'[c].closure = "persist" => ev[c].closure = "persist"
  BY <1>1, <1>2, <1>5 DEF CallbackFields
<1>7. Calm(c)
  BY <1>1, <1>2, <1>5, <1>6 DEF Calm
<1> QED
  BY <1>1, <1>2, <1>4, <1>7, CallersStep, CalmSInv

\* event_base_loopexit adds an event that is a timer.
LEMMA LoopExitSInv ==
  ASSUME IInv, IInv', SInv, NEW a, NEW tv \in Timeval, event_base_loopexit(a, tv)
  PROVE  SInv'
<1>1. /\ ExitEv \in Event /\ ExitEv \in Callback /\ ExitEv \notin SignalEvents
      /\ Kind[ExitEv] # "signal" /\ base \in BaseFields /\ ev \in [Callback -> CallbackFields]
      /\ UNCHANGED <<loop, th>>
  BY UserEvents, NowTypes, SignalsAreEvents, BaseAssumption DEF event_base_loopexit
<1> DEFINE v == ActiveResult(q, ExitEv, {"EV_TIMEOUT"})
           b == ActiveContinue(base, ExitEv)
           w == AddFields(ExitEv, tv, FALSE, gettime(base))
<1>2. \/ ev' = ActiveCalls(v, ExitEv, 1) /\ base' \in {b, evthread_notify_base(b, a)}
      \/ ev' = w /\ base' = AddNotifies(q, ExitEv, tv, w, base, a)
  BY DEF event_base_loopexit, ActivateNow
<1>3. SameCurrent(base, base')
  <2>1. b \in BaseFields /\ SameCurrent(base, b)
    BY <1>1, NotifyEffect, CurrentBases
  <2> HIDE DEF b, w
  <2>2. SameCurrent(b, evthread_notify_base(b, a))
    BY <2>1, CurrentBases
  <2>3. SameCurrent(base, AddNotifies(q, ExitEv, tv, w, base, a))
    BY <1>1, CurrentBases
  <2> QED
    BY <1>2, <2>1, <2>2, <2>3 DEF SameCurrent
<1>4. KeepsCalls(ev', ExitEv)
  <2>1. ActiveCalls(v, ExitEv, 1) = v
    BY <1>1 DEF ActiveCalls
  <2>2. KeepsCalls(v, ExitEv) /\ KeepsCalls(w, ExitEv)
    BY <1>1, FieldsCalls
  <2> QED
    BY <1>2, <2>1, <2>2
<1>5. Touches(ExitEv)
  BY <1>1, <1>3, LoopExitEffects, EffectTouches
<1>6. ev[ExitEv].closure # "signal" /\ ~(loop.ncalls > 0 /\ loop.running = ExitEv)
  BY <1>1 DEF SInv, SignalKinds, CallsKept
<1>7. Calm(ExitEv)
  BY <1>1, <1>4, <1>6 DEF Calm, KeepsCalls
<1> QED
  BY <1>1, <1>5, <1>7, CallersStep, CalmSInv

\* The calls about the base concern no callback.
LEMMA BaseCallSInv ==
  ASSUME IInv, IInv', SInv, NEW a,
         \/ event_base_loopbreak(a) \/ event_base_loopcontinue(a)
         \/ event_base_add_virtual_(a) \/ event_base_del_virtual_(a)
  PROVE  SInv'
<1>1. UNCHANGED <<q, ev, loop, th, hist>> /\ base \in BaseFields /\ ExitEv \in Callback
  BY NowTypes, UserEvents
  DEF event_base_loopbreak, event_base_loopcontinue, event_base_add_virtual_,
      event_base_del_virtual_
<1>2. SameCurrent(base, base')
  BY <1>1
  DEF event_base_loopbreak, event_base_loopcontinue, event_base_add_virtual_,
      event_base_del_virtual_, evthread_notify_base, BaseFields, SameCurrent
<1>3. Touches(ExitEv) /\ Calm(ExitEv)
  BY <1>1, <1>2, NowTypes DEF SameCurrent, Touches, Calm, SameCalls, LoopLocals
<1> QED
  BY <1>1, <1>3, CallersStep, CalmSInv

\* Every call keeps the calls of the signal events.
LEMMA ApiSInv ==
  ASSUME SignalsByTheBook, IInv, IInv', WInv, SInv, NEW a \in Actor, Api(a)
  PROVE  SInv'
<1>1. ASSUME NEW e \in UserEvent,
             \/ \E tv \in Delays \cup (IF Kind[e] = "timer" THEN {} ELSE {NoTimeval}) :
                  event_add(a, e, tv)
             \/ event_remove_timer(a, e)
             \/ \E f \in {"event_del", "event_del_block", "event_del_noblock"} :
                  event_del(a, e, f)
             \/ \E n \in 1 .. (IF Kind[e] = "signal" THEN MaxCalls ELSE 1) :
                  event_active(a, e, n)
             \/ event_active_later_(a, e)
             \/ event_finalize(a, e)
      PROVE  SInv'
  <2>1. \A tv \in Delays \cup (IF Kind[e] = "timer" THEN {} ELSE {NoTimeval}) :
          tv \in Delays \cup {NoTimeval}
    OBVIOUS
  <2> QED
    BY <1>1, <2>1, AddSInv, RemoveTimerSInv, DelSInv, ActiveSInv, ActiveLaterSInv, FinalizeSInv
<1>2. CASE \E tv \in Delays \cup {NoTimeval} : event_base_loopexit(a, tv)
  <2>1. Delays \cup {NoTimeval} \subseteq Timeval
    BY BaseAssumption DEF Timeval
  <2> QED
    BY <1>2, <2>1, LoopExitSInv
<1> QED
  BY <1>1, <1>2, DeferredSInv, BaseCallSInv DEF Api

\* So does a call that goes on after its wait, or returns.
LEMMA ThreadSInv ==
  ASSUME SignalsByTheBook, IInv, IInv', KInv, SInv, NEW t \in Thread,
         ThreadResume(t) \/ ThreadIdle(t)
  PROVE  SInv'
<1> DEFINE e == th[t].ev
<1>1. base \in BaseFields /\ th \in [Thread -> ThreadLocals] /\ ExitEv \in Callback
      /\ ev \in [Callback -> CallbackFields]
  BY NowTypes, Parts, UserEvents
<1>2. CASE ThreadIdle(t)
  <2>1. Touches(ExitEv) /\ Calm(ExitEv)
    BY <1>1, <1>2, NowTypes DEF ThreadIdle, Touches, Calm, SameCalls, LoopLocals
  <2> QED
    BY <1>1, <1>2, <2>1, CallersStep, CalmSInv DEF ThreadIdle
<1>3. CASE ThreadResume(t)
  <2>1. /\ e \in UserEvent /\ e \in Event /\ e \in Callback
        /\ th[t].tv \in Timeval /\ th[t].n \in Nat /\ th[t].pc = "woken"
        /\ th[t].op = "finalize" => Final(ev, e)
        /\ ev[e].closure = "signal" => loop.running # e
        /\ th[t].op = "add" => th[t].tv = NoTimeval
        /\ th[t].op = "active" => th[t].n > 0
    BY <1>1, <1>3, UserEvents, BaseAssumption
    DEF ThreadResume, KInv, CallersInv, ThreadLocals, SInv, WaitingCalls, WaitsFor
  <2>2. Effect(t, e)
    BY <1>3, <2>1, ResumeEffect
  <2>3. CallersStay
    BY <1>3, CallersStep DEF ThreadResume
  <2>4. CASE DelNow(t, e)
    <3>1. ~(loop.running = e /\ loop.pc = "count" /\ loop.ncalls > 0)
      BY <2>1 DEF SInv, CallsKept
    <3> QED
      BY <2>1, <2>3, <2>4, <3>1, DelNowCalm, CalmSInv
  <2>5. CASE th[t].op = "add" /\ AddNow(t, e, th[t].tv)
    BY <2>1, <2>3, <2>5, AddNowCalm, CalmSInv
  <2>6. CASE /\ th[t].op = "active" /\ ActivateNow(t, e, th[t].n, ev, base)
             /\ th' = [th EXCEPT ![t] = Idle] /\ UNCHANGED loop
    <3>1. SameCurrent(base, base')
      BY <1>1, <2>6, CurrentBases DEF ActivateNow
    <3>2. Touches(e)
      BY <2>1, <2>2, <2>6, <3>1, EffectTouches
    <3>3. e \in SignalEvents => \A u \in Thread : u = t
      BY DEF SignalsByTheBook
    <3>4. e \in SignalEvents => \A u \in Thread : th'[u].pc = "idle"
      BY <1>1, <2>6, <3>3 DEF Idle
    <3>5. Keeps(ev, e) /\ KeepsCalls(ev, e)
      BY <2>1, KeepsSame, FieldsCalls
    <3>6. Calm(e)
      BY <2>1, <2>6, <3>2, <3>3, <3>4, <3>5, ActivateNowCalm
    <3> QED
      BY <2>1, <2>3, <3>2, <3>6, CalmSInv
  <2>7. CASE th[t].op = "finalize" /\ FinalizeNow(t, e, q, ev, base) /\ UNCHANGED loop
    <3>1. SameCurrent(base, base')
      BY <1>1, <2>7, CurrentBases DEF FinalizeNow
    <3>2. Touches(e)
      BY <2>1, <2>2, <2>7, <3>1, EffectTouches
    <3>3. ~(loop.ncalls > 0 /\ loop.running = e)
      BY <2>1, <2>7 DEF SInv, CallsKept, Final
    <3>4. /\ ev' = ActiveCalls(ev, e, 1)
          /\ q' \in {SetFinalizing(q, e),
                     SetFinalizing(event_callback_activate_nolock_(q, e), e)}
      BY <2>7 DEF FinalizeNow
    <3>5. Calm(e)
      BY <1>1, <2>1, <2>7, <3>3, <3>4, FinalizeCalm
    <3> QED
      BY <2>1, <2>3, <3>2, <3>5, CalmSInv
  <2> QED
    BY <1>3, <2>4, <2>5, <2>6, <2>7 DEF ThreadResume
<1> QED
  BY <1>2, <1>3

-----------------------------------------------------------------------------
(* The steps of the loop.                                                  *)

\* The locals m of a loop with no calls left, and with fds from the backend only.
NoCalls(m) ==
  /\ m.ncalls = 0
  /\ \A e \in m.polled \cup m.ready : e \notin SignalEvents
  /\ m.running \in SignalEvents => ev[m.running].closure # "signal"

\* Calls are left only while the callback runs.
LEMMA NoCallsLeft ==
  ASSUME IInv, KInv, SInv,
         loop.pc \notin {"count", "callback", "return"} \/ loop.running = NotifyEv
  PROVE  NoCalls(loop)
<1>1. loop.ncalls \in Nat
  BY NowTypes DEF LoopLocals
<1>2. loop.running \in {NotifyEv, NoCallback}
  BY DEF KInv, NotifyInv
<1> QED
  BY <1>1, <1>2, SignalsAreEvents DEF SInv, CallsKept, OnlyIo, NoCalls

\* A step after which no calls are left, and that makes no signal event active.
LEMMA NothingSInv ==
  ASSUME IInv, SInv, NoCalls(loop'),
         \A c \in Callback : ev'[c].closure = ev[c].closure /\ ev'[c].ncalls = ev[c].ncalls,
         \A e \in SignalEvents :
           q'.flags[e] \cap {"ACTIVE", "ACTIVE_LATER", "TIMEOUT"} \subseteq q.flags[e],
         \A t \in Thread :
           /\ th'[t].op = th[t].op /\ th'[t].ev = th[t].ev
           /\ th'[t].n = th[t].n /\ th'[t].tv = th[t].tv
           /\ th'[t].pc \in {"wait", "woken"} => th[t].pc \in {"wait", "woken"}
  PROVE  SInv'
<1>1. SignalKinds' /\ NoneLater' /\ Untimed' /\ OnlyIo'
  BY DEF SInv, SignalKinds, NoneLater, Untimed, OnlyIo, NoCalls
<1>2. CallsLeft'
  BY SignalsAreEvents DEF SInv, CallsLeft
<1>3. CallsKept' /\ RunningCalls'
  BY SignalsAreEvents DEF CallsKept, RunningCalls, NoCalls
<1>4. WaitingCalls'
  <2> SUFFICES ASSUME NEW t \in Thread, th'[t].pc \in {"wait", "woken"}
               PROVE  /\ WaitsFor(th[t])'
                      /\ th'[t].pc = "woken" /\ ev'[th'[t].ev].closure = "signal" =>
                           loop'.running # th'[t].ev
    BY DEF WaitingCalls
  <2> DEFINE e == th[t].ev
  <2>1. /\ th'[t].op = th[t].op /\ th'[t].ev = e /\ th'[t].n = th[t].n /\ th'[t].tv = th[t].tv
        /\ th[t].pc \in {"wait", "woken"}
    OBVIOUS
  <2>2. e \in Callback /\ WaitsFor(th[t])
    BY <2>1, Parts DEF SInv, WaitingCalls
  <2>3. ASSUME ev'[e].closure = "signal"
        PROVE  "ACTIVE" \notin q'.flags[e] /\ loop'.running # e
    <3>1. ev[e].closure = "signal" /\ e \in SignalEvents
      BY <2>2, <2>3 DEF SInv, SignalKinds
    <3>2. "ACTIVE" \notin q'.flags[e]
      BY <2>2, <3>1 DEF WaitsFor
    <3> QED
      BY <3>1, <3>2 DEF NoCalls
  <2> QED
    BY <2>1, <2>2, <2>3 DEF WaitsFor
<1> QED
  BY <1>1, <1>2, <1>3, <1>4 DEF SInv

\* The steps of the loop that take no callback and end none leave no calls.
LEMMA TurnCalls ==
  ASSUME IInv, KInv, SInv,
         \/ LoopEnter \/ LoopTop \/ LoopDispatch \/ SelectReturn({}) \/ FdsReady
         \/ SelectFails \/ LoopRelock \/ LoopUpdateTime \/ LoopTimeoutsDone \/ LoopProcess
         \/ LoopQueueEmpty \/ NotifyDrain \/ NotifyDrained \/ LoopAfter
  PROVE  NoCalls(loop')
<1>1. loop \in LoopLocals
  BY NowTypes
<1>2. NoCalls(loop)
  <2>1. loop.pc \notin {"count", "callback", "return"} \/ loop.running = NotifyEv
    BY DEF LoopEnter, LoopTop, LoopDispatch, SelectReturn, FdsReady, SelectFails, LoopRelock,
           LoopUpdateTime, LoopTimeoutsDone, LoopProcess, LoopQueueEmpty, NotifyDrain,
           NotifyDrained, LoopAfter
  <2> QED
    BY <2>1, NoCallsLeft
<1>3. ASSUME NEW b, LoopExit(b)
      PROVE  NoCalls(loop')
  BY <1>3, SignalsAreEvents DEF LoopExit, Outside, NoCalls
<1>4. ASSUME NEW b, NEW x, NEW l, l = loop \/ l = [loop EXCEPT !.endtime = x],
             \/ \E n : ProcessDone(b, l, n)
             \/ \E i : ProcessFrom(b, l, i)
             \/ QueueDone(b, l)
      PROVE  NoCalls(loop')
  <2>1. \/ \E c : LoopExit(c)
        \/ loop' = [l EXCEPT !.pc = "top", !.count = 0, !.endtime = NoTimeval]
        \/ loop' = [l EXCEPT !.pc = "queue", !.count = 0]
    BY <1>4 DEF ProcessDone, ProcessFrom, QueueDone
  <2>2. /\ l.ncalls = loop.ncalls /\ l.running = loop.running
        /\ l.polled = loop.polled /\ l.ready = loop.ready
    BY <1>1, <1>4 DEF LoopLocals
  <2>3. ASSUME \/ loop' = [l EXCEPT !.pc = "top", !.count = 0, !.endtime = NoTimeval]
               \/ loop' = [l EXCEPT !.pc = "queue", !.count = 0]
        PROVE  /\ loop'.ncalls = l.ncalls /\ loop'.running = l.running
               /\ loop'.polled = l.polled /\ loop'.ready = l.ready
    BY <1>1, <1>4, <2>3 DEF LoopLocals
  <2> QED
    BY <1>2, <1>3, <2>1, <2>2, <2>3 DEF NoCalls
<1>5. CASE LoopTop
  BY <1>1, <1>2, <1>3, <1>5 DEF LoopTop, LoopLocals, NoCalls
<1>6. CASE LoopProcess
  <2> DEFINE b == IF MaxDispatchTime = -1 THEN base ELSE update_time_cache(base)
             end == IF MaxDispatchTime = -1 THEN NoTimeval ELSE gettime(b) + MaxDispatchTime
             l == [loop EXCEPT !.endtime = end]
  <2>1. \/ ProcessFrom(b, l, 0)
        \/ LoopExit(base)
        \/ loop' = [loop EXCEPT !.pc = "top"]
    BY <1>6 DEF LoopProcess
  <2> HIDE DEF b, end
  <2>2. CASE ProcessFrom(b, l, 0)
    BY <1>4, <2>2
  <2> QED
    BY <1>1, <1>2, <1>3, <2>1, <2>2 DEF LoopLocals, NoCalls
<1>7. CASE LoopQueueEmpty
  BY <1>4, <1>7 DEF LoopQueueEmpty
<1>8. CASE LoopAfter
  <2> DEFINE limited == base.event_running_priority >= LimitCallbacksAfterPrio
             timed == limited /\ loop.count > 0 /\ loop.endtime # NoTimeval
             b == IF timed THEN update_time_cache(base) ELSE base
  <2>1. \/ \E n : ProcessDone(base, loop, n)
        \/ \E n : ProcessDone(b, loop, n)
        \/ QueueDone(b, loop)
        \/ loop' = [loop EXCEPT !.pc = "queue"]
    BY <1>8 DEF LoopAfter
  <2> HIDE DEF b
  <2> QED
    BY <1>1, <1>2, <1>4, <2>1 DEF LoopLocals, NoCalls
<1>9. CASE SelectFails
  BY <1>3, <1>9 DEF SelectFails
<1>10. CASE LoopEnter
  BY <1>1, <1>2, <1>10 DEF LoopEnter, LoopLocals, NoCalls
<1>11. CASE LoopDispatch
  BY <1>1, <1>2, <1>11 DEF LoopDispatch, LoopLocals, SignalEvents, NoCalls
<1>12. CASE LoopRelock \/ LoopUpdateTime \/ LoopTimeoutsDone \/ NotifyDrain \/ NotifyDrained
  BY <1>1, <1>2, <1>12
  DEF LoopRelock, LoopUpdateTime, LoopTimeoutsDone, NotifyDrain, NotifyDrained, LoopLocals, NoCalls
<1>13. CASE SelectReturn({}) \/ FdsReady
  <2>1. PICK ready : SelectReturn(ready) /\ ready \subseteq loop.polled
    BY <1>13 DEF FdsReady
  <2>2. /\ loop'.polled = {} /\ loop'.ready = ready \cup NotifyReady /\ loop'.ncalls = loop.ncalls
        /\ NotifyReady \subseteq loop.polled /\ loop'.running = loop.running
    BY <1>1, <2>1 DEF SelectReturn, LoopLocals, NotifyReady
  <2> QED
    BY <1>2, <2>1, <2>2 DEF NoCalls
<1> QED
  BY <1>5, <1>6, <1>7, <1>8, <1>9, <1>10, <1>11, <1>12, <1>13

\* So they keep the invariant: none makes a callback active.
LEMMA TurnSInv ==
  ASSUME IInv, KInv, SInv,
         \/ LoopEnter \/ LoopTop \/ LoopDispatch \/ SelectReturn({}) \/ FdsReady
         \/ SelectFails \/ LoopRelock \/ LoopUpdateTime \/ LoopTimeoutsDone \/ LoopProcess
         \/ LoopQueueEmpty \/ NotifyDrain \/ NotifyDrained \/ LoopAfter
  PROVE  SInv'
<1>1. UNCHANGED <<q, ev, th>>
  BY DEF LoopEnter, LoopTop, LoopDispatch, SelectReturn, FdsReady, SelectFails, LoopRelock,
         LoopUpdateTime, LoopTimeoutsDone, LoopProcess, LoopQueueEmpty, NotifyDrain, NotifyDrained,
         LoopAfter
<1> QED
  BY <1>1, TurnCalls, NothingSInv

\* event_queue_make_later_events_active: no signal event is in that queue.
LEMMA LaterSInv ==
  ASSUME IInv, KInv, SInv, LoopMakeLaterActive
  PROVE  SInv'
<1> DEFINE c == Head(q.active_later_queue)
<1>1. /\ q.active_later_queue # << >> /\ q' = MakeLaterActive(q) /\ loop.pc = "later"
      /\ UNCHANGED <<ev, loop, th>>
  BY DEF LoopMakeLaterActive
<1>2. c \in Callback /\ "ACTIVE_LATER" \in q.flags[c]
  <2>1. /\ q.active_later_queue \in Seq(Callback)
        /\ Lists(q.active_later_queue, With(q, "ACTIVE_LATER"))
    BY NowTypes DEF Queues, Good, QueuesOK, LaterListed
  <2>2. c \in With(q, "ACTIVE_LATER")
    BY <1>1, <2>1, TailLists
  <2> QED
    BY <2>2 DEF With
<1>3. q'.flags = [q.flags EXCEPT ![c] = (q.flags[c] \ {"ACTIVE_LATER"}) \cup {"ACTIVE"}]
  BY <1>1, <1>2, NowTypes DEF MakeLaterActive, Queues
<1> HIDE DEF c
<1>4. c \notin SignalEvents
  BY <1>2 DEF SInv, NoneLater
<1>5. \A e \in SignalEvents : q'.flags[e] = q.flags[e]
  BY <1>3, <1>4, SignalsAreEvents, NowTypes
<1>6. NoCalls(loop')
  BY <1>1, NoCallsLeft
<1> QED
  BY <1>1, <1>5, <1>6, NothingSInv

\* evmap_io_active_: no signal event is ready.
LEMMA ActivateSInv ==
  ASSUME IInv, KInv, SInv, NEW e \in Event, LoopActivate(e)
  PROVE  SInv'
<1>1. /\ e \in Callback /\ Good(q) /\ q.flags \in [Callback -> SUBSET Flag]
      /\ loop \in LoopLocals /\ ev \in [Callback -> CallbackFields]
  BY UserEvents, NowTypes
<1>2. /\ loop.pc = "activate" /\ e \in loop.ready /\ loop' = [loop EXCEPT !.ready = @ \ {e}]
      /\ ev' = ev \/ ev' = ActiveResult(q, e, {"EV_READ"})
      /\ q' = q \/ q' = event_callback_activate_nolock_(q, e)
      /\ UNCHANGED th
  BY DEF LoopActivate
<1>3. e \notin SignalEvents
  BY <1>2 DEF SInv, OnlyIo
<1>4. NoCalls(loop')
  <2>1. NoCalls(loop)
    BY <1>2, NoCallsLeft
  <2> QED
    BY <1>1, <1>2, <2>1 DEF LoopLocals, NoCalls
<1>5. \A c \in Callback : ev'[c].closure = ev[c].closure /\ ev'[c].ncalls = ev[c].ncalls
  BY <1>1, <1>2 DEF ActiveResult, CallbackFields
<1>6. \A d \in SignalEvents : q'.flags[d] = q.flags[d]
  BY <1>1, <1>2, <1>3, SignalsAreEvents, ActivateOthers
<1> QED
  BY <1>2, <1>4, <1>5, <1>6, NothingSInv

\* timeout_process: no signal event has a timeout.
LEMMA TimeoutSInv ==
  ASSUME IInv, SInv, KInv, NEW e \in Event, LoopTimeout(e)
  PROVE  SInv'
<1> DEFINE s == event_del_nolock_(q, e)
           v == ActiveResult(s, e, {"EV_TIMEOUT"})
<1>1. /\ e \in Callback /\ Good(q) /\ q.flags \in [Callback -> SUBSET Flag]
      /\ base \in BaseFields /\ ev \in [Callback -> CallbackFields] /\ loop \in LoopLocals
  BY UserEvents, NowTypes
<1>2. /\ loop.pc = "timeouts" /\ UNCHANGED <<th, hist>> /\ base' = ActiveContinue(base, e)
      /\ q' = s \/ q' = event_callback_activate_nolock_(s, e)
      /\ ev' = ActiveCalls(v, e, 1)
      /\ loop' \in AbortLoop(e)
  BY DEF LoopTimeout
<1>3. Keeps(v, e) /\ KeepsCalls(v, e)
  <2>1. {"EV_TIMEOUT"} \in SUBSET Result /\ NoTimeval \in Timeval /\ 0 \in Nat
    BY DEF Result, Timeval
  <2> QED
    BY <1>1, <2>1, FieldsEffect, FieldsCalls
<1>4. Good(s) /\ s.flags = [q.flags EXCEPT ![e] = q.flags[e] \ Registration]
  BY <1>1, DelGood, DelEffect DEF Lowers
<1> HIDE DEF s, v
<1>5. /\ \A d \in Callback \ {e} : q'.flags[d] = q.flags[d]
      /\ "ACTIVE_LATER" \notin q'.flags[e]
  <2>1. \A d \in Callback \ {e} : q'.flags[d] = s.flags[d]
    BY <1>1, <1>2, <1>4, ActivateOthers
  <2>2. \/ q'.flags = s.flags
        \/ q'.flags = [s.flags EXCEPT ![e] = (s.flags[e] \ {"ACTIVE_LATER"}) \cup {"ACTIVE"}]
    BY <1>1, <1>2, <1>4, ActivateEffect
  <2> QED
    BY <1>1, <1>4, <2>1, <2>2 DEF Registration
<1>6. e \notin SignalEvents
  <2>1. e \in q.timeheap /\ q.timeheap = With(q, "TIMEOUT")
    BY <1>1, GoodFields DEF LoopTimeout, Earliest
  <2> QED
    BY <2>1 DEF SInv, Untimed, With
<1>7. UNCHANGED loop
  BY <1>2, <1>6 DEF AbortLoop, SignalEvents
<1>8. \A d \in Callback : ev'[d].closure = ev[d].closure /\ ev'[d].ncalls = ev[d].ncalls
  <2>1. ev' = v
    BY <1>1, <1>2, <1>3, <1>6, FieldsCalls DEF SignalEvents, Keeps
  <2> QED
    BY <1>3, <2>1 DEF Keeps, KeepsCalls
<1>9. \A d \in SignalEvents : q'.flags[d] = q.flags[d]
  BY <1>5, <1>6, SignalsAreEvents
<1>10. NoCalls(loop')
  BY <1>2, <1>7, NoCallsLeft
<1> QED
  BY <1>2, <1>8, <1>9, <1>10, NothingSInv

\* event_signal_closure counts and makes the calls, and nothing else happens.
LEMMA SignalSInv ==
  ASSUME IInv, SInv, SignalCount \/ SignalAgain
  PROVE  SInv'
<1> DEFINE c == loop.running
<1>1. /\ loop \in LoopLocals /\ ev \in [Callback -> CallbackFields]
      /\ UNCHANGED <<q, base, th, hist>>
  BY NowTypes DEF SignalCount, SignalAgain
<1>2. \/ /\ loop.ncalls = 0 /\ loop' = [loop EXCEPT !.pc = "return"] /\ ev' = ev
      \/ /\ loop.ncalls > 0 /\ loop' = [loop EXCEPT !.pc = "count"] /\ ev' = ev
      \/ /\ loop.ncalls > 0 /\ loop' = [loop EXCEPT !.pc = "callback", !.ncalls = @ - 1]
         /\ ev' = [ev EXCEPT ![c].ncalls = loop.ncalls - 1, ![c].pncalls = @ /\ loop.ncalls > 1]
  BY <1>1 DEF SignalCount, SignalAgain, SignalCall, LoopLocals
<1>3. /\ loop'.running = c /\ loop'.polled = loop.polled /\ loop'.ready = loop.ready
      /\ \A d \in Callback : ev'[d].closure = ev[d].closure
      /\ \A d \in Callback \ {c} : ev'[d] = ev[d]
  <2>1. loop'.running = c /\ loop'.polled = loop.polled /\ loop'.ready = loop.ready
    BY <1>1, <1>2 DEF LoopLocals
  <2>2. \A d \in Callback : ev'[d].closure = ev[d].closure
    BY SignalSteps
  <2>3. \A d \in Callback \ {c} : ev'[d] = ev[d]
    BY <1>1, <1>2
  <2> QED
    BY <2>1, <2>2, <2>3
<1>4. SignalKinds' /\ NoneLater' /\ Untimed' /\ OnlyIo'
  BY <1>1, <1>3 DEF SInv, SignalKinds, NoneLater, Untimed, OnlyIo
<1>5. RunningCalls'
  BY <1>1, <1>3, SignalsAreEvents DEF SInv, RunningCalls
<1>6. CallsLeft'
  <2> SUFFICES ASSUME NEW e \in SignalEvents, ev'[e].closure = "signal", "ACTIVE" \in q.flags[e]
               PROVE  ev'[e].ncalls > 0
    BY <1>1 DEF CallsLeft
  <2>1. e \in Callback /\ ev[e].closure = "signal"
    BY <1>3, SignalsAreEvents
  <2>2. e # c
    BY <2>1 DEF SInv, RunningCalls
  <2> QED
    BY <1>3, <2>1, <2>2 DEF SInv, CallsLeft
<1>7. WaitingCalls'
  <2>1. \A t \in Thread : th[t].pc \in {"wait", "woken"} => th[t].ev \in Callback
    BY Parts
  <2>2. \A t \in Thread : th[t].pc \in {"wait", "woken"} /\ WaitsFor(th[t]) => WaitsFor(th[t])'
    BY <1>1, <1>3, <2>1 DEF WaitsFor
  <2> QED
    BY <1>1, <1>3, <2>1, <2>2 DEF SInv, WaitingCalls
<1>8. CallsKept'
  <2> SUFFICES ASSUME loop'.ncalls > 0
               PROVE  /\ loop'.pc \in {"count", "callback"} /\ c \in SignalEvents
                      /\ ev'[c].closure = "signal" /\ ev'[c].ncalls > 0 /\ ev'[c].pncalls
                      /\ c \in Persist => hist.armed[c]
    BY <1>1, <1>3 DEF CallsKept
  <2>1. loop'.pc \in {"count", "callback"} /\ loop.ncalls > 0
    <3>1. loop' = [loop EXCEPT !.pc = "return"] => loop'.ncalls = loop.ncalls
      BY <1>1 DEF LoopLocals
    <3>2. ~(loop.ncalls = 0 /\ loop' = [loop EXCEPT !.pc = "return"])
      BY <3>1
    <3>3. loop' = [loop EXCEPT !.pc = "count"] => loop'.pc = "count"
      BY <1>1 DEF LoopLocals
    <3>4. loop' = [loop EXCEPT !.pc = "callback", !.ncalls = @ - 1] => loop'.pc = "callback"
      BY <1>1 DEF LoopLocals
    <3> QED
      BY <1>2, <3>2, <3>3, <3>4
  <2>2. /\ c \in SignalEvents /\ c \in Callback /\ ev[c].closure = "signal"
        /\ ev[c].ncalls > 0 /\ ev[c].pncalls
        /\ c \in Persist => hist.armed[c]
    BY <2>1, SignalsAreEvents DEF SInv, CallsKept
  <2>3. ev'[c].ncalls > 0 /\ ev'[c].pncalls
    <3>1. CASE ev' = ev
      BY <2>2, <3>1
    <3>2. CASE /\ loop.ncalls > 0 /\ loop' = [loop EXCEPT !.pc = "callback", !.ncalls = @ - 1]
               /\ ev' = [ev EXCEPT ![c].ncalls = loop.ncalls - 1,
                                   ![c].pncalls = @ /\ loop.ncalls > 1]
      <4>1. loop.ncalls \in Nat /\ loop.ncalls - 1 > 0
        BY <1>1, <3>2 DEF LoopLocals
      <4> QED
        BY <1>1, <2>2, <3>2, <4>1 DEF CallbackFields
    <3> QED
      BY <1>2, <3>1, <3>2
  <2> QED
    BY <1>3, <2>1, <2>2, <2>3
<1> QED
  BY <1>4, <1>5, <1>6, <1>7, <1>8 DEF SInv

\* event_signal_closure begins: the loop has taken c, for which nobody waits, with k calls.
LEMMA SignalStartSInv ==
  ASSUME IInv, SInv, NEW c \in SignalEvents, NEW k \in Nat \ {0}, ev[c].closure = "signal",
         ev[c].ncalls = k, ev' = [ev EXCEPT ![c].pncalls = TRUE], UNCHANGED th,
         "ACTIVE" \in q.flags[c],
         loop'.ncalls = k, loop'.pc = "count", loop'.running = c,
         loop'.polled = loop.polled, loop'.ready = loop.ready, base'.current_event = c,
         "ACTIVE" \notin q'.flags[c],
         \A d \in SignalEvents : q'.flags[d] \subseteq q.flags[d],
         c \in Persist => hist'.armed[c]
  PROVE  SInv'
<1>1. c \in Callback /\ ev \in [Callback -> CallbackFields]
  BY SignalsAreEvents, NowTypes
<1>2. /\ \A d \in Callback \ {c} : ev'[d] = ev[d]
      /\ \A d \in Callback : ev'[d].closure = ev[d].closure /\ ev'[d].ncalls = ev[d].ncalls
      /\ ev'[c].pncalls
  BY <1>1 DEF CallbackFields
<1>3. SignalKinds' /\ NoneLater' /\ Untimed' /\ OnlyIo'
  BY <1>2 DEF SInv, SignalKinds, NoneLater, Untimed, OnlyIo
<1>4. CallsLeft' /\ RunningCalls'
  BY <1>2, SignalsAreEvents DEF SInv, CallsLeft, RunningCalls
<1>5. CallsKept'
  BY <1>1, <1>2 DEF CallsKept
<1>6. WaitingCalls'
  <2> SUFFICES ASSUME NEW t \in Thread, th[t].pc \in {"wait", "woken"}
               PROVE  WaitsFor(th[t])' /\ (ev'[th[t].ev].closure = "signal" => c # th[t].ev)
    BY DEF WaitingCalls
  <2>1. th[t].ev \in Callback /\ WaitsFor(th[t])
    BY Parts DEF SInv, WaitingCalls
  <2>2. ev'[th[t].ev].closure = "signal" =>
          th[t].ev \in SignalEvents /\ "ACTIVE" \notin q.flags[th[t].ev]
    BY <1>2, <2>1 DEF WaitsFor, SInv, SignalKinds
  <2> QED
    BY <2>1, <2>2 DEF WaitsFor
<1> QED
  BY <1>3, <1>4, <1>5, <1>6 DEF SInv

\* The loop takes a callback, or event_signal_closure begins.
LEMMA RunSInv ==
  ASSUME IInv, KInv, SInv, LoopRun
  PROVE  SInv'
<1> DEFINE h == Head(q.activequeues[base.event_running_priority])
           signal == ev[h].closure = "signal"
           k == IF signal THEN ev[h].ncalls ELSE 0
           now == gettime(base)
           next == IF ~signal THEN "callback" ELSE IF k > 0 THEN "count" ELSE "return"
<1>1. PICK c \in Callback : Runs(c)
  BY RunEffect
<1>2. /\ loop.pc = "queue" /\ loop \in LoopLocals /\ base \in BaseFields
      /\ q.flags \in [Callback -> SUBSET Flag] /\ ev \in [Callback -> CallbackFields]
  BY RunEffect, NowTypes
<1>3. /\ ev' = IF Rescheduled(h) THEN AddFields(h, RunAt(h, now), TRUE, now)
               ELSE IF k > 0 THEN [ev EXCEPT ![h].pncalls = TRUE] ELSE ev
      /\ \E n : base' = [base EXCEPT
                          !.current_event =
                            IF ev[h].closure \in {"finalize", "cb_finalize"} THEN NoCallback
                            ELSE h,
                          !.current_event_waiters = n]
      /\ \E count, final : loop' = [loop EXCEPT !.pc = next, !.count = count, !.running = h,
                                                !.finalizer = final, !.ncalls = k]
  BY DEF LoopRun
<1> HIDE DEF h, k, now, next
<1>4. /\ loop'.running = h /\ loop'.pc = next /\ loop'.ncalls = k
      /\ loop'.polled = loop.polled /\ loop'.ready = loop.ready
      /\ ev[h].closure = "signal" => base'.current_event = h
  BY <1>2, <1>3 DEF LoopLocals, BaseFields
<1>5. c = h /\ "ACTIVE" \in q.flags[c] /\ UNCHANGED th /\ hist' = Started(c)
  BY <1>1, <1>4 DEF Runs
<1>6. PICK F : /\ Taken(c).flags = [q.flags EXCEPT ![c] = F]
               /\ F \subseteq q.flags[c] \ {"ACTIVE"}
  BY <1>5, TakenEffect
<1>7. \A d \in Callback \ {c} : q'.flags[d] = q.flags[d]
  BY <1>4, <1>5, RunTurn
<1>8. NoCalls(loop)
  BY <1>2, NoCallsLeft
<1>9. CASE ev[c].closure = "signal"
  <2>1. c \in SignalEvents /\ c # NotifyEv /\ ~Rescheduled(c) /\ ~Final(ev, c)
    BY <1>9, SignalsAreEvents DEF SInv, SignalKinds, Rescheduled, Final
  <2>2. k = ev[c].ncalls /\ k \in Nat \ {0}
    <3>1. ev[c].ncalls \in Nat /\ ev[c].ncalls > 0
      BY <1>2, <1>5, <1>9, <2>1 DEF SInv, CallsLeft, CallbackFields
    <3> QED
      BY <1>5, <1>9, <3>1 DEF k
  <2>3. ev' = [ev EXCEPT ![c].pncalls = TRUE] /\ loop'.ncalls = k /\ loop'.pc = "count"
    BY <1>3, <1>4, <1>5, <1>9, <2>1, <2>2 DEF next
  <2>4. "ACTIVE" \notin q'.flags[c] /\ q'.flags[c] \subseteq q.flags[c]
    <3>1. q' = Taken(c)
      BY <1>1, <2>1 DEF Runs
    <3>2. q'.flags[c] = F
      BY <1>2, <1>6, <3>1
    <3> QED
      BY <1>6, <3>2
  <2>5. c \in Persist => hist'.armed[c]
    <3> SUFFICES ASSUME c \in Persist
                 PROVE  hist'.armed[c]
      OBVIOUS
    <3>1. Sound(q, ev, hist, c)
      BY <2>1 DEF KInv, ArmedInv
    <3>2. hist.armed[c]
      BY <1>5, <2>1, <3>1 DEF Sound, Registration
    <3>3. hist'.armed = hist.armed
      BY <1>5, <2>1, SignalsAreEvents, StartedEffect
    <3> QED
      BY <3>2, <3>3
  <2>6. \A d \in SignalEvents : q'.flags[d] \subseteq q.flags[d]
    BY <1>7, <2>4, SignalsAreEvents
  <2>7. base'.current_event = c /\ loop'.running = c
    BY <1>4, <1>5, <1>9
  <2> QED
    BY <1>4, <1>5, <1>9, <2>1, <2>2, <2>3, <2>4, <2>5, <2>6, <2>7, SignalStartSInv
<1>10. CASE ev[c].closure # "signal"
  <2>1. NoCalls(loop')
    <3>1. loop'.ncalls = 0
      BY <1>4, <1>5, <1>10 DEF k
    <3>2. ev'[c].closure = ev[c].closure
      BY <1>1 DEF Runs
    <3> QED
      BY <1>4, <1>5, <1>8, <1>10, <3>1, <3>2 DEF NoCalls
  <2>2. KeepsCalls(ev', c)
    <3>1. ~(k > 0)
      BY <1>5, <1>10 DEF k
    <3>2. CASE Rescheduled(c)
      <4>1. ev' = AddFields(c, RunAt(c, now), TRUE, now)
        BY <1>3, <1>5, <3>2
      <4> QED
        BY <4>1, FieldsCalls
    <3>3. CASE ~Rescheduled(c)
      <4>1. ev' = ev
        BY <1>3, <1>5, <3>1, <3>3
      <4> QED
        BY <4>1, FieldsCalls
    <3> QED
      BY <3>2, <3>3
  <2>3. \A d \in Callback : ev'[d].closure = ev[d].closure /\ ev'[d].ncalls = ev[d].ncalls
    BY <1>1, <2>2 DEF Runs, KeepsCalls
  <2>4. c \in SignalEvents =>
          q'.flags[c] \cap {"ACTIVE", "ACTIVE_LATER", "TIMEOUT"} \subseteq q.flags[c]
    <3>1. CASE Rescheduled(c)
      BY <3>1 DEF Rescheduled, SInv, SignalKinds
    <3>2. CASE ~Rescheduled(c)
      <4>1. q' = Taken(c)
        BY <1>1, <3>2 DEF Runs
      <4> QED
        BY <1>2, <1>6, <4>1
    <3> QED
      BY <3>1, <3>2
  <2>5. \A e \in SignalEvents :
          q'.flags[e] \cap {"ACTIVE", "ACTIVE_LATER", "TIMEOUT"} \subseteq q.flags[e]
    BY <1>7, <2>4, SignalsAreEvents
  <2> QED
    BY <1>5, <2>1, <2>3, <2>5, NothingSInv
<1> QED
  BY <1>9, <1>10

\* The end of a callback: event_break leaves the other calls.
LEMMA ReturnSInv ==
  ASSUME IInv, SInv, LoopReturn
  PROVE  SInv'
<1>1. /\ loop \in LoopLocals /\ ev \in [Callback -> CallbackFields]
      /\ th \in [Thread -> ThreadLocals]
  BY NowTypes, Parts
<1>2. /\ q' = q
      /\ ev' = ev \/ \E c : ev' = [ev EXCEPT ![c].pncalls = FALSE]
      /\ th' = th \/ th' = Woken(CondWaiters)
      /\ loop' = [loop EXCEPT !.pc = "after", !.running = NoCallback, !.finalizer = FALSE,
                              !.ncalls = 0]
  BY DEF LoopReturn, EVTHREAD_COND_BROADCAST
<1>3. \A d \in Callback : ev'[d].closure = ev[d].closure /\ ev'[d].ncalls = ev[d].ncalls
  BY <1>1, <1>2 DEF CallbackFields
<1>4. NoCalls(loop')
  BY <1>1, <1>2, SignalsAreEvents DEF LoopLocals, SInv, OnlyIo, NoCalls
<1>5. \A t \in Thread :
        /\ th'[t].op = th[t].op /\ th'[t].ev = th[t].ev
        /\ th'[t].n = th[t].n /\ th'[t].tv = th[t].tv
        /\ th'[t].pc \in {"wait", "woken"} => th[t].pc \in {"wait", "woken"}
  BY <1>1, <1>2 DEF Woken, CondWaiters, ThreadLocals
<1> QED
  BY <1>2, <1>3, <1>4, <1>5, NothingSInv

\* Every step keeps the calls of the signal events.
LEMMA NextSInv ==
  ASSUME SignalsByTheBook, IInv, WInv, KInv, SInv, [Next]_vars
  PROVE  SInv'
<1>1. IInv'
  BY NextIInv
<1>2. CASE \E a \in Actor : Api(a)
  BY <1>1, <1>2, ApiSInv
<1>3. CASE \E t \in Thread : ThreadResume(t) \/ ThreadIdle(t)
  BY <1>1, <1>3, ThreadSInv
<1>4. ASSUME NEW e \in Event, LoopActivate(e) \/ LoopTimeout(e)
      PROVE  SInv'
  BY <1>4, ActivateSInv, TimeoutSInv
<1>5. CASE LoopStep \/ FdsReady \/ SelectFails \/ LoopEnter
  BY <1>4, <1>5, TurnSInv, LaterSInv, RunSInv, SignalSInv, ReturnSInv DEF LoopStep
<1>6. CASE Tick \/ UNCHANGED vars
  <2>1. UNCHANGED <<q, ev, base, loop, th, hist>>
    BY <1>6 DEF Tick, vars
  <2> QED
    BY <2>1
    DEF SInv, SignalKinds, NoneLater, Untimed, OnlyIo, CallsLeft, WaitsFor, WaitingCalls,
        RunningCalls, CallsKept
<1> QED
  BY <1>2, <1>3, <1>5, <1>6 DEF Next

\* event_signal_closure, which counts the calls without the lock, and the API: a signal event that
\* is active has a call to make, and no call is made of a persistent one that has been deleted, by
\* its callback or by a thread that has waited for it, within SignalsByTheBook: next to the loop one
\* thread calls event_add, event_del, event_del_block and event_active of such events, their
\* callbacks do not call event_active, and none has a timeout.
THEOREM SignalCallsAlwaysOK ==
  ASSUME SignalsByTheBook
  PROVE  Spec => []SignalCallsOK
<1>1. SInv => SignalCallsOK
  <2> SUFFICES ASSUME SInv
               PROVE  SignalCallsOK
    OBVIOUS
  <2>1. \A e \in UserEvent : ev[e].closure = "signal" => e \in SignalEvents
    BY UserEvents DEF SInv, SignalKinds
  <2> QED
    BY <2>1 DEF SInv, CallsLeft, CallsKept, SignalCallsOK
<1>2. IInv /\ WInv /\ KInv /\ SInv /\ [Next]_vars => SInv'
  BY NextSInv
<1>3. Spec => []SInv
  BY <1>2, InitSInv, Invariants, PTL DEF Spec
<1> QED
  BY <1>1, <1>3, PTL
=============================================================================
