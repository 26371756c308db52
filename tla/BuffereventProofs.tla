------------------------- MODULE BuffereventProofs -------------------------
(***************************************************************************)
(* A bufferevent keeps its references, its events and its watermark right, *)
(* and chooses no callback of the user after bufferevent_free, whichever   *)
(* calls threads and callbacks make, for any number of threads and any     *)
(* bound of the buffers, if its owner gives it up by bufferevent_free.     *)
(*                                                                         *)
(* The last reference may be dropped while the loop has chosen a handler   *)
(* that has not got the lock: the handler then runs with a new reference,  *)
(* and drops the last one again.  LastOK says why this does no harm.       *)
(***************************************************************************)
EXTENDS Bufferevent, FiniteSetTheorems, TLAPS

\* Whoever owns the bufferevent frees it by bufferevent_free.
FreedByOwner == "owner_decref" \notin ThreadApi \cup CallbackApi

\* TypeOK, but for the bound of the references.
Types ==
  /\ mode \in Mode
  /\ enabled \subseteq Kind
  /\ suspended \in [Kind -> SUBSET {"wm", "bw"}]
  /\ connecting \in BOOLEAN /\ failed \in BOOLEAN /\ cb \in BOOLEAN /\ owned \in BOOLEAN
  /\ deferred \in BOOLEAN /\ freed \in BOOLEAN
  /\ input \in 0..MaxData /\ output \in 0..MaxData /\ high \in 0..MaxData
  /\ pending \subseteq Callback
  /\ refcnt \in Nat /\ held \subseteq Thread
  /\ added \subseteq Kind /\ active \in [Kind -> {"none", "io", "timeout"}]
  /\ finalizing \subseteq Kind \cup {"deferred"}
  /\ current \in Kind \cup {"deferred", "none"} /\ result \in {"none", "io", "timeout"}
  /\ at \in {"idle", "called", "done"} \cup Callback
  /\ calling \in Callback \cup {"none"} /\ chosen \in Callback \cup {"none"}

\* Each reference has its holder.
RefsCounted ==
  refcnt = One(owned) + Cardinality(held) + One(deferred) + One(current = "deferred")
             + One(current \in Kind /\ at # "called")

\* Where the loop is in each of its callbacks, and where it calls the user.
AtOK ==
  /\ current = "none" <=> at = "idle"
  /\ current = "read" => at \in {"called", "done"}
  /\ current = "write" => at \in {"called", "connected", "done"}
  /\ current = "deferred" => at \in {"called", "read", "write", "event", "done"}
  /\ calling # "none" =>
       current = "deferred" \/ (mode = "direct" /\ at \in {"connected", "done"})
  /\ chosen # "none" => current = "deferred" /\ mode = "unlocked" /\ calling = "none"

\* What the last reference leaves: nothing but the callback that runs, which finds no callback
\* of the user, and will find nothing to start again when it is run once more.
LastOK ==
  /\ cb = owned
  /\ refcnt = 0 => finalizing # {} \/ freed
  /\ finalizing # {} \/ freed =>
       /\ ~owned /\ held = {} /\ ~deferred /\ current # "deferred"
       /\ calling = "none" /\ chosen = "none"
       /\ added = {} /\ active = [k \in Kind |-> "none"]
  /\ finalizing # {} =>
       ~freed /\ \E k \in Kind \cup {"deferred"} : finalizing = {k} /\ current \in {"none", k}
  /\ freed => finalizing = {} /\ current = "none"

\* EventsFollowState of all states, also while the lock is held.
EventsOK ==
  finalizing = {} /\ ~freed /\ ~failed =>
     /\ "read" \in added <=> "read" \in enabled /\ suspended["read"] = {}
     /\ "write" \in enabled /\ suspended["write"] = {} /\ output > 0 => "write" \in added
     /\ "write" \in added =>
          connecting \/ at = "connected" \/ ("write" \in enabled /\ suspended["write"] = {})

\* WatermarkHolds of all states.
MarkOK == "wm" \in suspended["read"] <=> high # 0 /\ input >= high

\* The inductive invariant.
IInv == Types /\ RefsCounted /\ AtOK /\ LastOK /\ EventsOK /\ MarkOK

-----------------------------------------------------------------------------
\* The references of the threads are counted.
LEMMA HeldFacts ==
  ASSUME BuffereventAssumption, NEW S, S \subseteq Thread
  PROVE  /\ IsFiniteSet(S) /\ Cardinality(S) \in Nat
         /\ Cardinality(S) <= Cardinality(Thread)
         /\ Cardinality(S) = 0 <=> S = {}
         /\ \A t \in Thread : t \notin S => Cardinality(S \cup {t}) = Cardinality(S) + 1
         /\ \A t \in S : Cardinality(S \ {t}) = Cardinality(S) - 1
  BY FS_Subset, FS_CardinalityType, FS_EmptySet, FS_AddElement, FS_RemoveElement
  DEF BuffereventAssumption

\* A new bufferevent, connected or connecting.
LEMMA InitInv == BuffereventAssumption => (Init => IInv)
<1> SUFFICES ASSUME BuffereventAssumption, Init PROVE IInv
  OBVIOUS
<1>1. added \subseteq Kind
  BY DEF Init, Kind
<1>2. suspended \in [Kind -> SUBSET {"wm", "bw"}] /\ active \in [Kind -> {"none", "io", "timeout"}]
  BY DEF Init
<1>3. 0 \in 0..MaxData
  BY DEF BuffereventAssumption
<1>4. Types
  BY <1>1, <1>2, <1>3 DEF Init, Types, Kind, Callback
<1>5. Cardinality(held) = 0
  BY FS_EmptySet DEF Init
<1>6. RefsCounted
  BY <1>5 DEF Init, RefsCounted, One, Kind
<1>7. AtOK /\ LastOK
  BY DEF Init, AtOK, LastOK, Kind
<1>8. EventsOK /\ MarkOK
  BY DEF Init, EventsOK, MarkOK, Kind
<1> QED
  BY <1>4, <1>6, <1>7, <1>8 DEF IInv

(* Calls, which their caller's reference keeps from finding the bufferevent finalized. *)

LEMMA EnableInv ==
  ASSUME BuffereventAssumption, IInv, NEW k \in Kind, bufferevent_enable(k),
         finalizing = {}, ~freed
  PROVE  IInv'
<1> USE DEF bufferevent_enable, refs, loop, EventAdd
<1>1. enabled' \subseteq Kind /\ added' \subseteq Kind /\ active' = active
  BY DEF IInv, Types
<1>2. Types'
  BY <1>1 DEF IInv, Types
<1>3. RefsCounted'
  BY DEF IInv, RefsCounted
<1>4. AtOK' /\ LastOK'
  BY DEF IInv, AtOK, LastOK
<1>5. EventsOK' /\ MarkOK'
  BY DEF IInv, Types, EventsOK, MarkOK, Kind
<1> QED
  BY <1>2, <1>3, <1>4, <1>5 DEF IInv

LEMMA DisableInv ==
  ASSUME BuffereventAssumption, IInv, NEW k \in Kind, bufferevent_disable(k),
         finalizing = {}, ~freed
  PROVE  IInv'
<1> USE DEF bufferevent_disable, refs, loop, EventDel, be_socket_disable
<1>1. enabled' \subseteq Kind /\ added' \subseteq Kind
  BY DEF IInv, Types
<1>2. active' \in [Kind -> {"none", "io", "timeout"}]
  BY DEF IInv, Types
<1>3. Types'
  BY <1>1, <1>2 DEF IInv, Types
<1>4. RefsCounted'
  BY DEF IInv, RefsCounted
<1>5. AtOK' /\ LastOK'
  BY DEF IInv, AtOK, LastOK
<1>6. EventsOK' /\ MarkOK'
  BY DEF IInv, Types, EventsOK, MarkOK, Kind
<1> QED
  BY <1>3, <1>4, <1>5, <1>6 DEF IInv
\* What suspending and resuming leave of the events.
LEMMA SuspendTypes ==
  ASSUME BuffereventAssumption, Types, NEW k \in Kind, NEW what \in {"wm", "bw"},
         bufferevent_suspend_(k, what) \/ bufferevent_unsuspend_(k, what)
  PROVE  /\ suspended' \in [Kind -> SUBSET {"wm", "bw"}]
         /\ added' \subseteq Kind
         /\ active' \in [Kind -> {"none", "io", "timeout"}]
<1>1. suspended' \in [Kind -> SUBSET {"wm", "bw"}]
  BY DEF Types, bufferevent_suspend_, bufferevent_unsuspend_
<1>2. added' \subseteq Kind
  BY DEF Types, bufferevent_suspend_, bufferevent_unsuspend_, be_socket_disable, EventAdd, EventDel
<1>3. active' \in [Kind -> {"none", "io", "timeout"}]
  BY DEF Types, bufferevent_suspend_, bufferevent_unsuspend_, be_socket_disable, EventAdd, EventDel
<1> QED
  BY <1>1, <1>2, <1>3

LEMMA WriteInv ==
  ASSUME BuffereventAssumption, IInv, bufferevent_write, finalizing = {}, ~freed
  PROVE  IInv'
<1> USE DEF bufferevent_write, refs, loop, EventAdd
<1>1. added' \subseteq Kind /\ active' = active
  BY DEF IInv, Types, Kind
<1>2. output' \in 0..MaxData
  BY DEF IInv, Types, BuffereventAssumption
<1>3. Types'
  BY <1>1, <1>2 DEF IInv, Types
<1>4. RefsCounted'
  BY DEF IInv, RefsCounted
<1>5. AtOK' /\ LastOK'
  BY DEF IInv, AtOK, LastOK
<1>6. EventsOK' /\ MarkOK'
  BY DEF IInv, Types, EventsOK, MarkOK, Kind, BuffereventAssumption
<1> QED
  BY <1>3, <1>4, <1>5, <1>6 DEF IInv

LEMMA ReadInv ==
  ASSUME BuffereventAssumption, IInv, bufferevent_read, finalizing = {}, ~freed
  PROVE  IInv'
<1> USE DEF bufferevent_read, refs, loop, bufferevent_inbuf_wm_cb
<1>1. added' \subseteq Kind /\ active' \in [Kind -> {"none", "io", "timeout"}]
      /\ suspended' \in [Kind -> SUBSET {"wm", "bw"}]
  BY SuspendTypes DEF IInv, Types, Kind
<1>2. input' \in 0..MaxData
  BY DEF IInv, Types, BuffereventAssumption
<1>3. Types'
  BY <1>1, <1>2 DEF IInv, Types
<1>4. RefsCounted'
  BY DEF IInv, RefsCounted
<1> USE DEF bufferevent_suspend_, bufferevent_unsuspend_, be_socket_disable, EventAdd, EventDel
<1>5. AtOK' /\ LastOK'
  BY DEF IInv, AtOK, LastOK
<1>6. EventsOK' /\ MarkOK'
  BY DEF IInv, Types, EventsOK, MarkOK, Kind, BuffereventAssumption
<1> QED
  BY <1>3, <1>4, <1>5, <1>6 DEF IInv

LEMMA SetWatermarkInv ==
  ASSUME BuffereventAssumption, IInv, NEW mark \in 0..MaxData, bufferevent_setwatermark(mark),
         finalizing = {}, ~freed
  PROVE  IInv'
<1> USE DEF bufferevent_setwatermark, refs, loop
<1>1. added' \subseteq Kind /\ active' \in [Kind -> {"none", "io", "timeout"}]
      /\ suspended' \in [Kind -> SUBSET {"wm", "bw"}]
  BY SuspendTypes DEF IInv, Types, Kind
<1>2. Types'
  BY <1>1 DEF IInv, Types
<1>3. RefsCounted'
  BY DEF IInv, RefsCounted
<1> USE DEF bufferevent_suspend_, bufferevent_unsuspend_, be_socket_disable, EventAdd, EventDel
<1>4. AtOK' /\ LastOK'
  BY DEF IInv, AtOK, LastOK
<1>5. EventsOK' /\ MarkOK'
  BY DEF IInv, Types, EventsOK, MarkOK, Kind, BuffereventAssumption
<1> QED
  BY <1>2, <1>3, <1>4, <1>5 DEF IInv

LEMMA SuspendInv ==
  ASSUME BuffereventAssumption, IInv, NEW k \in Kind, NEW on \in BOOLEAN, Suspend(k, on),
         finalizing = {}, ~freed
  PROVE  IInv'
<1> USE DEF Suspend, refs, loop
<1>1. added' \subseteq Kind /\ active' \in [Kind -> {"none", "io", "timeout"}]
      /\ suspended' \in [Kind -> SUBSET {"wm", "bw"}]
  BY SuspendTypes DEF IInv, Types
<1>2. Types'
  BY <1>1 DEF IInv, Types
<1>3. RefsCounted'
  BY DEF IInv, RefsCounted
<1> USE DEF bufferevent_suspend_, bufferevent_unsuspend_, be_socket_disable, EventAdd, EventDel
<1>4. AtOK' /\ LastOK'
  BY DEF IInv, AtOK, LastOK
<1>5. EventsOK' /\ MarkOK'
  BY DEF IInv, Types, EventsOK, MarkOK, Kind, BuffereventAssumption
<1> QED
  BY <1>2, <1>3, <1>4, <1>5 DEF IInv

\* A callback of the user is called, or will be by the deferred callback.
LEMMA RunCallback ==
  ASSUME BuffereventAssumption, Types, NEW which \in Callback, NEW forced \in BOOLEAN,
         NEW n \in Nat, run_callback(which, forced, n)
  PROVE  /\ pending' \subseteq Callback /\ deferred' \in BOOLEAN /\ refcnt' \in Nat
         /\ calling' \in Callback \cup {"none"}
         /\ calling' = calling \/ (cb /\ mode = "direct" /\ ~forced)
         /\ refcnt' - One(deferred') = n - One(deferred)
         /\ ~cb => calling' = calling /\ deferred' = deferred /\ refcnt' = n
  BY DEF Types, run_callback, NoCallback, SCHEDULE_DEFERRED, One

LEMMA TriggerInv ==
  ASSUME BuffereventAssumption, IInv, NEW k \in Kind, bufferevent_trigger(k),
         finalizing = {}, ~freed
  PROVE  IInv'
<1> USE DEF bufferevent_trigger
<1>1. /\ pending' \subseteq Callback /\ deferred' \in BOOLEAN /\ refcnt' \in Nat
      /\ calling' = calling
      /\ refcnt' - One(deferred') = refcnt - One(deferred)
      /\ deferred => deferred'
  BY RunCallback DEF IInv, Types, NoCallback, Kind, Callback, run_callback, SCHEDULE_DEFERRED
<1>2. Types'
  BY <1>1 DEF IInv, Types
<1>3. Cardinality(held) \in Nat
  BY HeldFacts DEF IInv, Types
<1>4. RefsCounted'
  BY <1>1, <1>3 DEF IInv, RefsCounted, Types, One
<1>5. refcnt # 0
  BY DEF IInv, LastOK
<1>6. refcnt \in Nat /\ deferred \in BOOLEAN
  BY DEF IInv, Types
<1> HIDE DEF bufferevent_trigger
<1>7. One(deferred') >= One(deferred) /\ One(deferred) \in Nat /\ One(deferred') \in Nat
  BY <1>1, <1>6 DEF One
<1>8. refcnt' # 0
  BY <1>1, <1>5, <1>6, <1>7
<1> USE DEF bufferevent_trigger
<1>9. AtOK' /\ LastOK'
  BY <1>1, <1>8 DEF IInv, AtOK, LastOK
<1>10. EventsOK' /\ MarkOK'
  BY DEF IInv, Types, EventsOK, MarkOK
<1> QED
  BY <1>2, <1>4, <1>9, <1>10 DEF IInv
LEMMA IncrefInv ==
  ASSUME BuffereventAssumption, IInv, NEW t, bufferevent_incref(t), finalizing = {}, ~freed
  PROVE  IInv'
<1> USE DEF bufferevent_incref, bev, queues, loop
<1>1. Types'
  BY DEF IInv, Types
<1>2. Cardinality(held') = Cardinality(held) + 1 /\ Cardinality(held) \in Nat
  BY HeldFacts DEF IInv, Types
<1>3. RefsCounted'
  BY <1>2 DEF IInv, RefsCounted, One, Types
<1>4. AtOK' /\ LastOK'
  BY DEF IInv, AtOK, LastOK, Types
<1>5. EventsOK' /\ MarkOK'
  BY DEF IInv, EventsOK, MarkOK
<1> QED
  BY <1>1, <1>3, <1>4, <1>5 DEF IInv

\* A reference is given up, which may be the last one.
LEMMA DecrefInv ==
  ASSUME BuffereventAssumption, IInv, bufferevent_decref_and_unlock_, AtOK',
         UNCHANGED <<mode, enabled, suspended, connecting, failed, input, output, high, pending,
                     result, calling, chosen>>,
         owned' \in BOOLEAN, cb' = owned', held' \subseteq Thread,
         current' \in {"none", current}, at' \in {"idle", at}, at = "connected" => at' = at,
         refcnt - 1 = One(owned') + Cardinality(held') + One(deferred)
                        + One(current' = "deferred") + One(current' \in Kind /\ at' # "called"),
         finalizing # {} \/ freed => ~owned' /\ held' = {}
  PROVE  IInv'
<1> USE DEF bufferevent_decref_and_unlock_
<1>1. Cardinality(held') \in Nat /\ (Cardinality(held') = 0 <=> held' = {})
  BY HeldFacts
<1>2. refcnt > 0 /\ refcnt' = refcnt - 1 /\ freed' = freed
  BY <1>1 DEF IInv, Types, One
<1>3. CASE refcnt # 1
  <2>1. UNCHANGED <<added, active, deferred, finalizing>>
    BY <1>3 DEF queues
  <2>2. Types'
    BY <1>2, <2>1 DEF IInv, Types
  <2>3. RefsCounted'
    BY <1>2, <2>1 DEF RefsCounted
  <2>4. LastOK'
    BY <1>2, <1>3, <2>1 DEF IInv, LastOK, Types
  <2>5. EventsOK' /\ MarkOK'
    BY <1>2, <2>1 DEF IInv, EventsOK, MarkOK
  <2> QED
    BY <2>2, <2>3, <2>4, <2>5 DEF IInv
<1>4. CASE refcnt = 1
  <2>1. /\ added' = {} /\ active' = [k \in Kind |-> "none"] /\ deferred' = FALSE
        /\ finalizing' = finalizing \cup {IF current = "none" THEN "read" ELSE current}
    BY <1>4 DEF finalize_many
  <2>2. /\ ~owned' /\ held' = {} /\ ~deferred /\ current' # "deferred"
        /\ ~(current' \in Kind /\ at' # "called")
    BY <1>1, <1>4 DEF One, IInv, Types
  <2>3. finalizing' \subseteq Kind \cup {"deferred"}
    BY <2>1 DEF IInv, Types, Kind
  <2>4. active' \in [Kind -> {"none", "io", "timeout"}]
    BY <2>1
  <2>5. /\ at' \in {"idle", "called", "done"} \cup Callback
        /\ current' \in Kind \cup {"deferred", "none"}
    BY DEF IInv, Types
  <2>6. refcnt' \in Nat
    BY <1>2, <1>4
  <2>7. added' \subseteq Kind /\ deferred' \in BOOLEAN
    BY <2>1, Zenon
  <2>8. Types'
    BY <1>2, <2>5, <2>6, <2>7, <2>3, <2>4 DEF IInv, Types
  <2>9. RefsCounted'
    BY <1>2, <1>4, <2>1, <2>2 DEF RefsCounted, One
  <2>10. calling' = "none" /\ chosen' = "none"
    BY <2>2, <2>8 DEF AtOK, Types
  <2>11. ASSUME freed PROVE FALSE
    <3>1. ~owned /\ held = {} /\ ~deferred /\ current = "none"
      BY <2>11 DEF IInv, LastOK
    <3>2. Cardinality(held) = 0
      BY <3>1, FS_EmptySet
    <3> QED
      BY <1>4, <3>1, <3>2 DEF IInv, RefsCounted, One, Kind
  <2>12. \E k \in Kind \cup {"deferred"} : finalizing' = {k} /\ current' \in {"none", k}
    <3>1. CASE finalizing = {}
      BY <2>1, <3>1 DEF IInv, Types, Kind
    <3>2. CASE finalizing # {}
      <4>1. ~owned /\ held = {} /\ ~deferred /\ current # "deferred"
        BY <3>2 DEF IInv, LastOK
      <4>2. Cardinality(held) = 0
        BY <4>1, FS_EmptySet
      <4>3. current # "none"
        BY <1>4, <4>1, <4>2 DEF IInv, RefsCounted, One, Kind
      <4> QED
        BY <2>1, <3>2, <4>3 DEF IInv, LastOK
    <3> QED
      BY <3>1, <3>2
  <2>13. LastOK'
    BY <1>2, <2>1, <2>2, <2>10, <2>11, <2>12 DEF LastOK
  <2>14. EventsOK' /\ MarkOK'
    BY <2>12 DEF IInv, EventsOK, MarkOK
  <2> QED
    BY <2>8, <2>9, <2>13, <2>14 DEF IInv
<1> QED
  BY <1>3, <1>4

LEMMA ThreadDecrefInv ==
  ASSUME BuffereventAssumption, IInv, NEW t, bufferevent_decref(t), finalizing = {}, ~freed
  PROVE  IInv'
<1> USE DEF bufferevent_decref, bev, loop
<1>1. Cardinality(held') = Cardinality(held) - 1 /\ Cardinality(held) \in Nat
  BY HeldFacts DEF IInv, Types
<1>2. AtOK'
  BY DEF IInv, AtOK
<1>3. refcnt - 1 = One(owned') + Cardinality(held') + One(deferred)
                     + One(current' = "deferred") + One(current' \in Kind /\ at' # "called")
  BY <1>1 DEF IInv, RefsCounted, One, Types
<1> QED
  BY <1>2, <1>3, DecrefInv DEF IInv, Types, LastOK

LEMMA FreeInv ==
  ASSUME BuffereventAssumption, IInv, owned, bufferevent_free
  PROVE  IInv'
<1> USE DEF bufferevent_free, loop
<1>1. Cardinality(held) \in Nat
  BY HeldFacts DEF IInv, Types
<1>2. AtOK'
  BY DEF IInv, AtOK
<1>3. refcnt - 1 = One(owned') + Cardinality(held') + One(deferred)
                     + One(current' = "deferred") + One(current' \in Kind /\ at' # "called")
  BY <1>1 DEF IInv, RefsCounted, One, Types
<1> QED
  BY <1>2, <1>3, DecrefInv DEF IInv, Types, LastOK

LEMMA DoneInv ==
  ASSUME BuffereventAssumption, IInv, Done
  PROVE  IInv'
<1> USE DEF Done, bev
<1>1. Cardinality(held) \in Nat
  BY HeldFacts DEF IInv, Types
<1>2. AtOK'
  BY DEF IInv, AtOK
<1>3. refcnt - 1 = One(owned') + Cardinality(held') + One(deferred)
                     + One(current' = "deferred") + One(current' \in Kind /\ at' # "called")
  BY <1>1 DEF IInv, RefsCounted, One, Types, AtOK, Kind
<1> QED
  BY <1>2, <1>3, DecrefInv DEF IInv, Types, LastOK
-----------------------------------------------------------------------------
(* The loop                                                                *)

LEMMA ActivateInv ==
  ASSUME BuffereventAssumption, IInv, NEW k \in Kind, NEW why \in {"io", "timeout"},
         Activate(k, why)
  PROVE  IInv'
<1> USE DEF Activate, bev, refs, loop
<1>1. active' \in [Kind -> {"none", "io", "timeout"}]
  BY DEF IInv, Types
<1>2. Types'
  BY <1>1 DEF IInv, Types
<1>3. RefsCounted'
  BY DEF IInv, RefsCounted
<1>4. AtOK'
  BY DEF IInv, AtOK
<1>5. LastOK'
  BY DEF IInv, LastOK
<1>6. EventsOK' /\ MarkOK'
  BY DEF IInv, EventsOK, MarkOK
<1> QED
  BY <1>2, <1>3, <1>4, <1>5, <1>6 DEF IInv

LEMMA PickInv ==
  ASSUME BuffereventAssumption, IInv, NEW k \in Kind \cup {"deferred"}, Pick(k)
  PROVE  IInv'
<1> USE DEF Pick, bev, refs
<1>1. active' \in [Kind -> {"none", "io", "timeout"}] /\ result' \in {"none", "io", "timeout"}
  BY DEF IInv, Types, Kind
<1>2. deferred' \in BOOLEAN
  BY DEF IInv, Types, Kind
<1>3. Types'
  BY <1>1, <1>2 DEF IInv, Types
<1>4. Cardinality(held) \in Nat
  BY HeldFacts DEF IInv, Types
<1>5. RefsCounted'
  BY <1>4 DEF IInv, RefsCounted, Types, One, Kind
<1>6. AtOK'
  BY DEF IInv, AtOK, Kind
<1>7. finalizing = {} /\ ~freed
  BY DEF IInv, LastOK
<1>8. LastOK'
  BY <1>7 DEF IInv, LastOK
<1>9. EventsOK' /\ MarkOK'
  BY DEF IInv, EventsOK, MarkOK, AtOK
<1> QED
  BY <1>3, <1>5, <1>6, <1>8, <1>9 DEF IInv

\* One of the four tests of run_deferred_callbacks is the first that finds something.
LEMMA LeastOfFour ==
  ASSUME NEW S, S \subseteq {1, 2, 3, 4}, S # {}
  PROVE  \E i \in S : \A j \in S : i <= j
<1>1. CASE 1 \in S
  BY <1>1
<1>2. CASE 1 \notin S /\ 2 \in S
  BY <1>2
<1>3. CASE 1 \notin S /\ 2 \notin S /\ 3 \in S
  BY <1>3
<1>4. CASE S \subseteq {4}
  <2>1. S = {4}
    BY <1>4
  <2> QED
    BY <2>1
<1> QED
  BY <1>1, <1>2, <1>3, <1>4

\* The deferred callback goes on to the next callback of the user, or to its end.
LEMMA DeferredInv ==
  ASSUME BuffereventAssumption, IInv, bufferevent_run_deferred_callbacks
  PROVE  IInv'
<1> DEFINE first == IF at = "called" THEN 1 ELSE CHOOSE i \in 1..4 : Callbacks[i] = at
           due == {i \in first..4 : Taken(i) # {} /\ cb}
           next == Min(due)
<1> USE DEF bufferevent_run_deferred_callbacks, refs, queues
<1>1. first \in 1..4
  <2>1. at = "called" \/ \E i \in 1..4 : Callbacks[i] = at
    BY DEF IInv, AtOK, Callbacks
  <2> QED
    BY <2>1
<1>2. due # {} => next \in due /\ next \in 1..4
  <2>1. due # {} => \E i \in due : \A j \in due : i <= j
    <3>1. due \subseteq {1, 2, 3, 4}
      BY <1>1
    <3> HIDE DEF due
    <3> QED
      BY <3>1, LeastOfFour
  <2> HIDE DEF due
  <2>2. due # {} => next \in due
    BY <2>1 DEF Min
  <2>3. due \subseteq 1..4
    BY <1>1 DEF due
  <2> QED
    BY <2>2, <2>3
<1>3. \/ due = {} /\ at' = "done" /\ UNCHANGED <<pending, calling, chosen>>
      \/ /\ cb /\ next \in 1..4 /\ due # {}
         /\ pending' \subseteq pending
         /\ \/ mode = "unlocked" /\ chosen' = Callbacks[next] /\ UNCHANGED calling
            \/ mode # "unlocked" /\ calling' = Callbacks[next] /\ UNCHANGED chosen
         /\ at' = IF next = 4 THEN "done" ELSE Callbacks[next + 1]
  BY <1>2
<1> HIDE DEF first, due, next
<1>4. \/ at' = "done" /\ UNCHANGED <<pending, calling, chosen>>
      \/ /\ cb
         /\ pending' \subseteq pending
         /\ \/ mode = "unlocked" /\ chosen' \in Callback /\ UNCHANGED calling
            \/ calling' \in Callback /\ UNCHANGED chosen
         /\ at' \in {"done", "read", "write", "event"}
  BY <1>3 DEF Callbacks, Callback
<1>5. Types'
  BY <1>4 DEF IInv, Types, Callback
<1>6. RefsCounted'
  BY DEF IInv, RefsCounted, Kind
<1>7. AtOK'
  BY <1>4 DEF IInv, AtOK
<1>8. LastOK'
  BY <1>4 DEF IInv, LastOK
<1>9. EventsOK' /\ MarkOK'
  BY DEF IInv, EventsOK, MarkOK, AtOK
<1> QED
  BY <1>5, <1>6, <1>7, <1>8, <1>9 DEF IInv

\* UNLOCKED calls what was chosen: the deferred callback still has its reference.
LEMMA CallUnlockedInv ==
  ASSUME BuffereventAssumption, IInv, CallUnlocked
  PROVE  IInv'
<1> USE DEF CallUnlocked, bev, refs, queues
<1>1. Types'
  BY DEF IInv, Types
<1>2. RefsCounted' /\ AtOK'
  BY DEF IInv, RefsCounted, AtOK
<1>3. LastOK'
  BY DEF IInv, LastOK
<1>4. EventsOK' /\ MarkOK'
  BY DEF IInv, EventsOK, MarkOK
<1> QED
  BY <1>1, <1>2, <1>3, <1>4 DEF IInv

LEMMA ReturnsInv ==
  ASSUME BuffereventAssumption, IInv, CallbackReturns
  PROVE  IInv'
<1> USE DEF CallbackReturns, bev, refs, queues
<1>1. Types'
  BY DEF IInv, Types
<1>2. RefsCounted' /\ AtOK'
  BY DEF IInv, RefsCounted, AtOK
<1>3. LastOK'
  BY DEF IInv, LastOK
<1>4. EventsOK' /\ MarkOK'
  BY DEF IInv, EventsOK, MarkOK
<1> QED
  BY <1>1, <1>2, <1>3, <1>4 DEF IInv

LEMMA FinalizeInv ==
  ASSUME BuffereventAssumption, IInv, bufferevent_finalize_cb_
  PROVE  IInv'
<1> USE DEF bufferevent_finalize_cb_, bev, loop
<1>1. finalizing # {} /\ finalizing' = {} /\ freed' = TRUE
  BY DEF IInv, LastOK
<1>2. Types'
  BY <1>1 DEF IInv, Types
<1>3. RefsCounted' /\ AtOK'
  BY DEF IInv, RefsCounted, AtOK
<1>4. LastOK'
  BY <1>1 DEF IInv, LastOK
<1>5. EventsOK' /\ MarkOK'
  BY <1>1 DEF IInv, EventsOK, MarkOK
<1> QED
  BY <1>2, <1>3, <1>4, <1>5 DEF IInv
\* What EventDel leaves of the events.
LEMMA DelTypes ==
  ASSUME Types, NEW kinds, EventDel(kinds)
  PROVE  added' \subseteq Kind /\ active' \in [Kind -> {"none", "io", "timeout"}]
<1>1. added' \subseteq Kind
  BY DEF Types, EventDel
<1>2. active' \in [Kind -> {"none", "io", "timeout"}]
  BY DEF Types, EventDel
<1> QED
  BY <1>1, <1>2

\* The references when a handler, which takes one when it begins, calls back or lets the
\* deferred callback do so.
HandlerCount == IF at = "called" THEN refcnt + 1 ELSE refcnt

HandlerCalls ==
  \/ NoCallback(HandlerCount)
  \/ \E which \in Callback : run_callback(which, FALSE, HandlerCount)

LEMMA HandlerRefs ==
  ASSUME BuffereventAssumption, IInv, HandlerCalls,
         current \in Kind, at \in {"called", "connected"}, calling = "none",
         at' \in {"connected", "done"}, current' = current, UNCHANGED <<owned, held>>
  PROVE  /\ RefsCounted'
         /\ refcnt' \in Nat \ {0} /\ deferred' \in BOOLEAN /\ pending' \subseteq Callback
         /\ calling' \in Callback \cup {"none"}
         /\ calling' # "none" => mode = "direct"
         /\ ~owned => deferred' = deferred /\ calling' = calling
<1>1. Cardinality(held) \in Nat
  BY HeldFacts DEF IInv, Types
<1>2. HandlerCount \in Nat \ {0}
  BY <1>1 DEF HandlerCount, IInv, Types, RefsCounted, One, Kind
<1>3. HandlerCount = One(owned) + Cardinality(held) + One(deferred) + 1
  BY <1>1 DEF HandlerCount, IInv, Types, RefsCounted, One, Kind
<1>4. CASE NoCallback(HandlerCount)
  <2>1. UNCHANGED <<pending, deferred, calling>> /\ refcnt' = HandlerCount
    BY <1>4 DEF NoCallback
  <2>2. RefsCounted'
    BY <1>1, <1>3, <2>1 DEF RefsCounted, One, Kind
  <2> QED
    BY <1>2, <2>1, <2>2 DEF IInv, Types
<1>5. CASE \E which \in Callback : run_callback(which, FALSE, HandlerCount)
  <2>1. PICK which \in Callback : run_callback(which, FALSE, HandlerCount)
    BY <1>5
  <2>2. /\ pending' \subseteq Callback /\ deferred' \in BOOLEAN /\ refcnt' \in Nat
        /\ calling' \in Callback \cup {"none"}
        /\ calling' = calling \/ mode = "direct"
        /\ refcnt' - One(deferred') = HandlerCount - One(deferred)
        /\ ~cb => calling' = calling /\ deferred' = deferred /\ refcnt' = HandlerCount
    <3>1. Types
      BY DEF IInv
    <3>2. pending' \subseteq Callback
      BY <2>1, <3>1 DEF Types, run_callback, NoCallback
    <3>3. deferred' \in BOOLEAN
      BY <2>1, <3>1 DEF Types, run_callback, NoCallback, SCHEDULE_DEFERRED
    <3>4. calling' \in Callback \cup {"none"} /\ (calling' = calling \/ mode = "direct")
      BY <2>1, <3>1 DEF Types, run_callback, NoCallback
    <3>5. CASE ~cb
      BY <1>2, <2>1, <3>2, <3>3, <3>4, <3>5 DEF run_callback, NoCallback
    <3>6. CASE cb /\ mode = "direct"
      BY <1>2, <2>1, <3>2, <3>3, <3>4, <3>6 DEF run_callback
    <3>7. CASE cb /\ mode # "direct"
      <4>1. SCHEDULE_DEFERRED(HandlerCount)
        BY <2>1, <3>7 DEF run_callback
      <4>2. refcnt' \in Nat /\ refcnt' - One(deferred') = HandlerCount - One(deferred)
        <5>1. CASE deferred \/ "deferred" \in finalizing
          <6>1. refcnt' = HandlerCount /\ (deferred' <=> deferred)
            BY <3>1, <4>1, <5>1 DEF SCHEDULE_DEFERRED, Types
          <6> QED
            BY <1>2, <6>1 DEF One
        <5>2. CASE ~deferred /\ "deferred" \notin finalizing
          <6>1. refcnt' = HandlerCount + 1 /\ deferred'
            BY <4>1, <5>2 DEF SCHEDULE_DEFERRED
          <6> QED
            BY <1>2, <5>2, <6>1 DEF One
        <5> QED
          BY <5>1, <5>2
      <4> QED
        BY <3>2, <3>3, <3>4, <3>7, <4>2
    <3> QED
      BY <3>1, <3>5, <3>6, <3>7 DEF Types
  <2>3. cb = owned
    BY DEF IInv, LastOK
  <2>4. RefsCounted' /\ refcnt' # 0
    BY <1>1, <1>3, <2>2 DEF IInv, Types, RefsCounted, One, Kind
  <2> QED
    BY <2>2, <2>3, <2>4
<1> QED
  BY <1>4, <1>5 DEF HandlerCalls

\* The invariant of what a handler does to the rest.
HandlerEvents ==
  /\ enabled' \subseteq Kind /\ suspended' \in [Kind -> SUBSET {"wm", "bw"}]
  /\ connecting' \in BOOLEAN /\ failed' \in BOOLEAN
  /\ input' \in 0..MaxData /\ output' \in 0..MaxData
  /\ added' \subseteq Kind /\ active' \in [Kind -> {"none", "io", "timeout"}]
  /\ finalizing # {} => added' = {} /\ active' = [k \in Kind |-> "none"]
  /\ EventsOK' /\ MarkOK'

\* A handler, up to the callback of a connection, and from there to its end.
LEMMA HandlerInv ==
  ASSUME BuffereventAssumption, IInv, HandlerEvents, HandlerCalls,
         UNCHANGED <<mode, high, cb, owned, held, freed, finalizing, current, chosen>>,
         result' \in {"none", result},
         current \in Kind, at \in {"called", "connected"}, calling = "none",
         at' \in {"connected", "done"}, at' = "connected" => current = "write"
  PROVE  IInv'
<1>1. /\ RefsCounted'
      /\ refcnt' \in Nat \ {0} /\ deferred' \in BOOLEAN /\ pending' \subseteq Callback
      /\ calling' \in Callback \cup {"none"}
      /\ calling' # "none" => mode = "direct"
      /\ ~owned => deferred' = deferred /\ calling' = calling
  BY HandlerRefs
<1>2. at' \in {"idle", "called", "done"} \cup Callback /\ result' \in {"none", "io", "timeout"}
  BY DEF IInv, Types, Callback
<1>3. Types'
  BY <1>1, <1>2 DEF IInv, Types, HandlerEvents
<1>4. AtOK'
  BY <1>1 DEF IInv, AtOK, Kind
<1>5. LastOK'
  BY <1>1 DEF IInv, LastOK, HandlerEvents, Kind
<1> QED
  BY <1>1, <1>3, <1>4, <1>5 DEF IInv, HandlerEvents

\* The handler has read or written nothing, but an error or a timeout.
LEMMA ErrorEvents ==
  ASSUME BuffereventAssumption, IInv, NEW k \in Kind, enabled' = enabled \ {k},
         be_socket_disable(k),
         UNCHANGED <<suspended, connecting, failed, input, output, high, finalizing, freed>>,
         at # "connected" \/ k = "write"
  PROVE  HandlerEvents
<1>1. added' \subseteq Kind /\ active' \in [Kind -> {"none", "io", "timeout"}]
  BY DelTypes DEF IInv, Types, be_socket_disable
<1>2. finalizing # {} => added' = {} /\ active' = [j \in Kind |-> "none"]
  BY DEF IInv, LastOK, be_socket_disable, EventDel
<1>3. EventsOK' /\ MarkOK'
  BY DEF IInv, Types, EventsOK, MarkOK, be_socket_disable, EventDel, Kind
<1>4. enabled' \subseteq Kind
  BY DEF IInv, Types
<1> QED
  BY <1>1, <1>2, <1>3, <1>4 DEF HandlerEvents, IInv, Types
\* What is read moves the input to another length, which the watermark may be.
LEMMA InputEvents ==
  ASSUME BuffereventAssumption, IInv, NEW n \in 0..MaxData, bufferevent_inbuf_wm_cb(n),
         finalizing # {} => "read" \in finalizing,
         UNCHANGED <<enabled, connecting, failed, output, high, finalizing, freed>>,
         at # "connected"
  PROVE  HandlerEvents
<1>1. added' \subseteq Kind /\ active' \in [Kind -> {"none", "io", "timeout"}]
      /\ suspended' \in [Kind -> SUBSET {"wm", "bw"}] /\ input' \in 0..MaxData
  BY SuspendTypes DEF IInv, Types, bufferevent_inbuf_wm_cb, Kind
<1> USE DEF bufferevent_inbuf_wm_cb, bufferevent_suspend_, bufferevent_unsuspend_,
            be_socket_disable, EventAdd, EventDel
<1>2. finalizing # {} => added' = {} /\ active' = [j \in Kind |-> "none"]
  BY DEF IInv, LastOK
<1>3. EventsOK' /\ MarkOK'
  BY DEF IInv, Types, EventsOK, MarkOK, Kind, BuffereventAssumption
<1> QED
  BY <1>1, <1>2, <1>3 DEF HandlerEvents, IInv, Types
\* Nothing but a connection is made, or refused.
LEMMA QuietEvents ==
  ASSUME IInv, UNCHANGED <<enabled, suspended, failed, input, output, added, active, high,
                           finalizing, freed>>,
         connecting' \in {connecting, FALSE},
         at = "connected" => "write" \in enabled /\ suspended["write"] = {},
         connecting' # connecting => at' = "connected"
  PROVE  HandlerEvents
<1>1. EventsOK' /\ MarkOK'
  BY DEF IInv, Types, EventsOK, MarkOK
<1> QED
  BY <1>1 DEF HandlerEvents, IInv, Types, LastOK

\* There is nothing more to write, or nothing may be.
LEMMA DelWriteEvents ==
  ASSUME BuffereventAssumption, IInv, EventDel({"write"}), NEW n \in 0..MaxData, output' = n,
         UNCHANGED <<enabled, suspended, connecting, failed, input, high, finalizing, freed>>,
         n = 0 \/ "write" \notin enabled \/ suspended["write"] # {}
  PROVE  HandlerEvents
<1>1. added' \subseteq Kind /\ active' \in [Kind -> {"none", "io", "timeout"}]
  BY DelTypes DEF IInv
<1>2. finalizing # {} => added' = {} /\ active' = [j \in Kind |-> "none"]
  BY DEF IInv, LastOK, EventDel
<1>3. EventsOK' /\ MarkOK'
  BY DEF IInv, Types, EventsOK, MarkOK, EventDel, Kind
<1> QED
  BY <1>1, <1>2, <1>3 DEF HandlerEvents, IInv, Types

\* What is written, and what the user is told of it.
LEMMA WriteOutEvents ==
  ASSUME BuffereventAssumption, IInv, NEW n, NEW c, WriteOut(n, c),
         UNCHANGED <<mode, high, finalizing, freed, cb>>,
         at = "connected" => "write" \in enabled /\ suspended["write"] = {}
  PROVE  /\ HandlerEvents
         /\ NoCallback(n) \/ \E which \in Callback : run_callback(which, FALSE, n)
<1>1. CASE suspended["write"] # {} /\ Nothing(n)
  BY <1>1, QuietEvents DEF Nothing
<1>2. CASE /\ suspended["write"] = {} /\ output = 0
           /\ EventDel({"write"})
           /\ IF c THEN NoCallback(n) ELSE run_callback("write", FALSE, n)
           /\ UNCHANGED <<enabled, suspended, connecting, failed, input, output>>
  BY <1>2, DelWriteEvents DEF Callback, IInv, Types
<1>3. CASE suspended["write"] = {} /\ output > 0 /\ Nothing(n)
  BY <1>3, QuietEvents DEF Nothing
<1>4. CASE suspended["write"] = {} /\ output > 0 /\ HandlerError("write", n)
  <2>1. HandlerEvents
    BY <1>4, ErrorEvents DEF HandlerError, Kind
  <2> QED
    BY <1>4, <2>1 DEF HandlerError, Callback
<1>5. ASSUME NEW put \in 1..output, output' = output - put,
             suspended["write"] = {}, output > 0,
             IF put = output
             THEN EventDel({"write"}) /\ run_callback("write", FALSE, n)
             ELSE NoCallback(n) /\ UNCHANGED <<added, active>>,
             UNCHANGED <<enabled, suspended, connecting, failed, input>>
      PROVE  /\ HandlerEvents
             /\ NoCallback(n) \/ \E which \in Callback : run_callback(which, FALSE, n)
  <2>1. output' \in 0..MaxData
    BY <1>5 DEF IInv, Types, BuffereventAssumption
  <2>2. CASE put = output
    <3>1. EventDel({"write"}) /\ run_callback("write", FALSE, n)
      BY <1>5, <2>2
    <3>2. output' = 0
      BY <1>5, <2>2 DEF IInv, Types, BuffereventAssumption
    <3>3. HandlerEvents
      BY <1>5, <2>1, <3>1, <3>2, DelWriteEvents
    <3> QED
      BY <3>1, <3>3 DEF Callback
  <2>3. CASE put # output
    <3>1. NoCallback(n) /\ UNCHANGED <<added, active>>
      BY <1>5, <2>3
    <3>2. EventsOK' /\ MarkOK'
      BY <1>5, <3>1 DEF IInv, Types, EventsOK, MarkOK
    <3> QED
      BY <1>5, <2>1, <3>1, <3>2 DEF HandlerEvents, IInv, Types, LastOK
  <2> QED
    BY <2>2, <2>3
<1> QED
  BY <1>1, <1>2, <1>3, <1>4, <1>5 DEF WriteOut

LEMMA ReadcbInv ==
  ASSUME BuffereventAssumption, IInv, bufferevent_readcb
  PROVE  IInv'
<1> DEFINE n == refcnt + 1
           room == (IF high = 0 THEN MaxData ELSE high) - input
           full == high # 0 /\ input >= high
<1>1. /\ current = "read" /\ at = "called" /\ at' = "done" /\ result' = "none"
      /\ UNCHANGED <<mode, high, cb, owned, held, freed, finalizing, current, chosen>>
  BY DEF bufferevent_readcb
<1>2. HandlerCount = n /\ calling = "none"
  BY <1>1 DEF HandlerCount, IInv, AtOK
<1>3. finalizing # {} => "read" \in finalizing
  BY <1>1 DEF IInv, LastOK
<1>4. HandlerEvents /\ HandlerCalls
  <2>1. CASE HandlerError("read", n)
    <3>1. HandlerEvents
      BY <1>1, <2>1, ErrorEvents DEF HandlerError, Kind
    <3> QED
      BY <1>2, <2>1, <3>1 DEF HandlerError, HandlerCalls, Callback
  <2>2. CASE Nothing(n)
    <3>1. HandlerEvents
      BY <1>1, <2>2, QuietEvents DEF Nothing
    <3> QED
      BY <1>2, <2>2, <3>1 DEF Nothing, HandlerCalls
  <2>3. CASE /\ full /\ bufferevent_suspend_("read", "wm") /\ NoCallback(n)
             /\ UNCHANGED <<enabled, connecting, failed, input, output>>
    <3>1. bufferevent_inbuf_wm_cb(input)
      BY <2>3 DEF bufferevent_inbuf_wm_cb, IInv, Types
    <3>2. HandlerEvents
      BY <1>1, <1>3, <2>3, <3>1, InputEvents DEF IInv, Types
    <3> QED
      BY <1>2, <2>3, <3>2 DEF HandlerCalls
  <2>4. ASSUME NEW got \in 1..room, bufferevent_inbuf_wm_cb(input + got),
               run_callback("read", FALSE, n), ~full,
               UNCHANGED <<enabled, connecting, failed, output>>
        PROVE  HandlerEvents /\ HandlerCalls
    <3>1. input + got \in 0..MaxData
      BY DEF IInv, Types, BuffereventAssumption
    <3>2. HandlerEvents
      BY <1>1, <1>3, <2>4, <3>1, InputEvents
    <3> QED
      BY <1>2, <2>4, <3>2 DEF HandlerCalls, Callback
  <2> QED
    BY <2>1, <2>2, <2>3, <2>4 DEF bufferevent_readcb
<1> QED
  BY <1>1, <1>2, <1>4, HandlerInv DEF Kind

LEMMA WritecbInv ==
  ASSUME BuffereventAssumption, IInv, bufferevent_writecb
  PROVE  IInv'
<1> DEFINE n == refcnt + 1
<1>1. /\ current = "write" /\ at = "called" /\ at' \in {"done", "connected"} /\ result' = "none"
      /\ UNCHANGED <<mode, high, cb, owned, held, freed, finalizing, current, chosen>>
  BY DEF bufferevent_writecb
<1>2. HandlerCount = n /\ calling = "none"
  BY <1>1 DEF HandlerCount, IInv, AtOK
<1>3. HandlerEvents /\ HandlerCalls
  <2>1. CASE HandlerError("write", n)
    <3>1. HandlerEvents
      BY <1>1, <2>1, ErrorEvents DEF HandlerError, Kind
    <3> QED
      BY <1>2, <2>1, <3>1 DEF HandlerError, HandlerCalls, Callback
  <2>2. CASE WriteOut(n, FALSE)
    BY <1>1, <1>2, <2>2, WriteOutEvents DEF HandlerCalls
  <2>3. CASE Nothing(n)
    <3>1. HandlerEvents
      BY <1>1, <2>3, QuietEvents DEF Nothing
    <3> QED
      BY <1>2, <2>3, <3>1 DEF Nothing, HandlerCalls
  <2>4. CASE /\ connecting' = FALSE /\ failed' = TRUE
             /\ EventDel(Kind)
             /\ run_callback("event", FALSE, n)
             /\ UNCHANGED <<enabled, suspended, input, output>>
    <3>1. added' \subseteq Kind /\ active' \in [Kind -> {"none", "io", "timeout"}]
      BY <2>4, DelTypes DEF IInv
    <3>2. finalizing # {} => added' = {} /\ active' = [j \in Kind |-> "none"]
      BY <2>4 DEF IInv, LastOK, EventDel
    <3>3. EventsOK' /\ MarkOK'
      BY <1>1, <2>4 DEF IInv, EventsOK, MarkOK
    <3> QED
      BY <1>1, <1>2, <2>4, <3>1, <3>2, <3>3 DEF HandlerEvents, HandlerCalls, Callback, IInv, Types
  <2>5. CASE /\ at' = "connected" /\ connecting' = FALSE
             /\ run_callback("connected", FALSE, n)
             /\ UNCHANGED <<enabled, suspended, failed, input, output, added, active>>
    <3>1. HandlerEvents
      BY <1>1, <2>5, QuietEvents
    <3> QED
      BY <1>2, <2>5, <3>1 DEF HandlerCalls, Callback
  <2> QED
    BY <2>1, <2>2, <2>3, <2>4, <2>5 DEF bufferevent_writecb
<1> QED
  BY <1>1, <1>2, <1>3, HandlerInv DEF Kind

LEMMA WriteConnectedInv ==
  ASSUME BuffereventAssumption, IInv, WriteConnected
  PROVE  IInv'
<1>1. /\ current = "write" /\ at = "connected" /\ calling = "none" /\ at' = "done"
      /\ UNCHANGED <<mode, high, cb, owned, held, freed, finalizing, current, result, chosen>>
  BY DEF WriteConnected
<1>2. HandlerCount = refcnt
  BY <1>1 DEF HandlerCount
<1>3. HandlerEvents /\ HandlerCalls
  <2>1. CASE "write" \in enabled /\ suspended["write"] = {}
    <3>1. WriteOut(refcnt, TRUE)
      BY <2>1 DEF WriteConnected
    <3> QED
      BY <1>1, <1>2, <2>1, <3>1, WriteOutEvents DEF HandlerCalls
  <2>2. CASE ~("write" \in enabled /\ suspended["write"] = {})
    <3>1. /\ EventDel({"write"}) /\ NoCallback(refcnt)
          /\ UNCHANGED <<enabled, suspended, connecting, failed, input, output>>
      BY <2>2 DEF WriteConnected
    <3>2. HandlerEvents
      BY <1>1, <2>2, <3>1, DelWriteEvents DEF IInv, Types
    <3> QED
      BY <1>2, <3>1, <3>2 DEF HandlerCalls
  <2> QED
    BY <2>1, <2>2
<1> QED
  BY <1>1, <1>3, HandlerInv DEF Kind
-----------------------------------------------------------------------------
\* Who calls has a reference, or is called back by the bufferevent.
LEMMA CallInv ==
  ASSUME BuffereventAssumption, FreedByOwner, IInv, NEW t, NEW call \in ThreadApi \cup CallbackApi,
         Call(t, call), finalizing = {}, ~freed
  PROVE  IInv'
<1>1. call # "owner_decref"
  BY DEF FreedByOwner
<1>2. ASSUME NEW k \in Kind, bufferevent_enable(k) \/ bufferevent_disable(k)
      PROVE  IInv'
  BY <1>2, EnableInv, DisableInv
<1>3. ASSUME NEW k \in Kind, bufferevent_trigger(k)
      PROVE  IInv'
  BY <1>3, TriggerInv
<1>4. ASSUME NEW k \in Kind, Suspend(k, TRUE) \/ Suspend(k, FALSE)
      PROVE  IInv'
  BY <1>4, SuspendInv
<1>5. ASSUME NEW mark \in 0..MaxData, bufferevent_setwatermark(mark)
      PROVE  IInv'
  BY <1>5, SetWatermarkInv
<1> QED
  BY <1>1, <1>2, <1>3, <1>4, <1>5, WriteInv, ReadInv, IncrefInv, ThreadDecrefInv, FreeInv DEF Call

\* Every step.
LEMMA NextInv ==
  ASSUME BuffereventAssumption, FreedByOwner, IInv, [Next]_vars
  PROVE  IInv'
<1>1. ASSUME NEW t \in Thread, ThreadCall(t) PROVE IInv'
  <2>1. finalizing = {} /\ ~freed
    BY <1>1 DEF ThreadCall, IInv, LastOK
  <2> QED
    BY <1>1, <2>1, CallInv DEF ThreadCall
<1>2. CASE CallbackCall
  <2>1. finalizing = {} /\ ~freed
    BY <1>2 DEF CallbackCall, IInv, LastOK
  <2> QED
    BY <1>2, <2>1, CallInv DEF CallbackCall
<1>3. CASE \E k \in Kind : Activate(k, "io") \/ Activate(k, "timeout")
  BY <1>3, ActivateInv
<1>4. CASE \E k \in Kind \cup {"deferred"} : Pick(k)
  BY <1>4, PickInv
<1>5. CASE Handler
  BY <1>5, ReadcbInv, WritecbInv, WriteConnectedInv, DeferredInv, CallUnlockedInv,
      DoneInv DEF Handler
<1>6. CASE CallbackReturns
  BY <1>6, ReturnsInv
<1>7. CASE bufferevent_finalize_cb_
  BY <1>7, FinalizeInv
<1>8. CASE UNCHANGED vars
  <2> USE <1>8 DEF vars, bev, refs, queues, loop
  <2>1. Types'
    BY DEF IInv, Types
  <2>2. RefsCounted' /\ AtOK'
    BY DEF IInv, RefsCounted, AtOK
  <2>3. LastOK'
    BY DEF IInv, LastOK
  <2>4. EventsOK' /\ MarkOK'
    BY DEF IInv, EventsOK, MarkOK
  <2> QED
    BY <2>1, <2>2, <2>3, <2>4 DEF IInv
<1> QED
  BY <1>1, <1>2, <1>3, <1>4, <1>5, <1>6, <1>7, <1>8 DEF Next

\* The invariant is more than BuffereventOK.
LEMMA Implied == BuffereventAssumption => (IInv => BuffereventOK)
<1> SUFFICES ASSUME BuffereventAssumption, IInv PROVE BuffereventOK
  OBVIOUS
<1>1. /\ Cardinality(held) \in Nat /\ Cardinality(Thread) \in Nat
      /\ Cardinality(held) <= Cardinality(Thread)
  BY HeldFacts DEF IInv, Types
<1>2. refcnt \in 0..(3 + Cardinality(Thread))
  BY <1>1 DEF IInv, Types, RefsCounted, One, Kind
<1>3. TypeOK
  BY <1>2 DEF IInv, Types, TypeOK
<1>4. NoUseAfterFree
  <2>1. freed => refcnt = 0
    <3> SUFFICES ASSUME freed PROVE refcnt = 0
      OBVIOUS
    <3>1. ~owned /\ held = {} /\ ~deferred /\ current = "none"
      BY DEF IInv, LastOK
    <3> QED
      BY <3>1, FS_EmptySet DEF IInv, RefsCounted, One, Kind
  <2>2. freed => added = {} /\ current = "none" /\ \A k \in Kind : active[k] = "none"
    BY DEF IInv, LastOK
  <2>3. Cardinality(finalizing) + One(freed) <= 1
    <3>1. CASE finalizing = {}
      BY <3>1, FS_EmptySet DEF One
    <3>2. CASE finalizing # {}
      <4>1. ~freed /\ \E k \in Kind \cup {"deferred"} : finalizing = {k}
        BY <3>2 DEF IInv, LastOK
      <4>2. Cardinality(finalizing) = 1
        BY <4>1, FS_Singleton
      <4> QED
        BY <4>1, <4>2 DEF One
    <3> QED
      BY <3>1, <3>2
  <2> QED
    BY <2>1, <2>2, <2>3 DEF NoUseAfterFree, IInv, RefsCounted
<1>5. EventsFollowState
  <2>1. refcnt > 0 => ~freed
    BY <1>4 DEF NoUseAfterFree, IInv, Types
  <2>2. ~Locked => at # "connected"
    BY DEF Locked, IInv, AtOK
  <2> QED
    BY <2>1, <2>2 DEF EventsFollowState, IInv, EventsOK
<1>6. WatermarkHolds
  BY DEF WatermarkHolds, IInv, MarkOK
<1> QED
  BY <1>3, <1>4, <1>5, <1>6 DEF BuffereventOK

\* bufferevent.c and bufferevent_sock.c, whichever calls threads and callbacks make and wherever
\* the last reference is dropped: references have their holders and the memory goes with the
\* last one, the events follow enabling, suspension and data, and reading is suspended for the
\* watermark exactly while the input has reached it.
THEOREM BuffereventAlwaysOK ==
  ASSUME BuffereventAssumption, FreedByOwner
  PROVE  Spec => []BuffereventOK
<1>1. Init => IInv
  BY InitInv
<1>2. IInv /\ [Next]_vars => IInv'
  BY NextInv
<1>3. IInv => BuffereventOK
  BY Implied
<1> QED
  BY <1>1, <1>2, <1>3, PTL DEF Spec

\* Only the call of what was chosen starts a callback otherwise than under the lock.
LEMMA CallbackIfOwned ==
  ASSUME FreedByOwner, IInv, [Next]_vars,
         \/ calling' # calling /\ calling' # "none" /\ calling' # chosen
         \/ chosen' # chosen /\ chosen' # "none"
  PROVE  owned
<1>1. cb = owned
  BY DEF IInv, LastOK
<1>2. ASSUME NEW which, NEW forced, NEW n, run_callback(which, forced, n), UNCHANGED chosen
      PROVE  cb
  BY <1>2 DEF run_callback, NoCallback
<1>3. ASSUME NEW n, NoCallback(n), UNCHANGED chosen PROVE FALSE
  BY <1>3 DEF NoCallback
<1>4. ASSUME UNCHANGED <<calling, chosen>> PROVE FALSE
  BY <1>4
<1>5. ASSUME NEW t, NEW call \in ThreadApi \cup CallbackApi, Call(t, call) PROVE owned
  <2>1. ASSUME NEW k \in Kind, bufferevent_trigger(k) PROVE owned
    BY <1>1, <1>2, <1>3, <2>1 DEF bufferevent_trigger
  <2> QED
    BY <1>4, <1>5, <2>1
    DEF Call, FreedByOwner, bufferevent_enable, bufferevent_disable, Suspend, bufferevent_write,
        bufferevent_read, bufferevent_setwatermark, bufferevent_incref, bufferevent_decref,
        bufferevent_free, OwnerDecref, loop
<1>6. CASE bufferevent_readcb
  BY <1>1, <1>2, <1>3, <1>6 DEF bufferevent_readcb, HandlerError, Nothing
<1>7. ASSUME NEW n, NEW c, WriteOut(n, c), UNCHANGED chosen PROVE owned
  BY <1>1, <1>2, <1>3, <1>7 DEF WriteOut, HandlerError, Nothing
<1>8. CASE bufferevent_writecb
  BY <1>1, <1>2, <1>3, <1>7, <1>8 DEF bufferevent_writecb, HandlerError, Nothing
<1>9. CASE WriteConnected
  BY <1>3, <1>7, <1>9 DEF WriteConnected, Nothing
<1>10. CASE bufferevent_run_deferred_callbacks
  <2> DEFINE first == IF at = "called" THEN 1 ELSE CHOOSE i \in 1..4 : Callbacks[i] = at
             due == {i \in first..4 : Taken(i) # {} /\ cb}
  <2>1. due # {}
    BY <1>4, <1>10 DEF bufferevent_run_deferred_callbacks
  <2> QED
    BY <1>1, <2>1
<1>11. CASE CallUnlocked
  BY <1>11 DEF CallUnlocked
<1>12. CASE Done \/ CallbackReturns \/ bufferevent_finalize_cb_ \/ UNCHANGED vars
  BY <1>4, <1>12 DEF Done, CallbackReturns, bufferevent_finalize_cb_, vars, loop
<1>13. CASE \/ \E k \in Kind : Activate(k, "io") \/ Activate(k, "timeout")
            \/ \E k \in Kind \cup {"deferred"} : Pick(k)
  BY <1>4, <1>13 DEF Activate, Pick, loop
<1> QED
  BY <1>5, <1>6, <1>8, <1>9, <1>10, <1>11, <1>12, <1>13
  DEF Next, Handler, ThreadCall, CallbackCall

\* bufferevent.c, in the same circumstances: no callback of the user is chosen once
\* bufferevent_free has been called, also where one was due; and none is started then, but for
\* one that run_deferred_callbacks had already saved to call it without the lock, which the
\* call of another thread is too late for.
THEOREM NeverCallsAfterFree ==
  ASSUME BuffereventAssumption, FreedByOwner
  PROVE  Spec => NoCallbackAfterFree
<1>1. Init => IInv
  BY InitInv
<1>2. IInv /\ [Next]_vars => IInv'
  BY NextInv
<1>3. IInv /\ [Next]_vars =>
        [/\ calling' # "none" /\ calling' # calling => owned \/ calling' = chosen
         /\ chosen' # "none" /\ chosen' # chosen => owned]_vars
  BY CallbackIfOwned
<1> QED
  BY <1>1, <1>2, <1>3, PTL DEF Spec, NoCallbackAfterFree
=============================================================================
