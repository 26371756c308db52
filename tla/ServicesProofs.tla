--------------------------- MODULE ServicesProofs ---------------------------
(***************************************************************************)
(* What is proved of the listener, of a group of rate limits and of a      *)
(* connection of HTTP, part by part, and that it holds where the parts are *)
(* put together: a step of another part leaves its variables alone.        *)
(***************************************************************************)
EXTENDS ServicesMC, Sequences, TLAPS

-----------------------------------------------------------------------------
(* The group of rate limits, for any number of bufferevents.  GroupOK is   *)
(* not inductive alone: a bufferevent that joins has read read_suspended   *)
(* under the lock of the group and suspends itself later, when the group   *)
(* may have resumed its members.  GroupJoiners says that the group, which  *)
(* could not lock this one, has remembered it.                             *)

GroupJoiners ==
  \A b \in Bev :
    /\ group_op[b] = "joining" => b \in members
    /\ saved[b] => group_op[b] = "joining" /\ (read_suspended \/ pending_unsuspend_read)

GroupIInv == Group!GroupOK /\ GroupJoiners

\* With a minimal share of 0 a group would resume its members with an empty bucket.
GroupAssumption == Group!RateLimitGroupAssumption /\ configured_min_share > 0

LEMMA GroupMinShare ==
  ASSUME GroupAssumption
  PROVE  Group!min_share \in Nat \ {0}
  BY DEF GroupAssumption, Group!RateLimitGroupAssumption, Group!min_share

\* What a group that suspends its members does to the rest of the invariant.
LEMMA GroupSuspendOK ==
  ASSUME GroupIInv, NEW own, Group!bev_group_suspend_reading_(own), read_limit' \in Int,
         members' = members, calls' \in 0..MaxCalls, saved' = saved,
         group_op' \in [Bev -> {"none", "held", "reading", "joining"}],
         \A b \in Bev : group_op'[b] = "joining" <=> group_op[b] = "joining"
  PROVE  GroupIInv'
<1>1. group_suspended' \subseteq members'
  BY DEF Group!bev_group_suspend_reading_, Group!Lockable, GroupIInv, Group!GroupOK, Group!TypeOK
<1>2. Group!TypeOK' /\ Group!SuspensionRemembered' /\ Group!ExhaustedIsSuspended'
  BY <1>1 DEF Group!bev_group_suspend_reading_, GroupIInv, Group!GroupOK, Group!TypeOK,
     Group!SuspensionRemembered,
              Group!ExhaustedIsSuspended
<1>3. GroupJoiners'
  BY DEF Group!bev_group_suspend_reading_, GroupIInv, GroupJoiners
<1> QED
  BY <1>2, <1>3 DEF GroupIInv, Group!GroupOK

\* A group that resumes its members remembers those it could not lock, joiners among them.
LEMMA GroupUnsuspendOK ==
  ASSUME GroupIInv, NEW own, Group!bev_group_unsuspend_reading_(own),
         \A b \in own : group_op[b] # "joining",
         read_limit' \in Int, read_limit' > 0,
         members' = members, calls' \in 0..MaxCalls, saved' = saved,
         group_op' \in [Bev -> {"none", "held", "reading", "joining"}],
         \A b \in Bev : group_op'[b] = "joining" <=> group_op[b] = "joining"
  PROVE  GroupIInv'
<1>1. /\ read_suspended' = FALSE
      /\ pending_unsuspend_read' = (Group!Lockable(own) # members)
      /\ group_suspended' = group_suspended \ Group!Lockable(own)
  BY DEF Group!bev_group_unsuspend_reading_
<1>2. Group!TypeOK' /\ Group!ExhaustedIsSuspended'
  <2>1. group_suspended' \subseteq members' /\ members' \subseteq Bev
    BY <1>1 DEF GroupIInv, Group!GroupOK, Group!TypeOK
  <2>2. /\ read_suspended' \in BOOLEAN /\ pending_unsuspend_read' \in BOOLEAN
        /\ saved' \in [Bev -> BOOLEAN]
    BY <1>1, Zenon DEF GroupIInv, Group!GroupOK, Group!TypeOK
  <2>3. Group!TypeOK'
    BY <2>1, <2>2 DEF Group!TypeOK
  <2>4. Group!ExhaustedIsSuspended'
    BY <1>1 DEF Group!ExhaustedIsSuspended
  <2> QED
    BY <2>3, <2>4
<1>3. Group!SuspensionRemembered'
  <2>1. group_suspended \subseteq members
    BY DEF GroupIInv, Group!GroupOK, Group!TypeOK
  <2> QED
    BY <1>1, <2>1 DEF Group!SuspensionRemembered
<1>4. ASSUME NEW b \in Bev, saved[b]
      PROVE  pending_unsuspend_read'
  <2>1. group_op[b] = "joining" /\ b \in members
    BY <1>4 DEF GroupIInv, GroupJoiners
  <2>2. b \notin Group!Lockable(own)
    BY <2>1 DEF Group!Lockable
  <2> QED
    BY <1>1, <2>1, <2>2
<1>5. GroupJoiners'
  BY <1>4 DEF GroupIInv, GroupJoiners
<1> QED
  BY <1>2, <1>3, <1>5 DEF GroupIInv, Group!GroupOK

\* A step that leaves the group and its members alone.
LEMMA GroupUnchangedOK ==
  ASSUME GroupIInv, Group!Unchanged, read_limit' \in Int, read_limit' <= 0 => read_suspended,
         members' = members, calls' \in 0..MaxCalls, saved' = saved,
         group_op' \in [Bev -> {"none", "held", "reading", "joining"}],
         \A b \in Bev : group_op'[b] = "joining" <=> group_op[b] = "joining"
  PROVE  GroupIInv'
<1>1. Group!TypeOK' /\ Group!SuspensionRemembered' /\ Group!ExhaustedIsSuspended'
  BY DEF Group!Unchanged, GroupIInv, Group!GroupOK, Group!TypeOK, Group!SuspensionRemembered,
     Group!ExhaustedIsSuspended
<1>2. GroupJoiners'
  BY DEF Group!Unchanged, GroupIInv, GroupJoiners
<1> QED
  BY <1>1, <1>2 DEF GroupIInv, Group!GroupOK

LEMMA GroupRefillOK ==
  ASSUME GroupAssumption, GroupIInv, Group!bev_group_refill_callback_
  PROVE  GroupIInv'
<1> DEFINE l == IF read_limit + Rate > Maximum THEN Maximum ELSE read_limit + Rate
<1>1. /\ Rate \in Nat \ {0} /\ Maximum \in Nat /\ Rate <= Maximum
      /\ read_limit \in Int /\ pending_unsuspend_read \in BOOLEAN /\ read_suspended \in BOOLEAN
  BY DEF GroupAssumption, Group!RateLimitGroupAssumption, GroupIInv, Group!GroupOK, Group!TypeOK
<1>2. l \in Int /\ (read_limit > 0 => l > 0)
  BY <1>1
<1>3. /\ read_limit' = l
      /\ members' = members /\ group_op' = group_op /\ saved' = saved /\ calls' = calls
      /\ IF pending_unsuspend_read \/ (read_suspended /\ l >= Group!min_share)
         THEN Group!bev_group_unsuspend_reading_({})
         ELSE Group!Unchanged
  BY DEF Group!bev_group_refill_callback_
<1>4. /\ calls' \in 0..MaxCalls /\ group_op' \in [Bev -> {"none", "held", "reading", "joining"}]
      /\ \A b \in Bev : group_op'[b] = "joining" <=> group_op[b] = "joining"
  BY <1>3 DEF GroupIInv, Group!GroupOK, Group!TypeOK
<1>5. read_limit <= 0 => read_suspended /\ ~pending_unsuspend_read
  BY DEF GroupIInv, Group!GroupOK, Group!ExhaustedIsSuspended
<1>6. CASE pending_unsuspend_read \/ (read_suspended /\ l >= Group!min_share)
  <2>1. l > 0
    BY <1>1, <1>2, <1>5, <1>6, GroupMinShare
  <2> HIDE DEF l
  <2> QED
    BY <1>2, <1>3, <1>4, <1>6, <2>1, GroupUnsuspendOK
<1>7. CASE ~(pending_unsuspend_read \/ (read_suspended /\ l >= Group!min_share))
  <2>1. l <= 0 => read_suspended
    BY <1>1, <1>2, <1>5
  <2> HIDE DEF l
  <2> QED
    BY <1>2, <1>3, <1>4, <1>7, <2>1, GroupUnchangedOK
<1> QED
  BY <1>6, <1>7

LEMMA GroupGroupDecrementOK ==
  ASSUME GroupAssumption, GroupIInv, NEW decr \in Int,
         Group!bufferevent_rate_limit_group_decrement_read(decr)
  PROVE  GroupIInv'
<1> DEFINE l == read_limit - decr
<1>1. /\ calls < MaxCalls /\ calls' = calls + 1 /\ read_limit' = l
      /\ members' = members /\ group_op' = group_op /\ saved' = saved
      /\ IF read_limit > 0 /\ l <= 0 THEN Group!bev_group_suspend_reading_({})
         ELSE IF read_limit <= 0 /\ l > 0 THEN Group!bev_group_unsuspend_reading_({})
         ELSE Group!Unchanged
  BY DEF Group!bufferevent_rate_limit_group_decrement_read
<1>0. MaxCalls \in Nat
  BY DEF GroupAssumption, Group!RateLimitGroupAssumption
<1>2. /\ l \in Int /\ read_limit \in Int
      /\ calls' \in 0..MaxCalls /\ group_op' \in [Bev -> {"none", "held", "reading", "joining"}]
      /\ \A b \in Bev : group_op'[b] = "joining" <=> group_op[b] = "joining"
  BY <1>0, <1>1 DEF GroupIInv, Group!GroupOK, Group!TypeOK
<1> HIDE DEF l
<1>3. CASE read_limit > 0 /\ l <= 0
  BY <1>1, <1>2, <1>3, GroupSuspendOK
<1>4. CASE read_limit <= 0 /\ l > 0
  BY <1>1, <1>2, <1>4, GroupUnsuspendOK
<1>5. CASE ~(read_limit > 0 /\ l <= 0) /\ ~(read_limit <= 0 /\ l > 0)
  <2>1. l <= 0 => read_suspended
    BY <1>2, <1>5 DEF GroupIInv, Group!GroupOK, Group!ExhaustedIsSuspended
  <2> QED
    BY <1>1, <1>2, <1>5, <2>1, GroupUnchangedOK
<1> QED
  BY <1>3, <1>4, <1>5

LEMMA GroupBucketsDecrementOK ==
  ASSUME GroupIInv, NEW b \in Bev, NEW bytes \in Int, Group!bufferevent_decrement_read_buckets_(b,
         bytes)
  PROVE  GroupIInv'
<1> DEFINE l == read_limit - bytes
<1>1. /\ group_op[b] = "reading" /\ group_op' = [group_op EXCEPT ![b] = "none"] /\ calls' = calls
      /\ read_limit' = l /\ members' = members /\ saved' = saved
      /\ IF l <= 0 THEN Group!bev_group_suspend_reading_({b})
         ELSE IF read_suspended THEN Group!bev_group_unsuspend_reading_({b})
         ELSE Group!Unchanged
  BY DEF Group!bufferevent_decrement_read_buckets_, Group!End
<1>2. /\ l \in Int
      /\ calls' \in 0..MaxCalls /\ group_op' \in [Bev -> {"none", "held", "reading", "joining"}]
      /\ \A c \in Bev : group_op'[c] = "joining" <=> group_op[c] = "joining"
  BY <1>1 DEF GroupIInv, Group!GroupOK, Group!TypeOK
<1> HIDE DEF l
<1>3. CASE l <= 0
  BY <1>1, <1>2, <1>3, GroupSuspendOK
<1>4. CASE l > 0 /\ read_suspended
  BY <1>1, <1>2, <1>4, GroupUnsuspendOK
<1>5. CASE l > 0 /\ ~read_suspended
  BY <1>1, <1>2, <1>5, GroupUnchangedOK
<1> QED
  BY <1>2, <1>3, <1>4, <1>5

\* The steps of a member that change nothing of the group.
LEMMA GroupMemberOK ==
  ASSUME GroupAssumption, GroupIInv, NEW b \in Bev,
         \/ Group!Hold(b) \/ Group!bufferevent_get_rlim_max_(b) \/ Group!JoinGroup(b)
         \/ Group!bufferevent_remove_from_rate_limit_group(b)
         \/ Group!Release(b) \/ Group!ReadNothing(b) \/ Group!JoinedGroup(b)
  PROVE  GroupIInv'
<1> USE DEF GroupIInv, Group!GroupOK, Group!TypeOK, Group!SuspensionRemembered,
    Group!ExhaustedIsSuspended, GroupJoiners,
            Group!group, Group!Begin, Group!End
<1>0. MaxCalls \in Nat
  BY DEF GroupAssumption, Group!RateLimitGroupAssumption
<1>1. CASE Group!Hold(b)
  BY <1>0, <1>1 DEF Group!Hold
<1>2. CASE Group!bufferevent_get_rlim_max_(b)
  BY <1>0, <1>2 DEF Group!bufferevent_get_rlim_max_
<1>3. CASE Group!JoinGroup(b)
  BY <1>0, <1>3 DEF Group!JoinGroup
<1>4. CASE Group!bufferevent_remove_from_rate_limit_group(b)
  BY <1>0, <1>4 DEF Group!bufferevent_remove_from_rate_limit_group
<1>5. CASE Group!Release(b)
  BY <1>5 DEF Group!Release
<1>6. CASE Group!ReadNothing(b)
  BY <1>6 DEF Group!ReadNothing
<1>7. CASE Group!JoinedGroup(b)
  BY <1>7 DEF Group!JoinedGroup
<1> QED
  BY <1>1, <1>2, <1>3, <1>4, <1>5, <1>6, <1>7

LEMMA GroupGroupInit ==
  ASSUME GroupAssumption, Group!Init
  PROVE  GroupIInv
<1>1. /\ read_limit \in Int /\ calls \in 0..MaxCalls /\ read_limit > 0
      /\ members \subseteq Bev /\ group_suspended \subseteq members
      /\ group_op \in [Bev -> {"none", "held", "reading", "joining"}]
  BY DEF GroupAssumption, Group!RateLimitGroupAssumption, Group!Init
<1>2. {read_suspended, pending_unsuspend_read} \subseteq BOOLEAN /\ saved \in [Bev -> BOOLEAN]
  BY DEF Group!Init
<1>3. Group!SuspensionRemembered /\ Group!ExhaustedIsSuspended
  BY <1>1 DEF Group!Init, Group!SuspensionRemembered, Group!ExhaustedIsSuspended
<1>4. GroupJoiners
  BY DEF Group!Init, GroupJoiners
<1> QED
  BY <1>1, <1>2, <1>3, <1>4 DEF GroupIInv, Group!GroupOK, Group!TypeOK

LEMMA GroupGroupStep ==
  ASSUME GroupAssumption, GroupIInv, [Group!Next]_(Group!vars)
  PROVE  GroupIInv'
<1>1. CASE Group!bev_group_refill_callback_
  BY <1>1, GroupRefillOK
<1>2. CASE \E decr \in -MaxDebt..MaxDebt \ {0} :
             Group!bufferevent_rate_limit_group_decrement_read(decr)
  BY <1>2, GroupGroupDecrementOK DEF GroupAssumption, Group!RateLimitGroupAssumption
<1>3. ASSUME NEW b \in Bev,
             \/ Group!Hold(b) \/ Group!bufferevent_get_rlim_max_(b) \/ Group!JoinGroup(b)
             \/ Group!bufferevent_remove_from_rate_limit_group(b) \/ Group!Finish(b)
      PROVE  GroupIInv'
  BY <1>3, GroupMemberOK, GroupBucketsDecrementOK DEF Group!Finish, GroupAssumption,
     Group!RateLimitGroupAssumption
<1>4. CASE UNCHANGED Group!vars
  BY <1>4 DEF Group!vars, Group!group, GroupIInv, Group!GroupOK, Group!TypeOK,
     Group!SuspensionRemembered,
              Group!ExhaustedIsSuspended, GroupJoiners
<1> QED
  BY <1>1, <1>2, <1>3, <1>4 DEF Group!Next

\* A member is suspended only while the group is, or while the group remembers that it has to
\* try again, however the locks of its members were taken; and an exhausted group is suspended.
THEOREM GroupGroupAlwaysOK ==
  ASSUME GroupAssumption
  PROVE  Group!Spec => []Group!GroupOK
<1>1. Group!Init => GroupIInv
  BY GroupGroupInit
<1>2. GroupIInv /\ [Group!Next]_(Group!vars) => GroupIInv'
  BY GroupGroupStep
<1>3. GroupIInv => Group!GroupOK
  BY DEF GroupIInv
<1> QED
  BY <1>1, <1>2, <1>3, PTL DEF Group!Spec
-----------------------------------------------------------------------------
(* The listener, for any number of threads.  They make every call but      *)
(* evconnlistener_free, which the thread of the loop alone may make.       *)
(*                                                                         *)
(* ListenerOK is not inductive alone.  A thread that waits in event_del    *)
(* has the lock and has cleared `enabled` (LevWaitersHold), so nothing     *)
(* happens to the listener before it deletes the event; listener_read_cb   *)
(* has the lock exactly while it accepts (LevLoopHolds), and the flags     *)
(* agree with the event then too (LevFlagsHeld).                           *)

LevLoopHolds == loop = "accepting" <=> lock = Loop

LevWaitersHold ==
  \A t \in ListenerThread :
    /\ waits[t].call # "none" => lock = t /\ waits[t].call = "disable" /\ ~listener_enabled
    /\ waits[t].woken => waits[t].call # "none"

LevFlagsHeld ==
  listener_owned /\ lock \notin ListenerThread => (listener_enabled /\ listener_cb
    => listener_added) /\ (listener_added => listener_enabled)

LevFreedIsDisowned == listener_freed => ~listener_owned

LevLInv == Lev!ListenerOK /\ LevLoopHolds /\ LevWaitersHold /\ LevFlagsHeld /\ LevFreedIsDisowned

LevAssumption == Lev!ListenerAssumption

LevWaits == [call : {"none", "free", "disable"}, woken : BOOLEAN]

LEMMA LevListenerInit ==
  ASSUME LevAssumption, Lev!Init
  PROVE  LevLInv
<1>1. {listener_cb, errorcb, listener_enabled, listener_freed, listener_owned, listener_added,
      listener_active} \subseteq BOOLEAN
  BY Zenon DEF Lev!Init
<1>2. /\ listener_refcnt \in 0..2 /\ lock \in ListenerThread \cup {Loop,
         Nobody} /\ loop \in Lev!LoopPlaces
      /\ backlog \in 0..MaxBacklog
  BY DEF Lev!Init, Lev!LoopPlaces, LevAssumption, Lev!ListenerAssumption
<1>3. Lev!TypeOK
  <2>1. waits \in [ListenerThread -> LevWaits]
    BY DEF Lev!Init, Lev!NotWaiting, LevWaits
  <2> QED
    BY <1>1, <1>2, <2>1 DEF Lev!TypeOK, LevWaits
<1>4. Lev!NoUseAfterFree /\ Lev!EventFollowsFlags /\ LevFlagsHeld /\ LevFreedIsDisowned
  BY DEF Lev!Init, Lev!NoUseAfterFree, Lev!EventFollowsFlags, LevFlagsHeld, LevFreedIsDisowned,
     Lev!InCallback
<1>5. LevLoopHolds
  BY DEF Lev!Init, LevLoopHolds, LevAssumption, Lev!ListenerAssumption
<1>6. LevWaitersHold
  <2>1. \A t \in ListenerThread : waits[t].call = "none" /\ waits[t].woken = FALSE
    BY DEF Lev!Init, Lev!NotWaiting
  <2> QED
    BY <2>1 DEF LevWaitersHold
<1> QED
  BY <1>3, <1>4, <1>5, <1>6 DEF LevLInv, Lev!ListenerOK

\* Nobody waits while the lock is free.
LEMMA LevNobodyWaits ==
  ASSUME LevAssumption, LevLInv, lock = Nobody, NEW t \in ListenerThread
  PROVE  waits[t] = Lev!NotWaiting
<1>1. waits[t] \in LevWaits /\ waits[t].call = "none" /\ ~waits[t].woken
  BY DEF LevLInv, Lev!ListenerOK, Lev!TypeOK, LevWaitersHold, LevWaits, LevAssumption,
     Lev!ListenerAssumption
<1> QED
  BY <1>1 DEF LevWaits, Lev!NotWaiting

\* A call that keeps references, lock and waiters.
LEMMA LevFlagsCall ==
  ASSUME LevAssumption, LevLInv, listener_owned, lock = Nobody,
         UNCHANGED <<loop, backlog, listener_refcnt, listener_freed, listener_owned, lock,
           listener_active, waits>>,
         {listener_cb', errorcb', listener_enabled', listener_added'} \subseteq BOOLEAN,
         (listener_enabled' /\ listener_cb' => listener_added') /\ (listener_added'
           => listener_enabled')
  PROVE  LevLInv'
<1>1. Lev!TypeOK'
  BY DEF LevLInv, Lev!ListenerOK, Lev!TypeOK
<1>2. ~listener_freed'
  BY DEF LevLInv, LevFreedIsDisowned
<1>3. Lev!NoUseAfterFree'
  BY <1>2 DEF LevLInv, Lev!ListenerOK, Lev!NoUseAfterFree
<1>4. LevWaitersHold'
  BY LevNobodyWaits DEF LevWaitersHold, Lev!NotWaiting
<1>5. Lev!EventFollowsFlags' /\ LevFlagsHeld' /\ LevFreedIsDisowned' /\ LevLoopHolds'
  BY <1>2 DEF LevLInv, Lev!EventFollowsFlags, LevFlagsHeld, LevFreedIsDisowned, LevLoopHolds
<1> QED
  BY <1>1, <1>3, <1>4, <1>5 DEF LevLInv, Lev!ListenerOK

LEMMA LevEnableOK ==
  ASSUME LevAssumption, LevLInv, listener_owned, lock = Nobody, Lev!evconnlistener_enable,
         UNCHANGED <<loop, backlog>>
  PROVE  LevLInv'
<1>1. {listener_cb, errorcb, listener_enabled,
      listener_added} \subseteq BOOLEAN /\ ((listener_enabled /\ listener_cb => listener_added)
      /\ (listener_added => listener_enabled))
  BY DEF LevLInv, Lev!ListenerOK, Lev!TypeOK, Lev!EventFollowsFlags
<1> QED
  BY <1>1, LevFlagsCall DEF Lev!evconnlistener_enable

LEMMA LevSetCbOK ==
  ASSUME LevAssumption, LevLInv, listener_owned, lock = Nobody, NEW new \in BOOLEAN,
         Lev!evconnlistener_set_cb(new), UNCHANGED <<loop, backlog>>
  PROVE  LevLInv'
<1>1. {listener_cb, errorcb, listener_enabled,
      listener_added} \subseteq BOOLEAN /\ ((listener_enabled /\ listener_cb => listener_added)
      /\ (listener_added => listener_enabled))
  BY DEF LevLInv, Lev!ListenerOK, Lev!TypeOK, Lev!EventFollowsFlags
<1>2. /\ listener_cb' = new /\ listener_added' = (listener_added \/ (listener_enabled
         /\ ~listener_cb /\ new))
      /\ errorcb' = errorcb /\ listener_enabled' = listener_enabled
      /\ UNCHANGED <<loop, backlog, listener_refcnt, listener_freed, listener_owned, lock,
         listener_active, waits>>
  BY DEF Lev!evconnlistener_set_cb, Lev!event
<1>3. {listener_cb', errorcb', listener_enabled', listener_added'} \subseteq BOOLEAN
  BY <1>1, <1>2
<1>4. (listener_enabled' /\ listener_cb' => listener_added') /\ (listener_added'
      => listener_enabled')
  BY <1>1, <1>2
<1> QED
  BY <1>2, <1>3, <1>4, LevFlagsCall

LEMMA LevSetErrorCbOK ==
  ASSUME LevAssumption, LevLInv, listener_owned, lock = Nobody, Lev!evconnlistener_set_error_cb,
         UNCHANGED <<loop, backlog>>
  PROVE  LevLInv'
<1>1. {listener_cb, errorcb, listener_enabled,
      listener_added} \subseteq BOOLEAN /\ ((listener_enabled /\ listener_cb => listener_added)
      /\ (listener_added => listener_enabled))
  BY DEF LevLInv, Lev!ListenerOK, Lev!TypeOK, Lev!EventFollowsFlags
<1> QED
  BY <1>1, LevFlagsCall DEF Lev!evconnlistener_set_error_cb, Lev!event

LEMMA LevDisableOK ==
  ASSUME LevAssumption, LevLInv, listener_owned, lock = Nobody,
         NEW t \in ListenerThread \cup {Loop},
         Lev!evconnlistener_disable(t), UNCHANGED <<loop, backlog>>
  PROVE  LevLInv'
<1>1. ~listener_freed
  BY DEF LevLInv, LevFreedIsDisowned
<1>2. /\ listener_enabled' = FALSE /\ UNCHANGED <<listener_cb, errorcb, listener_refcnt,
         listener_owned, loop, backlog>>
  BY DEF Lev!evconnlistener_disable
<1>3. CASE Lev!MustWait(t)
  <2>1. /\ t \in ListenerThread /\ lock' = t /\ UNCHANGED <<listener_added, listener_active,
           listener_freed>>
        /\ waits' = [waits EXCEPT ![t] = [call |-> "disable", woken |-> FALSE]]
    BY <1>3 DEF Lev!evconnlistener_disable, Lev!EventDel, Lev!MustWait, Lev!event
  <2>2. waits' \in [ListenerThread -> LevWaits] /\ waits'[t] = [call |-> "disable", woken |-> FALSE]
        /\ \A u \in ListenerThread \ {t} : waits'[u] = Lev!NotWaiting
    BY <2>1, LevNobodyWaits DEF LevLInv, Lev!ListenerOK, Lev!TypeOK, LevWaits
  <2>3. Lev!TypeOK'
    BY <1>2, <2>1, <2>2 DEF LevLInv, Lev!ListenerOK, Lev!TypeOK, LevWaits
  <2>4. Lev!NoUseAfterFree' /\ Lev!EventFollowsFlags' /\ LevFlagsHeld' /\ LevFreedIsDisowned'
    BY <1>1, <1>2, <2>1 DEF LevLInv, Lev!ListenerOK, Lev!NoUseAfterFree, Lev!EventFollowsFlags,
       LevFlagsHeld,
                            LevFreedIsDisowned, LevAssumption, Lev!ListenerAssumption
  <2>5. LevWaitersHold'
    BY <1>2, <2>1, <2>2 DEF LevWaitersHold, Lev!NotWaiting
  <2>6. LevLoopHolds'
    BY <1>2, <2>1 DEF LevLInv, LevLoopHolds, LevAssumption, Lev!ListenerAssumption
  <2> QED
    BY <2>3, <2>4, <2>5, <2>6 DEF LevLInv, Lev!ListenerOK
<1>4. CASE ~Lev!MustWait(t)
  <2>1. /\ listener_added' = FALSE /\ listener_active' = FALSE /\ listener_freed' = FALSE
           /\ lock' = Nobody /\ waits' = waits
    BY <1>4 DEF Lev!evconnlistener_disable, Lev!EventDel, Lev!DeleteAndUnlock
  <2>2. Lev!TypeOK'
    BY <1>2, <2>1 DEF LevLInv, Lev!ListenerOK, Lev!TypeOK
  <2>3. Lev!NoUseAfterFree' /\ Lev!EventFollowsFlags' /\ LevFlagsHeld' /\ LevFreedIsDisowned'
    BY <1>1, <1>2, <2>1 DEF LevLInv, Lev!ListenerOK, Lev!NoUseAfterFree, Lev!EventFollowsFlags,
       LevFlagsHeld,
                            LevFreedIsDisowned
  <2>4. LevWaitersHold'
    BY <2>1, LevNobodyWaits DEF LevWaitersHold, Lev!NotWaiting
  <2>5. LevLoopHolds'
    BY <1>2, <2>1 DEF LevLInv, LevLoopHolds
  <2> QED
    BY <2>2, <2>3, <2>4, <2>5 DEF LevLInv, Lev!ListenerOK
<1> QED
  BY <1>3, <1>4

\* The callback drops the reference of the owner; its own is left.
LEMMA LevFreeOK ==
  ASSUME LevAssumption, LevLInv, listener_owned, lock = Nobody, loop \in Lev!InCallback,
         Lev!evconnlistener_free(Loop), UNCHANGED <<loop, backlog>>
  PROVE  LevLInv'
<1>1. listener_refcnt = 2 /\ ~listener_freed
  BY DEF LevLInv, Lev!ListenerOK, Lev!NoUseAfterFree, LevFreedIsDisowned
<1>2. /\ listener_cb' = FALSE /\ errorcb' = FALSE /\ listener_owned' = FALSE /\ listener_refcnt' = 1
      /\ UNCHANGED <<listener_added, listener_active, listener_freed, lock, waits,
         listener_enabled, loop, backlog>>
  BY <1>1 DEF Lev!evconnlistener_free, Lev!event
<1>3. Lev!TypeOK'
  <2>1. {listener_cb', errorcb', listener_enabled', listener_freed', listener_owned',
        listener_added', listener_active'} \subseteq BOOLEAN
    BY <1>2, Zenon DEF LevLInv, Lev!ListenerOK, Lev!TypeOK
  <2> QED
    BY <1>2, <2>1 DEF LevLInv, Lev!ListenerOK, Lev!TypeOK
<1>4. Lev!NoUseAfterFree' /\ Lev!EventFollowsFlags' /\ LevFlagsHeld' /\ LevFreedIsDisowned'
  BY <1>1, <1>2 DEF Lev!NoUseAfterFree, Lev!EventFollowsFlags, LevFlagsHeld, LevFreedIsDisowned
<1>5. LevWaitersHold' /\ LevLoopHolds'
  BY <1>2 DEF LevLInv, LevWaitersHold, LevLoopHolds
<1> QED
  BY <1>3, <1>4, <1>5 DEF LevLInv, Lev!ListenerOK

LEMMA LevCallOK ==
  ASSUME LevAssumption, LevLInv, NEW t \in ListenerThread \cup {Loop}, NEW call, Lev!Call(t, call),
         call = "free" => t = Loop /\ loop \in Lev!InCallback
  PROVE  LevLInv'
  BY LevEnableOK, LevSetCbOK, LevSetErrorCbOK, LevDisableOK, LevFreeOK DEF Lev!Call

LEMMA LevResumesOK ==
  ASSUME LevAssumption, LevLInv, NEW t \in ListenerThread, Lev!EventDelResumes(t)
  PROVE  LevLInv'
<1>1. lock = t /\ waits[t].call = "disable" /\ ~listener_enabled /\ t # Nobody /\ t # Loop
  BY DEF Lev!EventDelResumes, LevLInv, LevWaitersHold, LevAssumption, Lev!ListenerAssumption
<1>2. /\ listener_added' = FALSE /\ listener_active' = FALSE /\ listener_freed' = FALSE
         /\ lock' = Nobody
      /\ waits' = [waits EXCEPT ![t] = Lev!NotWaiting]
      /\ UNCHANGED <<listener_cb, errorcb, listener_enabled, listener_refcnt, listener_owned,
         loop, backlog>>
  BY <1>1 DEF Lev!EventDelResumes, Lev!DeleteAndUnlock
<1>3. waits' \in [ListenerThread -> LevWaits] /\ waits'[t] = Lev!NotWaiting
      /\ \A u \in ListenerThread \ {t} : waits'[u] = waits[u]
  BY <1>2 DEF LevLInv, Lev!ListenerOK, Lev!TypeOK, LevWaits, Lev!NotWaiting
<1>4. Lev!TypeOK'
  BY <1>2, <1>3 DEF LevLInv, Lev!ListenerOK, Lev!TypeOK, LevWaits
<1>5. Lev!NoUseAfterFree' /\ Lev!EventFollowsFlags' /\ LevFlagsHeld' /\ LevFreedIsDisowned'
  BY <1>1, <1>2 DEF LevLInv, Lev!ListenerOK, Lev!NoUseAfterFree, Lev!EventFollowsFlags,
     LevFlagsHeld, LevFreedIsDisowned
<1>6. LevWaitersHold'
  BY <1>1, <1>2, <1>3 DEF LevLInv, LevWaitersHold, Lev!NotWaiting
<1>7. LevLoopHolds'
  BY <1>1, <1>2 DEF LevLInv, LevLoopHolds, LevAssumption, Lev!ListenerAssumption
<1> QED
  BY <1>4, <1>5, <1>6, <1>7 DEF LevLInv, Lev!ListenerOK

-----------------------------------------------------------------------------
(* Steps of the loop                                                       *)

\* Steps that touch neither the listener nor its lock.
LEMMA LevQuietOK ==
  ASSUME LevLInv, UNCHANGED <<Lev!lev, lock, waits, listener_added>>,
         listener_active' \in BOOLEAN, backlog' \in 0..MaxBacklog,
         loop' \in Lev!LoopPlaces, listener_freed => ~listener_active' /\ loop' \in {"idle",
           "returned"},
         loop' \in Lev!InCallback <=> loop \in Lev!InCallback,
         loop' = "accepting" <=> loop = "accepting"
  PROVE  LevLInv'
<1> USE DEF Lev!lev
<1>1. Lev!TypeOK'
  BY DEF LevLInv, Lev!ListenerOK, Lev!TypeOK
<1>2. Lev!NoUseAfterFree' /\ Lev!EventFollowsFlags' /\ LevFlagsHeld' /\ LevFreedIsDisowned'
  BY DEF LevLInv, Lev!ListenerOK, Lev!NoUseAfterFree, Lev!EventFollowsFlags, LevFlagsHeld,
     LevFreedIsDisowned
<1>3. LevWaitersHold' /\ LevLoopHolds'
  BY DEF LevLInv, LevWaitersHold, LevLoopHolds
<1> QED
  BY <1>1, <1>2, <1>3 DEF LevLInv, Lev!ListenerOK

LEMMA LevEventStepsOK ==
  ASSUME LevAssumption, LevLInv, Lev!Arrive \/ Lev!Activate \/ Lev!RunEvent
  PROVE  LevLInv'
<1>1. /\ MaxBacklog \in Nat /\ backlog \in 0..MaxBacklog /\ listener_active \in BOOLEAN
         /\ loop \in Lev!LoopPlaces
      /\ listener_freed => ~listener_added /\ ~listener_active /\ loop \in {"idle", "returned"}
  BY DEF LevAssumption, Lev!ListenerAssumption, LevLInv, Lev!ListenerOK, Lev!TypeOK,
     Lev!NoUseAfterFree
<1>2. CASE Lev!Arrive
  <2>1. backlog' \in 0..MaxBacklog /\ UNCHANGED <<Lev!lev, lock, listener_added, listener_active,
        loop, waits>>
    BY <1>1, <1>2 DEF Lev!Arrive, Lev!event
  <2> QED
    BY <1>1, <2>1, LevQuietOK
<1>3. CASE Lev!Activate
  BY <1>1, <1>3, LevQuietOK DEF Lev!Activate
<1>4. CASE Lev!RunEvent
  <2>1. /\ loop = "idle" /\ loop' = "called" /\ listener_active /\ listener_active' = FALSE
        /\ UNCHANGED <<Lev!lev, lock, listener_added, waits, backlog>>
    BY <1>4 DEF Lev!RunEvent
  <2>2. /\ loop' \in Lev!LoopPlaces /\ ~(loop' \in Lev!InCallback) /\ ~(loop \in Lev!InCallback)
    BY <2>1 DEF Lev!LoopPlaces, Lev!InCallback
  <2> QED
    BY <1>1, <2>1, <2>2, LevQuietOK
<1> QED
  BY <1>2, <1>3, <1>4

\* The loop takes or gives back the lock; the references are counted.
LEMMA LevLoopLockOK ==
  ASSUME LevAssumption, LevLInv, ~listener_freed, lock \in {Loop, Nobody}, lock' \in {Loop, Nobody},
         UNCHANGED <<listener_cb, errorcb, listener_enabled, listener_freed, listener_owned,
           listener_added, listener_active, waits>>,
         backlog' \in 0..MaxBacklog, loop' \in Lev!LoopPlaces,
         loop' = "accepting" <=> lock' = Loop,
         listener_refcnt' = (IF listener_owned THEN 1 ELSE 0)
                            + (IF loop' \in Lev!InCallback THEN 1 ELSE 0)
  PROVE  LevLInv'
<1>1. listener_refcnt' \in 0..2
  OBVIOUS
<1>2. Lev!TypeOK'
  BY <1>1 DEF LevLInv, Lev!ListenerOK, Lev!TypeOK
<1>3. Lev!NoUseAfterFree' /\ Lev!EventFollowsFlags' /\ LevFlagsHeld' /\ LevFreedIsDisowned'
      /\ LevLoopHolds'
  BY DEF LevLInv, Lev!ListenerOK, Lev!NoUseAfterFree, Lev!EventFollowsFlags, LevFlagsHeld,
     LevFreedIsDisowned,
         LevLoopHolds, LevAssumption, Lev!ListenerAssumption
<1>4. \A t \in ListenerThread : waits[t].call = "none" /\ ~waits[t].woken
  BY DEF LevLInv, LevWaitersHold, LevAssumption, Lev!ListenerAssumption
<1>5. LevWaitersHold'
  BY <1>4 DEF LevWaitersHold
<1> QED
  BY <1>2, <1>3, <1>5 DEF LevLInv, Lev!ListenerOK

LEMMA LevReadCbOK ==
  ASSUME LevAssumption, LevLInv, Lev!ReadCbLocks \/ Lev!Accept \/ Lev!AcceptFails
  PROVE  LevLInv'
<1>1. /\ MaxBacklog \in Nat /\ backlog \in 0..MaxBacklog /\ loop \in {"called", "accepting"}
      /\ ~listener_freed /\ lock \in {Loop, Nobody} /\ Loop # Nobody
      /\ loop = "accepting" <=> lock = Loop
      /\ listener_refcnt = IF listener_owned THEN 1 ELSE 0
  BY DEF Lev!ReadCbLocks, Lev!Accept, Lev!AcceptFails, LevAssumption, Lev!ListenerAssumption,
     LevLInv, Lev!ListenerOK,
         Lev!TypeOK, Lev!NoUseAfterFree, LevLoopHolds, Lev!InCallback
<1>2. /\ UNCHANGED <<listener_cb, errorcb, listener_enabled, listener_freed, listener_owned,
         listener_added, listener_active, waits>>
      /\ backlog' \in 0..MaxBacklog
      /\ \/ lock' = Loop /\ loop' = "accepting" /\ listener_refcnt' = listener_refcnt
         \/ lock' = Nobody /\ loop' = "returned" /\ listener_refcnt' = listener_refcnt
         \/ lock' = Nobody /\ loop' \in Lev!InCallback /\ listener_refcnt' = listener_refcnt + 1
  BY <1>1 DEF Lev!ReadCbLocks, Lev!Accept, Lev!AcceptFails, Lev!Invoke, Lev!Leave, Lev!lev,
     Lev!event, Lev!InCallback
<1>3. /\ lock' \in {Loop, Nobody} /\ loop' \in Lev!LoopPlaces
      /\ loop' = "accepting" <=> lock' = Loop
      /\ listener_refcnt' = (IF listener_owned THEN 1 ELSE 0)
                            + (IF loop' \in Lev!InCallback THEN 1 ELSE 0)
  BY <1>1, <1>2 DEF Lev!InCallback, Lev!LoopPlaces
<1> QED
  BY <1>1, <1>2, <1>3, LevLoopLockOK

LEMMA LevReturnsOK ==
  ASSUME LevAssumption, LevLInv, Lev!CallbackReturns \/ Lev!ErrorCallbackReturns
  PROVE  LevLInv'
<1>1. /\ loop \in Lev!InCallback /\ lock = Nobody /\ ~listener_freed
         /\ listener_refcnt' = listener_refcnt - 1
      /\ listener_refcnt = (IF listener_owned THEN 1 ELSE 0) + 1 /\ Loop # Nobody
      /\ UNCHANGED <<listener_cb, errorcb, listener_enabled, listener_owned, waits, backlog>>
      /\ backlog \in 0..MaxBacklog
  BY DEF Lev!CallbackReturns, Lev!ErrorCallbackReturns, LevLInv, Lev!ListenerOK, Lev!TypeOK,
     Lev!NoUseAfterFree,
         Lev!InCallback, LevAssumption, Lev!ListenerAssumption
<1>2. CASE listener_refcnt = 1
  <2>1. /\ listener_added' = FALSE /\ listener_active' = FALSE /\ listener_freed' = TRUE
           /\ lock' = Nobody
        /\ loop' = "returned" /\ ~listener_owned /\ listener_refcnt' = 0
    BY <1>1, <1>2 DEF Lev!CallbackReturns, Lev!ErrorCallbackReturns, Lev!DeleteAndUnlock
  <2>2. Lev!TypeOK'
    <3>1. {listener_cb', errorcb', listener_enabled', listener_freed', listener_owned',
          listener_added', listener_active'} \subseteq BOOLEAN
      BY <1>1, <2>1, Zenon DEF LevLInv, Lev!ListenerOK, Lev!TypeOK
    <3> QED
      BY <1>1, <2>1, <3>1 DEF LevLInv, Lev!ListenerOK, Lev!TypeOK, Lev!LoopPlaces
  <2>3. \A t \in ListenerThread : waits'[t] = Lev!NotWaiting
    BY <1>1, LevNobodyWaits
  <2>4. Lev!NoUseAfterFree' /\ Lev!EventFollowsFlags' /\ LevFlagsHeld' /\ LevFreedIsDisowned'
        /\ LevLoopHolds'
    BY <1>1, <2>1, <2>3 DEF Lev!NoUseAfterFree, Lev!EventFollowsFlags, LevFlagsHeld,
       LevFreedIsDisowned,
                            LevLoopHolds, Lev!InCallback
  <2>5. LevWaitersHold'
    BY <2>3 DEF LevWaitersHold, Lev!NotWaiting
  <2> QED
    BY <2>2, <2>4, <2>5 DEF LevLInv, Lev!ListenerOK
<1>3. CASE listener_refcnt # 1
  <2>1. /\ UNCHANGED <<listener_added, listener_active, listener_freed>>
        /\ \/ lock' = Loop /\ loop' = "accepting"
           \/ lock' = Nobody /\ loop' = "returned"
    BY <1>1, <1>3 DEF Lev!CallbackReturns, Lev!ErrorCallbackReturns, Lev!event
  <2>2. /\ lock' \in {Loop, Nobody} /\ loop' \in Lev!LoopPlaces
        /\ loop' = "accepting" <=> lock' = Loop
        /\ listener_refcnt' = (IF listener_owned THEN 1 ELSE 0)
                              + (IF loop' \in Lev!InCallback THEN 1 ELSE 0)
    BY <1>1, <2>1 DEF Lev!InCallback, Lev!LoopPlaces
  <2> QED
    BY <1>1, <2>1, <2>2, LevLoopLockOK
<1> QED
  BY <1>2, <1>3

\* The waiters are woken; none of them does anything here.
LEMMA LevEventDoneOK ==
  ASSUME LevAssumption, LevLInv, Lev!EventDone
  PROVE  LevLInv'
<1>1. /\ loop = "returned" /\ loop' = "idle"
      /\ waits' = [t \in ListenerThread |-> [waits[t] EXCEPT !.woken = waits[t].call # "none"]]
      /\ UNCHANGED <<listener_cb, errorcb, listener_enabled, listener_refcnt, listener_freed,
         listener_owned, lock, listener_added, listener_active, backlog>>
  BY DEF Lev!EventDone, Lev!lev, Lev!event
<1>2. \A t \in ListenerThread :
        /\ waits'[t] \in LevWaits /\ waits'[t].call = waits[t].call
        /\ waits'[t].woken => waits[t].call # "none"
        /\ waits[t] = Lev!NotWaiting => waits'[t] = Lev!NotWaiting
  <2> TAKE t \in ListenerThread
  <2>1. waits[t] \in LevWaits
    BY DEF LevLInv, Lev!ListenerOK, Lev!TypeOK, LevWaits
  <2>2. waits'[t] = [waits[t] EXCEPT !.woken = waits[t].call # "none"]
    BY <1>1
  <2>3. CASE waits[t].call = "none"
    BY <2>1, <2>2, <2>3 DEF LevWaits, Lev!NotWaiting
  <2>4. CASE waits[t].call # "none"
    <3>1. waits'[t] = [call |-> waits[t].call, woken |-> TRUE]
      BY <2>1, <2>2, <2>4 DEF LevWaits
    <3>2. waits[t] # Lev!NotWaiting
      BY <2>4 DEF Lev!NotWaiting
    <3> QED
      BY <2>1, <2>4, <3>1, <3>2 DEF LevWaits
  <2> QED
    BY <2>3, <2>4
<1>3. Lev!TypeOK'
  <2>1. waits' \in [ListenerThread -> LevWaits]
    BY <1>1, <1>2
  <2> QED
    BY <1>1, <2>1 DEF LevLInv, Lev!ListenerOK, Lev!TypeOK, Lev!LoopPlaces, LevWaits
<1>4. Lev!NoUseAfterFree' /\ Lev!EventFollowsFlags' /\ LevFlagsHeld' /\ LevFreedIsDisowned'
      /\ LevLoopHolds'
  BY <1>1, <1>2 DEF LevLInv, Lev!ListenerOK, Lev!NoUseAfterFree, Lev!EventFollowsFlags,
     LevFlagsHeld,
                    LevFreedIsDisowned, LevLoopHolds, Lev!InCallback
<1>5. LevWaitersHold'
  BY <1>1, <1>2 DEF LevLInv, LevWaitersHold
<1> QED
  BY <1>3, <1>4, <1>5 DEF LevLInv, Lev!ListenerOK

LEMMA LevListenerStep ==
  ASSUME LevAssumption, LevLInv, [Lev!Next]_(Lev!vars)
  PROVE  LevLInv'
<1>1. CASE Lev!Arrive \/ Lev!LoopStep
  BY <1>1, LevEventStepsOK, LevReadCbOK, LevReturnsOK, LevEventDoneOK DEF Lev!LoopStep
<1>2. CASE Lev!CallbackCall
  BY <1>2, LevCallOK DEF Lev!CallbackCall
<1>3. ASSUME NEW t \in ListenerThread, Lev!ThreadCall(t) \/ Lev!EventDelResumes(t)
      PROVE  LevLInv'
  BY <1>3, LevCallOK, LevResumesOK DEF Lev!ThreadCall, LevAssumption
<1>4. CASE UNCHANGED Lev!vars
  BY <1>4 DEF Lev!vars, Lev!lev, Lev!event, LevLInv, Lev!ListenerOK, Lev!TypeOK,
     Lev!NoUseAfterFree, Lev!EventFollowsFlags,
              LevLoopHolds, LevWaitersHold, LevFlagsHeld, LevFreedIsDisowned
<1> QED
  BY <1>1, <1>2, <1>3, <1>4 DEF Lev!Next

\* listener.c: nothing of a listener is used after its last reference is dropped, and its event is
\* pending exactly when its flags say so, whatever the threads enable, disable and set while
\* listener_read_cb runs the user's callback without the lock.
THEOREM LevListenerAlwaysOK ==
  ASSUME LevAssumption
  PROVE  Lev!Spec => []Lev!ListenerOK
<1>1. Lev!Init => LevLInv
  BY LevListenerInit
<1>2. LevLInv /\ [Lev!Next]_(Lev!vars) => LevLInv'
  BY LevListenerStep
<1>3. LevLInv => Lev!ListenerOK
  BY DEF LevLInv
<1> QED
  BY <1>1, <1>2, <1>3, PTL DEF Lev!Spec
-----------------------------------------------------------------------------
(* The connection of HTTP, for any number of requests and attempts, if     *)
(* server and user do nothing that http.c is not ready for (Beyond = {}).  *)
(*                                                                         *)
(* Two things have to be added to ConnectionOK to make it inductive: a     *)
(* connection that is idle detects a close, and one that is not connected  *)
(* does not read.  Without them a callback of the bufferevent could come   *)
(* that finds no request to fail, and the assertion of                     *)
(* evhttp_connection_fail_ with it.                                        *)

HttpConnections ==
  {c \in [state : Http!States, closedetect : BOOLEAN, reading_error : BOOLEAN,
          autofree : BOOLEAN, retry_cnt : 0 .. retry_max, retry_ev : BOOLEAN,
          read_more : BOOLEAN, read : BOOLEAN, input : BOOLEAN,
          body : Http!Bodies \cup {"unknown"}, continued : BOOLEAN, losing : BOOLEAN] :
     c.losing => "cancel_in_cleanup" \in Beyond}

\* A connection c with this queue of requests may be waited for.
HttpSound(c, queue) ==
  /\ queue # <<>> <=> c.state \notin {"disconnected", "idle"} \/ c.retry_ev
  /\ c.closedetect <=> c.state = "idle"
  /\ c.retry_ev => c.state = "disconnected"
  /\ c.read_more => c.state = "reading_firstline"
  /\ c.state \in {"disconnected", "connecting"} => ~c.read

\* The callbacks that are still to come, behind the one that runs.
HttpRest(list) == IF list = <<>> THEN <<>> ELSE Tail(list)

\* The requests of the two queues are those that were made, each of them once.
HttpOnce(queue, list, o) ==
  /\ Http!IsInjective(queue) /\ Http!IsInjective(list)
  /\ \A r \in HttpRequest :
       /\ ~(Http!Contains(queue, r) /\ Http!Contains(list, r))
       /\ o[r] = "made" <=> Http!Contains(queue, r) \/ Http!Contains(list, r)

HttpIInv ==
  /\ Http!TypeOK
  /\ ~exited
  /\ HttpSound(evcon, requests)
  /\ HttpOnce(requests, HttpRest(http_calling), outcome)

-----------------------------------------------------------------------------
(* Sequences in which each element stands once.                            *)

\* The elements of two sequences in a row
LEMMA ConcatElements ==
  ASSUME NEW S, NEW s \in Seq(S), NEW t \in Seq(S)
  PROVE  /\ s \o t \in Seq(S)
         /\ Len(s) \in Nat /\ Len(t) \in Nat /\ Len(s \o t) = Len(s) + Len(t)
         /\ DOMAIN s = 1 .. Len(s) /\ DOMAIN t = 1 .. Len(t)
         /\ DOMAIN (s \o t) = 1 .. Len(s) + Len(t)
         /\ \A i \in 1 .. Len(s) : (s \o t)[i] = s[i] /\ s[i] \in S
         /\ \A i \in 1 .. Len(t) : (s \o t)[Len(s) + i] = t[i] /\ t[i] \in S
  OBVIOUS

\* They are those of both, and stand there once.
LEMMA ConcatOnce ==
  ASSUME NEW S, NEW s \in Seq(S), NEW t \in Seq(S), Http!IsInjective(s), Http!IsInjective(t),
         \A r \in S : ~(Http!Contains(s, r) /\ Http!Contains(t, r))
  PROVE  /\ Http!IsInjective(s \o t)
         /\ \A r \in S : Http!Contains(s \o t, r) <=> Http!Contains(s, r) \/ Http!Contains(t, r)
<1>1. /\ Len(s) \in Nat /\ Len(t) \in Nat /\ Len(s \o t) = Len(s) + Len(t)
      /\ DOMAIN s = 1 .. Len(s) /\ DOMAIN t = 1 .. Len(t)
      /\ DOMAIN (s \o t) = 1 .. Len(s) + Len(t)
      /\ \A i \in 1 .. Len(s) : (s \o t)[i] = s[i] /\ s[i] \in S
      /\ \A i \in 1 .. Len(t) : (s \o t)[Len(s) + i] = t[i] /\ t[i] \in S
  BY ConcatElements
<1> DEFINE u == s \o t
<1>2. \A i \in 1 .. Len(s) + Len(t) :
        \/ i \in 1 .. Len(s) /\ u[i] = s[i] /\ Http!Contains(s, u[i])
        \/ i - Len(s) \in 1 .. Len(t) /\ u[i] = t[i - Len(s)] /\ Http!Contains(t, u[i])
  <2> SUFFICES ASSUME NEW i \in 1 .. Len(s) + Len(t)
               PROVE  \/ i \in 1 .. Len(s) /\ u[i] = s[i] /\ Http!Contains(s, u[i])
                      \/ i - Len(s) \in 1 .. Len(t) /\ u[i] = t[i - Len(s)] /\ Http!Contains(t,
                        u[i])
    OBVIOUS
  <2>1. CASE i \in 1 .. Len(s)
    BY <1>1, <2>1 DEF Http!Contains
  <2>2. CASE i \notin 1 .. Len(s)
    <3>1. i - Len(s) \in 1 .. Len(t) /\ Len(s) + (i - Len(s)) = i
      BY <1>1, <2>2
    <3>2. u[Len(s) + (i - Len(s))] = t[i - Len(s)]
      BY <1>1, <3>1
    <3> QED
      BY <3>1, <3>2 DEF Http!Contains
  <2> QED
    BY <2>1, <2>2
<1>3. \A i \in 1 .. Len(s) + Len(t) : u[i] \in S
  BY <1>1, <1>2
<1>4. ASSUME NEW a \in DOMAIN u, NEW b \in DOMAIN u, u[a] = u[b]
      PROVE  a = b
  <2>1. a \in 1 .. Len(s) + Len(t) /\ b \in 1 .. Len(s) + Len(t) /\ u[a] \in S
    BY <1>1, <1>3
  <2>2. /\ \A i, j \in 1 .. Len(s) : s[i] = s[j] => i = j
        /\ \A i, j \in 1 .. Len(t) : t[i] = t[j] => i = j
    BY <1>1 DEF Http!IsInjective
  <2> HIDE DEF u
  <2>3. CASE Http!Contains(s, u[a])
    <3>1. a \in 1 .. Len(s) /\ u[a] = s[a] /\ b \in 1 .. Len(s) /\ u[b] = s[b]
      BY <1>2, <1>4, <2>1, <2>3
    <3> QED
      BY <1>4, <2>2, <3>1
  <2>4. CASE Http!Contains(t, u[a])
    <3>1. /\ a - Len(s) \in 1 .. Len(t) /\ u[a] = t[a - Len(s)]
          /\ b - Len(s) \in 1 .. Len(t) /\ u[b] = t[b - Len(s)]
      BY <1>2, <1>4, <2>1, <2>4
    <3>2. a - Len(s) = b - Len(s)
      BY <1>4, <2>2, <3>1
    <3> QED
      BY <1>1, <2>1, <3>2
  <2> QED
    BY <1>2, <2>1, <2>3, <2>4
<1>5. ASSUME NEW r \in S
      PROVE  Http!Contains(u, r) <=> Http!Contains(s, r) \/ Http!Contains(t, r)
  <2>1. ASSUME Http!Contains(u, r)
        PROVE  Http!Contains(s, r) \/ Http!Contains(t, r)
    BY <1>1, <1>2, <2>1 DEF Http!Contains
  <2>2. ASSUME Http!Contains(s, r)
        PROVE  Http!Contains(u, r)
    BY <1>1, <2>2 DEF Http!Contains
  <2>3. ASSUME Http!Contains(t, r)
        PROVE  Http!Contains(u, r)
    <3>1. PICK i \in 1 .. Len(t) : t[i] = r
      BY <2>3 DEF Http!Contains
    <3>2. Len(s) + i \in 1 .. Len(u) /\ u[Len(s) + i] = r
      BY <1>1, <3>1
    <3> QED
      BY <3>2 DEF Http!Contains
  <2> QED
    BY <2>1, <2>2, <2>3
<1> QED
  BY <1>4, <1>5 DEF Http!IsInjective

\* TAILQ_REMOVE of the first
LEMMA TailOnce ==
  ASSUME NEW S, NEW s \in Seq(S), Http!IsInjective(s), s # <<>>
  PROVE  /\ Tail(s) \in Seq(S) /\ Head(s) \in S /\ Http!IsInjective(Tail(s))
         /\ Http!Contains(s, Head(s))
         /\ \A r : Http!Contains(Tail(s), r) <=> Http!Contains(s, r) /\ r # Head(s)
<1>1. /\ Len(s) \in Nat \ {0} /\ DOMAIN s = 1 .. Len(s) /\ Head(s) = s[1] /\ s[1] \in S
      /\ Tail(s) \in Seq(S) /\ Len(Tail(s)) = Len(s) - 1
      /\ \A i \in 1 .. Len(s) - 1 : Tail(s)[i] = s[i + 1]
  OBVIOUS
<1> DEFINE t == Tail(s)
<1>2. DOMAIN t = 1 .. Len(s) - 1
  BY <1>1
<1>3. \A i, j \in 1 .. Len(s) : s[i] = s[j] => i = j
  BY <1>1 DEF Http!IsInjective
<1> HIDE DEF t
<1>4. Http!IsInjective(t)
  BY <1>1, <1>2, <1>3 DEF Http!IsInjective, t
<1>5. ASSUME NEW r
      PROVE  Http!Contains(t, r) <=> Http!Contains(s, r) /\ r # Head(s)
  <2>1. ASSUME Http!Contains(t, r)
        PROVE  Http!Contains(s, r) /\ r # Head(s)
    <3>1. PICK i \in 1 .. Len(s) - 1 : t[i] = r
      BY <1>1, <2>1 DEF Http!Contains, t
    <3>2. i + 1 \in 1 .. Len(s) /\ s[i + 1] = r /\ i + 1 # 1 /\ 1 \in 1 .. Len(s)
      BY <1>1, <3>1 DEF t
    <3> QED
      BY <1>1, <1>3, <3>2 DEF Http!Contains
  <2>2. ASSUME Http!Contains(s, r), r # Head(s)
        PROVE  Http!Contains(t, r)
    <3>1. PICK i \in 1 .. Len(s) : s[i] = r
      BY <2>2 DEF Http!Contains
    <3>2. i - 1 \in 1 .. Len(t) /\ (i - 1) + 1 = i
      BY <1>1, <2>2, <3>1 DEF t
    <3>3. t[i - 1] = r
      BY <1>1, <3>1, <3>2 DEF t
    <3> QED
      BY <3>2, <3>3 DEF Http!Contains
  <2> QED
    BY <2>1, <2>2
<1>6. Http!Contains(s, Head(s))
  BY <1>1 DEF Http!Contains
<1> QED
  BY <1>1, <1>4, <1>5, <1>6 DEF t

\* TAILQ_INSERT_TAIL of one that does not stand there
LEMMA AppendOnce ==
  ASSUME NEW S, NEW s \in Seq(S), Http!IsInjective(s), NEW c \in S, ~Http!Contains(s, c)
  PROVE  /\ Append(s, c) \in Seq(S) /\ Http!IsInjective(Append(s, c)) /\ Append(s, c) # <<>>
         /\ \A r : Http!Contains(Append(s, c), r) <=> Http!Contains(s, r) \/ r = c
<1>1. /\ Len(s) \in Nat /\ DOMAIN s = 1 .. Len(s)
      /\ Append(s, c) \in Seq(S) /\ Len(Append(s, c)) = Len(s) + 1
      /\ \A i \in 1 .. Len(s) : Append(s, c)[i] = s[i]
      /\ Append(s, c)[Len(s) + 1] = c
  OBVIOUS
<1> DEFINE t == Append(s, c)
<1>2. DOMAIN t = 1 .. Len(s) + 1
  BY <1>1
<1>3. \A i \in 1 .. Len(s) : s[i] # c
  BY DEF Http!Contains
<1> HIDE DEF t
<1>4. Http!IsInjective(t)
  BY <1>1, <1>2, <1>3 DEF Http!IsInjective, t
<1>5. ASSUME NEW r
      PROVE  Http!Contains(t, r) <=> Http!Contains(s, r) \/ r = c
  BY <1>1 DEF Http!Contains, t
<1> QED
  BY <1>1, <1>4, <1>5 DEF t

\* TAILQ_REMOVE
LEMMA RemovedElements ==
  ASSUME NEW S, NEW s \in Seq(S), NEW k \in DOMAIN s
  PROVE  LET t == Http!RemoveAt(s, k)
         IN  /\ t \in Seq(S) /\ Len(t) = Len(s) - 1 /\ DOMAIN t = 1 .. Len(s) - 1
             /\ \A i \in 1 .. Len(s) - 1 : t[i] = IF i < k THEN s[i] ELSE s[i + 1]
<1> DEFINE t == Http!RemoveAt(s, k)
<1>1. Len(s) \in Nat /\ DOMAIN s = 1 .. Len(s) /\ k \in 1 .. Len(s)
      /\ \A i \in 1 .. Len(s) : s[i] \in S
  OBVIOUS
<1>2. /\ SubSeq(s, 1, k - 1) \in Seq(S) /\ Len(SubSeq(s, 1, k - 1)) = k - 1
      /\ SubSeq(s, k + 1, Len(s)) \in Seq(S) /\ Len(SubSeq(s, k + 1, Len(s))) = Len(s) - k
      /\ \A i \in 1 .. k - 1 : SubSeq(s, 1, k - 1)[i] = s[i]
      /\ \A i \in 1 .. Len(s) - k : SubSeq(s, k + 1, Len(s))[i] = s[i + k]
  BY <1>1
<1>3. /\ t \in Seq(S) /\ Len(t) = Len(s) - 1 /\ DOMAIN t = 1 .. Len(s) - 1
      /\ \A i \in 1 .. k - 1 : t[i] = s[i]
      /\ \A i \in k .. Len(s) - 1 : t[i] = s[i + 1]
  <2> DEFINE a == SubSeq(s, 1, k - 1)
             b == SubSeq(s, k + 1, Len(s))
  <2>1. t = a \o b /\ a \in Seq(S) /\ b \in Seq(S) /\ Len(a) = k - 1 /\ Len(b) = Len(s) - k
    BY <1>2 DEF Http!RemoveAt
  <2>2. /\ \A i \in 1 .. k - 1 : a[i] = s[i]
        /\ \A i \in 1 .. Len(s) - k : b[i] = s[i + k]
    BY <1>2
  <2> HIDE DEF a, b, t
  <2>3. /\ t \in Seq(S) /\ Len(t) = Len(a) + Len(b) /\ DOMAIN t = 1 .. Len(a) + Len(b)
        /\ \A i \in 1 .. Len(a) : t[i] = a[i]
        /\ \A i \in 1 .. Len(b) : t[Len(a) + i] = b[i]
    <3>1. /\ a \o b \in Seq(S) /\ Len(a \o b) = Len(a) + Len(b)
          /\ DOMAIN (a \o b) = 1 .. Len(a) + Len(b)
          /\ \A i \in 1 .. Len(a) : (a \o b)[i] = a[i]
          /\ \A i \in 1 .. Len(b) : (a \o b)[Len(a) + i] = b[i]
      <4>1. a \in Seq(S) /\ b \in Seq(S)
        BY <2>1
      <4> QED
        BY ONLY <4>1, ConcatElements
    <3> QED
      BY <2>1, <3>1
  <2>4. ASSUME NEW i \in k .. Len(s) - 1
        PROVE  t[i] = s[i + 1]
    <3> DEFINE j == i - (k - 1)
    <3>1. j \in 1 .. Len(s) - k /\ (k - 1) + j = i /\ j + k = i + 1
      BY <1>1
    <3> HIDE DEF j
    <3>2. t[(k - 1) + j] = b[j] /\ b[j] = s[j + k]
      BY <2>1, <2>2, <2>3, <3>1
    <3> QED
      BY <3>1, <3>2
  <2> QED
    BY <1>1, <2>1, <2>2, <2>3, <2>4
<1> HIDE DEF t
<1>4. ASSUME NEW i \in 1 .. Len(s) - 1
      PROVE  t[i] = IF i < k THEN s[i] ELSE s[i + 1]
  <2>1. CASE i < k
    <3>1. i \in 1 .. k - 1
      BY <1>1, <2>1
    <3> QED
      BY <1>3, <2>1, <3>1
  <2>2. CASE ~(i < k)
    <3>1. i \in k .. Len(s) - 1
      BY <1>1, <2>2
    <3> QED
      BY <1>3, <2>2, <3>1
  <2> QED
    BY <2>1, <2>2
<1> QED
  BY <1>3, <1>4 DEF t

LEMMA RemoveOnce ==
  ASSUME NEW S, NEW s \in Seq(S), Http!IsInjective(s), NEW k \in DOMAIN s
  PROVE  /\ Http!RemoveAt(s, k) \in Seq(S) /\ Http!IsInjective(Http!RemoveAt(s, k))
         /\ k # 1 => Http!RemoveAt(s, k) # <<>>
         /\ Http!Contains(s, s[k])
         /\ \A r : Http!Contains(Http!RemoveAt(s, k), r) <=> Http!Contains(s, r) /\ r # s[k]
<1> DEFINE t == Http!RemoveAt(s, k)
<1>1. Len(s) \in Nat /\ DOMAIN s = 1 .. Len(s) /\ k \in 1 .. Len(s)
      /\ \A i \in 1 .. Len(s) : s[i] \in S
  OBVIOUS
<1>2. /\ t \in Seq(S) /\ Len(t) = Len(s) - 1 /\ DOMAIN t = 1 .. Len(s) - 1
      /\ \A i \in 1 .. Len(s) - 1 : t[i] = IF i < k THEN s[i] ELSE s[i + 1]
  BY RemovedElements
<1>3. /\ t \in Seq(S) /\ Len(t) = Len(s) - 1 /\ DOMAIN t = 1 .. Len(s) - 1
      /\ \A i \in 1 .. k - 1 : t[i] = s[i]
      /\ \A i \in k .. Len(s) - 1 : t[i] = s[i + 1]
  <2> HIDE DEF t
  <2>1. /\ \A i \in 1 .. k - 1 : i \in 1 .. Len(s) - 1 /\ i < k
        /\ \A i \in k .. Len(s) - 1 : i \in 1 .. Len(s) - 1 /\ ~(i < k)
    BY <1>1
  <2> QED
    BY <1>2, <2>1
<1> HIDE DEF t
<1>4. \A i, j \in 1 .. Len(s) : s[i] = s[j] => i = j
  BY <1>1 DEF Http!IsInjective
<1>5. \A i \in 1 .. Len(s) - 1 :
        \E j \in 1 .. Len(s) : t[i] = s[j] /\ j = IF i < k THEN i ELSE i + 1
  <2> SUFFICES ASSUME NEW i \in 1 .. Len(s) - 1
               PROVE  \E j \in 1 .. Len(s) : t[i] = s[j] /\ j = IF i < k THEN i ELSE i + 1
    OBVIOUS
  <2>1. CASE i < k
    <3>1. i \in 1 .. k - 1 /\ i \in 1 .. Len(s)
      BY <1>1, <2>1
    <3> QED
      BY <1>3, <2>1, <3>1
  <2>2. CASE ~(i < k)
    <3>1. i \in k .. Len(s) - 1 /\ i + 1 \in 1 .. Len(s)
      BY <1>1, <2>2
    <3> QED
      BY <1>3, <2>2, <3>1
  <2> QED
    BY <2>1, <2>2
<1>6. Http!IsInjective(t)
  BY <1>1, <1>3, <1>4, <1>5 DEF Http!IsInjective
<1>7. ASSUME NEW r
      PROVE  Http!Contains(t, r) <=> Http!Contains(s, r) /\ r # s[k]
  <2>1. ASSUME Http!Contains(t, r)
        PROVE  Http!Contains(s, r) /\ r # s[k]
    <3>1. PICK i \in 1 .. Len(s) - 1 : t[i] = r
      BY <1>3, <2>1 DEF Http!Contains
    <3>2. PICK j \in 1 .. Len(s) : s[j] = r /\ j = IF i < k THEN i ELSE i + 1
      BY <1>5, <3>1
    <3>3. j # k
      BY <1>1, <3>1, <3>2
    <3> QED
      BY <1>1, <1>4, <3>2, <3>3 DEF Http!Contains
  <2>2. ASSUME Http!Contains(s, r), r # s[k]
        PROVE  Http!Contains(t, r)
    <3>1. PICK j \in 1 .. Len(s) : s[j] = r /\ j # k
      BY <2>2 DEF Http!Contains
    <3>2. CASE j < k
      BY <1>1, <1>3, <3>1, <3>2 DEF Http!Contains
    <3>3. CASE j > k
      <4>1. j - 1 \in k .. Len(s) - 1 /\ (j - 1) + 1 = j /\ j - 1 \in 1 .. Len(t)
        BY <1>1, <1>3, <3>1, <3>3
      <4>2. t[j - 1] = r
        BY <1>3, <3>1, <4>1
      <4> QED
        BY <4>1, <4>2 DEF Http!Contains
    <3> QED
      BY <1>1, <3>1, <3>2, <3>3
  <2> QED
    BY <2>1, <2>2
<1>8. k # 1 => t # <<>>
  BY <1>1, <1>3
<1>9. Http!Contains(s, s[k])
  BY <1>1 DEF Http!Contains
<1> QED
  BY <1>3, <1>6, <1>7, <1>8, <1>9 DEF t

-----------------------------------------------------------------------------
(* The connection.                                                         *)

LEMMA HttpInvTypes ==
  ASSUME HttpIInv
  PROVE  /\ evcon \in HttpConnections /\ requests \in Seq(HttpRequest)
         /\ http_calling \in Seq(HttpRequest)
         /\ outcome \in [HttpRequest -> {"new", "made", "answered", "cancelled"}]
         /\ free_evcon \in BOOLEAN /\ evcon_freed \in BOOLEAN /\ ~exited
         /\ HttpSound(evcon, requests)
         /\ Http!IsInjective(requests)
  BY DEF HttpIInv, Http!TypeOK, HttpConnections, HttpOnce

\* Only the connection changes.
LEMMA HttpOnlyStep ==
  ASSUME HttpIInv, NEW c \in HttpConnections, Http!Only(c), HttpSound(c, requests)
  PROVE  HttpIInv'
  BY DEF HttpIInv, Http!TypeOK, HttpConnections, Http!Only

\* What the functions on a connection leave
LEMMA HttpFunctions ==
  ASSUME NEW c \in HttpConnections
  PROVE  /\ LET d == Http!evhttp_connection_reset_(c)
            IN  /\ d \in HttpConnections /\ d.state = "disconnected" /\ ~d.read
                /\ d.closedetect = c.closedetect /\ d.retry_ev = c.retry_ev
                /\ d.read_more = c.read_more /\ d.autofree = c.autofree
                /\ d.retry_cnt = c.retry_cnt
         /\ LET d == Http!evhttp_connection_connect_(c)
            IN  /\ d \in HttpConnections /\ d.state = "connecting"
                /\ d.read => c.state = "connecting" /\ c.read
                /\ d.closedetect = c.closedetect /\ d.retry_ev = c.retry_ev
                /\ d.read_more = c.read_more
         /\ LET d == Http!evhttp_connection_start_detectclose(c)
            IN  /\ d \in HttpConnections /\ d.state = c.state /\ d.closedetect
                /\ d.retry_ev = c.retry_ev /\ d.read_more = c.read_more
         /\ LET d == Http!evhttp_start_read_(c)
            IN  /\ d \in HttpConnections /\ d.state = "reading_firstline"
                /\ d.closedetect = c.closedetect /\ d.retry_ev = c.retry_ev
         /\ LET d == Http!evhttp_start_write_(c)
            IN  /\ d \in HttpConnections /\ d.state = "writing"
                /\ d.closedetect = c.closedetect /\ d.retry_ev = c.retry_ev
                /\ d.read_more = c.read_more
<1> USE DEF HttpConnections, Http!States, Http!Reading, Http!Bodies
<1>1. LET d == Http!evhttp_connection_reset_(c)
      IN  /\ d \in HttpConnections /\ d.state = "disconnected" /\ ~d.read
          /\ d.closedetect = c.closedetect /\ d.retry_ev = c.retry_ev
          /\ d.read_more = c.read_more /\ d.autofree = c.autofree
          /\ d.retry_cnt = c.retry_cnt
  BY DEF Http!evhttp_connection_reset_
<1>2. LET d == Http!evhttp_connection_connect_(c)
      IN  /\ d \in HttpConnections /\ d.state = "connecting"
          /\ d.read => c.state = "connecting" /\ c.read
          /\ d.closedetect = c.closedetect /\ d.retry_ev = c.retry_ev
          /\ d.read_more = c.read_more
  <2> DEFINE reset == Http!evhttp_connection_reset_(c)
  <2>1. /\ reset \in HttpConnections /\ ~reset.read
        /\ reset.closedetect = c.closedetect /\ reset.retry_ev = c.retry_ev
        /\ reset.read_more = c.read_more
    BY <1>1
  <2>2. Http!evhttp_connection_connect_(c) =
          IF c.state = "connecting" THEN c ELSE [reset EXCEPT !.state = "connecting"]
    BY DEF Http!evhttp_connection_connect_
  <2> HIDE DEF reset
  <2> QED
    BY <2>1, <2>2
<1>3. LET d == Http!evhttp_connection_start_detectclose(c)
      IN  /\ d \in HttpConnections /\ d.state = c.state /\ d.closedetect
          /\ d.retry_ev = c.retry_ev /\ d.read_more = c.read_more
  BY DEF Http!evhttp_connection_start_detectclose
<1>4. LET d == Http!evhttp_start_read_(c)
      IN  /\ d \in HttpConnections /\ d.state = "reading_firstline"
          /\ d.closedetect = c.closedetect /\ d.retry_ev = c.retry_ev
  BY DEF Http!evhttp_start_read_
<1>5. LET d == Http!evhttp_start_write_(c)
      IN  /\ d \in HttpConnections /\ d.state = "writing"
          /\ d.closedetect = c.closedetect /\ d.retry_ev = c.retry_ev
          /\ d.read_more = c.read_more
  BY DEF Http!evhttp_start_write_
<1> QED
  BY <1>1, <1>2, <1>3, <1>4, <1>5

LEMMA HttpDispatch ==
  ASSUME NEW c \in HttpConnections, NEW queue, queue # <<>>
  PROVE  LET d == Http!evhttp_request_dispatch(c, queue)
         IN  /\ d \in HttpConnections /\ d.state = "writing" /\ ~d.closedetect
             /\ d.retry_ev = c.retry_ev /\ d.read_more = c.read_more
  BY DEF HttpConnections, Http!States, Http!Bodies, Http!evhttp_request_dispatch,
         Http!evhttp_connection_stop_detectclose

\* The connection after the end of its first request: closed, or on its way to the next one.
LEMMA HttpFailFirstEffect ==
  ASSUME NEW c \in HttpConnections, ~c.closedetect, ~c.retry_ev, ~c.read_more, Http!FailFirst(c)
  PROVE  /\ evcon' \in HttpConnections /\ requests # <<>> /\ requests' = Tail(requests)
         /\ HttpSound(evcon', requests')
         /\ UNCHANGED <<free_evcon, evcon_freed, exited>>
<1> DEFINE reset == Http!evhttp_connection_reset_(c)
           dials == Http!evhttp_connection_connect_(reset)
<1>1. /\ reset \in HttpConnections /\ reset.state = "disconnected" /\ ~reset.read
      /\ ~reset.closedetect /\ ~reset.retry_ev /\ ~reset.read_more
  BY HttpFunctions
<1> HIDE DEF reset
<1>2. /\ dials \in HttpConnections /\ dials.state = "connecting" /\ ~dials.read
      /\ ~dials.closedetect /\ ~dials.retry_ev /\ ~dials.read_more
  BY <1>1, HttpFunctions
<1> HIDE DEF dials
<1>3. /\ requests # <<>> /\ requests' = Tail(requests)
      /\ evcon' = IF Tail(requests) = <<>> THEN reset ELSE dials
      /\ UNCHANGED <<free_evcon, evcon_freed, exited>>
  BY DEF Http!FailFirst, reset, dials
<1> QED
  BY <1>1, <1>2, <1>3 DEF HttpSound

LEMMA HttpDoneEffect ==
  ASSUME NEW c \in HttpConnections, ~c.closedetect, ~c.retry_ev, ~c.read_more,
         Http!evhttp_connection_done(c)
  PROVE  /\ evcon' \in HttpConnections /\ requests' = Tail(requests)
         /\ HttpSound(evcon', requests')
         /\ Http!Call(<<Head(requests)>>)
         /\ free_evcon' \in BOOLEAN /\ UNCHANGED <<evcon_freed, exited>>
<1> DEFINE rest == Tail(requests)
           closed == Http!evhttp_connection_reset_(c)
           idle == [c EXCEPT !.state = "idle"]
           dials == Http!evhttp_connection_connect_(closed)
           writing == Http!evhttp_request_dispatch(idle, rest)
           waiting == Http!evhttp_connection_start_detectclose(idle)
<1>1. /\ closed \in HttpConnections /\ closed.state = "disconnected" /\ ~closed.read
      /\ ~closed.closedetect /\ ~closed.retry_ev /\ ~closed.read_more
  BY HttpFunctions
<1>2. idle \in HttpConnections /\ idle.state = "idle" /\ ~idle.retry_ev /\ ~idle.read_more
  BY DEF HttpConnections, Http!States
<1> HIDE DEF closed, idle
<1>3. /\ dials \in HttpConnections /\ dials.state = "connecting" /\ ~dials.read
      /\ ~dials.closedetect /\ ~dials.retry_ev /\ ~dials.read_more
  BY <1>1, HttpFunctions
<1>4. rest # <<>> =>
        /\ writing \in HttpConnections /\ writing.state = "writing"
        /\ ~writing.closedetect /\ ~writing.retry_ev /\ ~writing.read_more
  BY <1>2, HttpDispatch
<1>5. /\ waiting \in HttpConnections /\ waiting.state = "idle"
      /\ waiting.closedetect /\ ~waiting.retry_ev /\ ~waiting.read_more
  BY <1>2, HttpFunctions
<1>6. c.autofree \in BOOLEAN
  BY DEF HttpConnections
<1>7. /\ requests' = rest
      /\ \/ rest # <<>> /\ evcon' = dials
         \/ rest # <<>> /\ evcon' = writing
         \/ rest = <<>> /\ evcon' = closed
         \/ rest = <<>> /\ evcon' = waiting
      /\ Http!Call(<<Head(requests)>>)
      /\ free_evcon' \in BOOLEAN /\ UNCHANGED <<evcon_freed, exited>>
  BY <1>6 DEF Http!evhttp_connection_done, closed, idle
<1> HIDE DEF dials, writing, waiting
<1>8. evcon' \in HttpConnections /\ HttpSound(evcon', rest)
  BY <1>1, <1>3, <1>4, <1>5, <1>7 DEF HttpSound
<1> QED
  BY <1>7, <1>8

\* The callback of the first request is called.
LEMMA HttpAnswerStep ==
  ASSUME HttpIInv, http_calling = <<>>, requests # <<>>, requests' = Tail(requests),
         Http!Call(<<Head(requests)>>), evcon' \in HttpConnections, HttpSound(evcon', requests'),
         free_evcon' \in BOOLEAN, UNCHANGED <<evcon_freed, exited>>
  PROVE  HttpIInv'
<1> DEFINE h == Head(requests)
<1>1. /\ h \in HttpRequest /\ Tail(requests) \in Seq(HttpRequest)
         /\ Http!IsInjective(Tail(requests))
      /\ Http!Contains(requests, h)
      /\ \A r : Http!Contains(Tail(requests), r) <=> Http!Contains(requests, r) /\ r # h
  BY HttpInvTypes, TailOnce
<1>2. /\ http_calling' = <<h>> /\ outcome' = [outcome EXCEPT ![h] = "answered"]
      /\ HttpRest(http_calling') = <<>> /\ HttpRest(http_calling) = <<>>
  BY DEF Http!Call, HttpRest
<1> HIDE DEF h
<1>3. Http!IsInjective(<<>>) /\ \A r : ~Http!Contains(<<>>, r)
  BY DEF Http!IsInjective, Http!Contains
<1>4. /\ outcome' \in [HttpRequest -> {"new", "made", "answered", "cancelled"}]
      /\ http_calling' \in Seq(HttpRequest)
  BY <1>1, <1>2, HttpInvTypes
<1>5. \A r \in HttpRequest : outcome'[r] = "made" <=> outcome[r] = "made" /\ r # h
  BY <1>1, <1>2, HttpInvTypes
<1>6. HttpOnce(requests', HttpRest(http_calling'), outcome')
  BY <1>1, <1>2, <1>3, <1>5 DEF HttpIInv, HttpOnce
<1> QED
  BY <1>1, <1>4, <1>6, HttpInvTypes DEF HttpIInv, Http!TypeOK, HttpConnections

\* evhttp_connection_fail_ with a request to fail
LEMMA HttpFailStep ==
  ASSUME HttpIInv, http_calling = <<>>, requests # <<>>, NEW c \in HttpConnections,
         ~c.closedetect, ~c.retry_ev, ~c.read_more, Http!evhttp_connection_fail_(c)
  PROVE  HttpIInv'
<1>1. Http!FailFirst(c) /\ Http!Call(<<Head(requests)>>)
  BY DEF Http!evhttp_connection_fail_, Http!FailNothing
<1> QED
  BY <1>1, HttpFailFirstEffect, HttpAnswerStep, HttpInvTypes

\* evhttp_connection_done
LEMMA HttpDoneStep ==
  ASSUME HttpIInv, http_calling = <<>>, requests # <<>>, NEW c \in HttpConnections,
         ~c.closedetect, ~c.retry_ev, ~c.read_more, Http!evhttp_connection_done(c)
  PROVE  HttpIInv'
  BY HttpDoneEffect, HttpAnswerStep

-----------------------------------------------------------------------------
(* The handlers.                                                           *)

\* A connection that works on a request, or that waits, is not idle and has one.
LEMMA HttpBusy ==
  ASSUME HttpIInv, evcon.state \notin {"disconnected", "idle"} \/ evcon.retry_ev
  PROVE  requests # <<>> /\ ~evcon.closedetect
  BY DEF HttpIInv, HttpSound

\* Nothing is due of a connection in any other state.
LEMMA HttpDue ==
  ASSUME HttpIInv, Beyond = {}, Http!Waiting
  PROVE  /\ http_calling = <<>> /\ ~evcon.read_more
         /\ evcon.state # "disconnected" => ~evcon.retry_ev
  BY DEF Http!Waiting, Http!Running, HttpIInv, HttpSound

LEMMA HttpConnectionMadeInv ==
  ASSUME HttpIInv, Beyond = {}, Http!ConnectionMade
  PROVE  HttpIInv'
<1> DEFINE c == [evcon EXCEPT !.state = "idle", !.retry_cnt = 0]
<1>1. evcon \in HttpConnections /\ evcon.state = "connecting" /\ retry_max \in Nat
  BY HttpInvTypes, ServicesAssumption DEF Http!ConnectionMade, Http!Waiting, Http!HttpAssumption
<1>2. requests # <<>> /\ ~evcon.retry_ev /\ ~evcon.read_more
  BY <1>1, HttpBusy, HttpDue DEF Http!ConnectionMade
<1>3. c \in HttpConnections /\ ~c.retry_ev /\ ~c.read_more
  <2>1. c.state \in Http!States /\ c.retry_cnt \in 0 .. retry_max
    BY <1>1 DEF HttpConnections, Http!States
  <2> QED
    BY <1>1, <1>2, <2>1 DEF HttpConnections
<1>4. Http!Only(Http!evhttp_request_dispatch(c, requests))
  BY DEF Http!ConnectionMade
<1> HIDE DEF c
<1> DEFINE d == Http!evhttp_request_dispatch(c, requests)
<1>5. /\ d \in HttpConnections /\ d.state = "writing" /\ ~d.closedetect
      /\ ~d.retry_ev /\ ~d.read_more
  BY <1>2, <1>3, HttpDispatch
<1> HIDE DEF d
<1>6. HttpSound(d, requests)
  BY <1>2, <1>5 DEF HttpSound
<1> QED
  BY <1>4, <1>5, <1>6, HttpOnlyStep DEF d

LEMMA HttpRetryInv ==
  ASSUME HttpIInv, Beyond = {}, Http!evhttp_connection_retry
  PROVE  HttpIInv'
<1> DEFINE c == [evcon EXCEPT !.retry_ev = FALSE, !.state = "disconnected"]
           d == Http!evhttp_connection_connect_(c)
<1>1. evcon \in HttpConnections /\ evcon.retry_ev /\ ~evcon.read_more
  BY HttpInvTypes, HttpDue DEF Http!evhttp_connection_retry
<1>2. requests # <<>> /\ ~evcon.closedetect
  BY <1>1, HttpBusy
<1>3. /\ c \in HttpConnections /\ c.state = "disconnected" /\ ~c.retry_ev
      /\ ~c.closedetect /\ ~c.read_more
  BY <1>1, <1>2 DEF HttpConnections, Http!States
<1>4. Http!Only(d)
  BY DEF Http!evhttp_connection_retry
<1> HIDE DEF c
<1>5. /\ d \in HttpConnections /\ d.state = "connecting" /\ ~d.read /\ ~d.closedetect
      /\ ~d.retry_ev /\ ~d.read_more
  BY <1>3, HttpFunctions
<1> HIDE DEF d
<1>6. HttpSound(d, requests)
  BY <1>2, <1>5 DEF HttpSound
<1> QED
  BY <1>4, <1>5, <1>6, HttpOnlyStep

\* evhttp_start_read_ while a request is written
LEMMA HttpStartReadInv ==
  ASSUME HttpIInv, evcon.state = "writing", NEW e \in BOOLEAN,
         Http!Only([Http!evhttp_start_read_(evcon) EXCEPT !.reading_error = e]) \/
         Http!Only(Http!evhttp_start_read_(evcon))
  PROVE  HttpIInv'
<1> DEFINE d == Http!evhttp_start_read_(evcon)
           f == [d EXCEPT !.reading_error = e]
<1>1. evcon \in HttpConnections /\ HttpSound(evcon, requests)
  BY HttpInvTypes
<1>2. /\ d \in HttpConnections /\ d.state = "reading_firstline" /\ ~d.closedetect /\ ~d.retry_ev
      /\ requests # <<>>
  BY <1>1, HttpFunctions DEF HttpSound
<1> HIDE DEF d
<1>3. /\ f \in HttpConnections /\ f.state = "reading_firstline" /\ ~f.closedetect /\ ~f.retry_ev
  BY <1>2 DEF HttpConnections
<1>4. HttpSound(d, requests) /\ HttpSound(f, requests)
  BY <1>2, <1>3 DEF HttpSound
<1> QED
  BY <1>2, <1>3, <1>4, HttpOnlyStep DEF d

\* A part of a response, or all of it
LEMMA HttpReadInv ==
  ASSUME HttpIInv, http_calling = <<>>, requests # <<>>, NEW c \in HttpConnections,
         c.state \in Http!Reading,
         ~c.closedetect, ~c.retry_ev, ~c.read_more, Http!ReadResponse(c)
  PROVE  HttpIInv'
<1>1. PICK s \in Http!Reading, b \in Http!Bodies \cup {"unknown"}, left \in BOOLEAN :
        LET d == [c EXCEPT !.state = s, !.body = b, !.input = left]
        IN  \/ Http!Only(d)
            \/ Http!evhttp_connection_fail_(d)
            \/ d.state = "reading_headers" /\ ~d.continued /\ Http!Only(Http!evhttp_start_write_(d))
            \/ Http!Complete(d) /\ Http!evhttp_connection_done(d)
  BY DEF Http!ReadResponse
<1> DEFINE d == [c EXCEPT !.state = s, !.body = b, !.input = left]
<1>2. /\ d \in HttpConnections /\ d.state \in Http!Reading
      /\ ~d.closedetect /\ ~d.retry_ev /\ ~d.read_more
  BY DEF HttpConnections, Http!States
<1> HIDE DEF d
<1>3. CASE Http!Only(d)
  BY <1>2, <1>3, HttpOnlyStep DEF HttpSound, Http!Reading
<1>4. CASE Http!Only(Http!evhttp_start_write_(d))
  <2> DEFINE e == Http!evhttp_start_write_(d)
  <2>1. /\ e \in HttpConnections /\ e.state = "writing" /\ ~e.closedetect /\ ~e.retry_ev
        /\ ~e.read_more
    BY <1>2, HttpFunctions
  <2> HIDE DEF e
  <2>2. HttpSound(e, requests)
    BY <2>1 DEF HttpSound
  <2> QED
    BY <1>4, <2>1, <2>2, HttpOnlyStep DEF e
<1> QED
  BY <1>1, <1>2, <1>3, <1>4, HttpFailStep, HttpDoneStep DEF d

LEMMA HttpDataInv ==
  ASSUME HttpIInv, Beyond = {}, Http!DataArrives \/ Http!evhttp_deferred_read_cb
  PROVE  HttpIInv'
<1>1. evcon \in HttpConnections /\ HttpSound(evcon, requests)
  BY HttpInvTypes
<1>2. CASE Http!DataArrives
  <2>1. /\ http_calling = <<>> /\ ~evcon.read_more /\ evcon.read /\ evcon.state # "idle"
    BY <1>2, HttpDue DEF Http!DataArrives
  <2>2. requests # <<>> /\ ~evcon.closedetect /\ ~evcon.retry_ev
        /\ evcon.state \in {"writing"} \cup Http!Reading
    BY <1>1, <2>1 DEF HttpSound, HttpConnections, Http!States
  <2>3. CASE evcon.state = "writing"
    <3> DEFINE c == [evcon EXCEPT !.input = TRUE]
    <3>1. Http!Only(c)
      BY <1>2, <2>3 DEF Http!DataArrives
    <3>2. /\ c \in HttpConnections /\ c.state = "writing" /\ ~c.closedetect /\ ~c.retry_ev
          /\ ~c.read_more
      BY <1>1, <2>1, <2>2, <2>3 DEF HttpConnections
    <3> HIDE DEF c
    <3>3. HttpSound(c, requests)
      BY <2>2, <3>2 DEF HttpSound
    <3> QED
      BY <3>1, <3>2, <3>3, HttpOnlyStep
  <2>4. CASE evcon.state # "writing"
    <3> DEFINE c == [evcon EXCEPT !.input = TRUE, !.read_more = FALSE]
    <3>1. Http!evhttp_read_cb(c)
      BY <1>2, <2>4 DEF Http!DataArrives
    <3>2. /\ c \in HttpConnections /\ c.state \in Http!Reading /\ ~c.closedetect /\ ~c.retry_ev
          /\ ~c.read_more
      BY <1>1, <2>2, <2>4 DEF HttpConnections
    <3> HIDE DEF c
    <3>3. Http!ReadResponse(c)
      BY <3>1, <3>2 DEF Http!evhttp_read_cb, Http!Reading
    <3> QED
      BY <2>1, <2>2, <3>2, <3>3, HttpReadInv
  <2> QED
    BY <2>3, <2>4
<1>3. CASE Http!evhttp_deferred_read_cb
  <2> DEFINE c == [evcon EXCEPT !.read_more = FALSE]
  <2>1. http_calling = <<>> /\ evcon.state = "reading_firstline" /\ Http!evhttp_read_cb(c)
    BY <1>1, <1>3 DEF Http!evhttp_deferred_read_cb, Http!Running, HttpSound
  <2>2. requests # <<>> /\ ~evcon.closedetect /\ ~evcon.retry_ev
    BY <1>1, <2>1 DEF HttpSound
  <2>3. /\ c \in HttpConnections /\ c.state \in Http!Reading /\ ~c.closedetect /\ ~c.retry_ev
        /\ ~c.read_more
    BY <1>1, <2>1, <2>2 DEF HttpConnections, Http!Reading
  <2> HIDE DEF c
  <2>4. Http!ReadResponse(c)
    BY <2>1, <2>3 DEF Http!evhttp_read_cb, Http!Reading
  <2> QED
    BY <2>1, <2>2, <2>3, <2>4, HttpReadInv
<1> QED
  BY <1>2, <1>3

LEMMA HttpNewSound == Http!New \in HttpConnections /\ HttpSound(Http!New, <<>>)
<1>1. 0 \in 0 .. retry_max
  BY ServicesAssumption DEF Http!HttpAssumption
<1> QED
  BY <1>1 DEF Http!New, HttpConnections, Http!States, Http!Bodies, HttpSound

\* A callback of those that come next is called.
LEMMA HttpAnswerOnce ==
  ASSUME NEW queue, NEW list \in Seq(HttpRequest), list # <<>>,
         NEW o \in [HttpRequest -> {"new", "made", "answered", "cancelled"}],
         HttpOnce(queue, list, o)
  PROVE  LET p == [o EXCEPT ![Head(list)] = "answered"]
         IN  /\ p \in [HttpRequest -> {"new", "made", "answered", "cancelled"}]
             /\ HttpOnce(queue, Tail(list), p)
<1> DEFINE h == Head(list)
           p == [o EXCEPT ![h] = "answered"]
<1>1. /\ h \in HttpRequest /\ Http!IsInjective(Tail(list)) /\ Http!Contains(list, h)
      /\ \A r : Http!Contains(Tail(list), r) <=> Http!Contains(list, r) /\ r # h
  BY TailOnce DEF HttpOnce
<1> HIDE DEF h
<1>2. /\ p \in [HttpRequest -> {"new", "made", "answered", "cancelled"}]
      /\ \A r \in HttpRequest : p[r] = "made" <=> o[r] = "made" /\ r # h
  BY <1>1
<1> HIDE DEF p
<1>3. HttpOnce(queue, Tail(list), p)
  BY <1>1, <1>2 DEF HttpOnce
<1> QED
  BY <1>2, <1>3 DEF p, h

\* Another attempt, or the end of all requests
LEMMA HttpCleanupInv ==
  ASSUME HttpIInv, http_calling = <<>>, requests # <<>>, evcon.state = "connecting",
         ~evcon.closedetect, ~evcon.retry_ev, ~evcon.read_more,
         Http!evhttp_connection_cb_cleanup(evcon)
  PROVE  HttpIInv'
<1> DEFINE closed == Http!evhttp_connection_reset_(evcon)
           c == [closed EXCEPT !.retry_ev = TRUE, !.retry_cnt = @ + 1]
<1>1. /\ closed \in HttpConnections /\ closed.state = "disconnected" /\ ~closed.read
      /\ ~closed.closedetect /\ ~closed.retry_ev /\ ~closed.read_more
      /\ closed.retry_cnt = evcon.retry_cnt
  BY HttpInvTypes, HttpFunctions
<1>2. \/ /\ evcon.retry_cnt < retry_max /\ evcon' = c
         /\ UNCHANGED <<requests, outcome, http_calling, free_evcon, evcon_freed, exited>>
      \/ /\ evcon' = closed /\ requests' = <<>> /\ Http!Call(requests)
         /\ UNCHANGED <<free_evcon, evcon_freed, exited>>
  BY DEF Http!evhttp_connection_cb_cleanup
<1> HIDE DEF closed
<1>3. CASE evcon.retry_cnt < retry_max /\ evcon' = c
           /\ UNCHANGED <<requests, outcome, http_calling, free_evcon, evcon_freed, exited>>
  <2>1. closed.retry_cnt + 1 \in 0 .. retry_max
    BY <1>1, <1>3, HttpInvTypes, ServicesAssumption DEF HttpConnections, Http!HttpAssumption
  <2>2. /\ c \in HttpConnections /\ c.state = "disconnected" /\ ~c.read /\ ~c.closedetect
        /\ c.retry_ev /\ ~c.read_more
    BY <1>1, <2>1 DEF HttpConnections
  <2> HIDE DEF c
  <2>3. HttpSound(c, requests) /\ Http!Only(c)
    BY <1>3, <2>2 DEF HttpSound, Http!Only
  <2> QED
    BY <2>2, <2>3, HttpOnlyStep
<1>4. CASE evcon' = closed /\ requests' = <<>> /\ Http!Call(requests)
           /\ UNCHANGED <<free_evcon, evcon_freed, exited>>
  <2>1. /\ http_calling' = requests /\ outcome' = [outcome EXCEPT ![Head(requests)] = "answered"]
        /\ HttpRest(http_calling) = <<>> /\ HttpRest(http_calling') = Tail(requests)
    BY <1>4 DEF Http!Call, HttpRest
  <2>2. HttpOnce(<<>>, requests, outcome)
    BY <2>1 DEF HttpIInv, HttpOnce
  <2>3. /\ outcome' \in [HttpRequest -> {"new", "made", "answered", "cancelled"}]
        /\ HttpOnce(<<>>, Tail(requests), outcome')
    BY <2>1, <2>2, HttpAnswerOnce, HttpInvTypes
  <2>4. HttpSound(evcon', requests')
    BY <1>1, <1>4 DEF HttpSound
  <2> QED
    BY <1>1, <1>4, <2>1, <2>3, <2>4, HttpInvTypes DEF HttpIInv, Http!TypeOK, HttpConnections
<1> QED
  BY <1>2, <1>3, <1>4

\* What is reported of a connection that has no request is the close of an idle one.
LEMMA HttpErrorInv ==
  ASSUME HttpIInv, Beyond = {}, Http!ErrorReported \/ Http!TimeLimit
  PROVE  HttpIInv'
<1>1. evcon \in HttpConnections /\ HttpSound(evcon, requests)
  BY HttpInvTypes
<1>2. http_calling = <<>> /\ ~evcon.read_more
  BY HttpDue DEF Http!ErrorReported, Http!TimeLimit
<1>3. PICK what \in Http!Reported(evcon) : Http!evhttp_error_cb(evcon, what)
  BY DEF Http!ErrorReported, Http!TimeLimit
<1>4. /\ evcon.state = "connecting" \/ evcon.state = "writing" \/ evcon.read
      /\ what = "write_error" => evcon.state = "writing"
  BY DEF Http!Reported
<1>5. CASE evcon.state = "idle"
  <2>1. evcon.closedetect /\ requests = <<>> /\ ~evcon.retry_ev
    BY <1>1, <1>5 DEF HttpSound
  <2>2. Http!CloseDetected(evcon)
    BY <1>3, <1>5, <2>1 DEF Http!evhttp_error_cb, Http!EndOfBody
  <2> DEFINE r == Http!evhttp_connection_reset_(evcon)
             c == [r EXCEPT !.closedetect = FALSE]
  <2>3. \/ Http!evhttp_connection_free /\ UNCHANGED <<outcome, http_calling, free_evcon>>
        \/ Http!Only(c)
    BY <1>5, <2>2 DEF Http!CloseDetected
  <2>4. CASE Http!Only(c)
    <3>1. /\ r \in HttpConnections /\ r.state = "disconnected" /\ ~r.read /\ ~r.retry_ev
          /\ ~r.read_more
      BY <1>1, <1>2, <2>1, HttpFunctions
    <3> HIDE DEF r
    <3>2. /\ c \in HttpConnections /\ c.state = "disconnected" /\ ~c.read /\ ~c.retry_ev
          /\ ~c.read_more /\ ~c.closedetect
      BY <3>1 DEF HttpConnections
    <3> HIDE DEF c
    <3>3. HttpSound(c, requests)
      BY <2>1, <3>2 DEF HttpSound
    <3> QED
      BY <2>4, <3>2, <3>3, HttpOnlyStep
  <2>5. CASE Http!evhttp_connection_free /\ UNCHANGED <<outcome, http_calling, free_evcon>>
    <3>1. evcon' = Http!New /\ Http!New \in HttpConnections /\ HttpSound(Http!New, <<>>)
      BY <2>5, HttpNewSound DEF Http!evhttp_connection_free
    <3>2. requests' = requests
      BY <2>1, <2>5 DEF Http!evhttp_connection_free
    <3> QED
      BY <2>1, <2>5, <3>1, <3>2
      DEF Http!evhttp_connection_free, HttpIInv, Http!TypeOK, HttpConnections
  <2> QED
    BY <2>3, <2>4, <2>5
<1>6. CASE evcon.state # "idle"
  <2>1. /\ evcon.state # "disconnected" /\ requests # <<>> /\ ~evcon.closedetect
        /\ ~evcon.retry_ev
    BY <1>1, <1>4, <1>6 DEF HttpSound
  <2>2. \/ evcon.state = "connecting" /\ Http!evhttp_connection_cb_cleanup(evcon)
        \/ Http!evhttp_connection_done(evcon)
        \/ evcon.state = "writing" /\ Http!evhttp_connection_read_on_write_error(evcon)
        \/ Http!evhttp_connection_fail_(evcon)
    BY <1>3, <1>4, <2>1 DEF Http!evhttp_error_cb
  <2>3. CASE evcon.state = "connecting" /\ Http!evhttp_connection_cb_cleanup(evcon)
    BY <1>2, <2>1, <2>3, HttpCleanupInv
  <2>4. CASE evcon.state = "writing" /\ Http!evhttp_connection_read_on_write_error(evcon)
    <3> DEFINE c == [evcon EXCEPT !.reading_error = FALSE]
    <3>1. /\ c \in HttpConnections /\ ~c.closedetect /\ ~c.retry_ev /\ ~c.read_more
      BY <1>1, <1>2, <2>1 DEF HttpConnections
    <3>2. \/ Http!evhttp_connection_fail_(c)
          \/ Http!Only([Http!evhttp_start_read_(evcon) EXCEPT !.reading_error = TRUE])
      BY <2>4 DEF Http!evhttp_connection_read_on_write_error
    <3> HIDE DEF c
    <3> QED
      BY <1>2, <2>1, <2>4, <3>1, <3>2, HttpFailStep, HttpStartReadInv
  <2> QED
    BY <1>1, <1>2, <2>1, <2>2, <2>3, <2>4, HttpFailStep, HttpDoneStep
<1> QED
  BY <1>5, <1>6

\* The callback of a request returns, and that of the next one is called.
LEMMA HttpReturnInv ==
  ASSUME HttpIInv, Http!CallbackReturns
  PROVE  HttpIInv'
<1> DEFINE list == Tail(http_calling)
<1>1. http_calling # <<>> /\ Http!Call(list) /\ free_evcon' = FALSE /\ list \in Seq(HttpRequest)
  BY HttpInvTypes DEF Http!CallbackReturns
<1>2. HttpOnce(requests, list, outcome)
  BY <1>1 DEF HttpIInv, HttpRest
<1>3. /\ http_calling' = list /\ outcome' \in [HttpRequest -> {"new", "made", "answered",
         "cancelled"}]
      /\ HttpOnce(requests, HttpRest(list), outcome')
  <2>1. CASE list = <<>>
    BY <1>1, <1>2, <2>1, HttpInvTypes DEF Http!Call, HttpRest
  <2>2. CASE list # <<>>
    <3>1. http_calling' = list /\ outcome' = [outcome EXCEPT ![Head(list)] = "answered"]
      BY <1>1, <2>2 DEF Http!Call
    <3>2. HttpRest(list) = Tail(list)
      BY <2>2 DEF HttpRest
    <3>3. list \in Seq(HttpRequest)
      BY <1>1
    <3> HIDE DEF list
    <3>4. /\ outcome' \in [HttpRequest -> {"new", "made", "answered", "cancelled"}]
          /\ HttpOnce(requests, Tail(list), outcome')
      BY <1>2, <2>2, <3>1, <3>3, HttpAnswerOnce, HttpInvTypes
    <3> QED
      BY <3>1, <3>2, <3>4
  <2> QED
    BY <2>1, <2>2
<1> HIDE DEF list
<1>4. CASE UNCHANGED <<evcon, requests, evcon_freed, exited>>
  BY <1>1, <1>3, <1>4 DEF HttpIInv, Http!TypeOK
<1>5. CASE requests = <<>> /\ Http!evhttp_connection_free
  <2>1. evcon' = Http!New /\ Http!New \in HttpConnections /\ HttpSound(Http!New, <<>>)
    BY <1>5, HttpNewSound DEF Http!evhttp_connection_free
  <2>2. requests' = requests
    BY <1>5 DEF Http!evhttp_connection_free
  <2> QED
    BY <1>1, <1>3, <1>5, <2>1, <2>2
    DEF Http!evhttp_connection_free, HttpIInv, Http!TypeOK, HttpConnections
<1> QED
  BY <1>4, <1>5 DEF Http!CallbackReturns

-----------------------------------------------------------------------------
(* The user.                                                               *)

\* The functions of the API find a connection that does not wait.
LEMMA HttpCalled ==
  ASSUME HttpIInv, Beyond = {}, Http!MayCall
  PROVE  evcon \in HttpConnections /\ ~evcon.retry_ev /\ ~evcon.read_more /\ ~evcon.losing
<1>1. evcon \in HttpConnections /\ ~evcon.retry_ev /\ ~evcon.read_more
  BY HttpInvTypes DEF Http!MayCall
<1>2. evcon.losing => "cancel_in_cleanup" \in Beyond
  BY <1>1 DEF HttpConnections
<1> QED
  BY <1>1, <1>2

LEMMA HttpMakeInv ==
  ASSUME HttpIInv, Beyond = {}, NEW r \in HttpRequest, Http!evhttp_make_request(r)
  PROVE  HttpIInv'
<1>1. /\ evcon \in HttpConnections /\ ~evcon.retry_ev /\ ~evcon.read_more /\ ~evcon.losing
      /\ HttpSound(evcon, requests)
  BY HttpInvTypes, HttpCalled DEF Http!evhttp_make_request
<1>2. /\ outcome[r] = "new" /\ outcome' = [outcome EXCEPT ![r] = "made"]
      /\ requests' = Append(requests, r) /\ UNCHANGED <<http_calling, free_evcon, evcon_freed>>
  BY <1>1 DEF Http!evhttp_make_request
<1>3. ~Http!Contains(requests, r) /\ ~Http!Contains(HttpRest(http_calling), r)
  BY <1>2 DEF HttpIInv, HttpOnce
<1>4. /\ requests' \in Seq(HttpRequest) /\ Http!IsInjective(requests') /\ requests' # <<>>
      /\ \A s : Http!Contains(requests', s) <=> Http!Contains(requests, s) \/ s = r
  BY <1>2, <1>3, HttpInvTypes, AppendOnce
<1>5. /\ outcome' \in [HttpRequest -> {"new", "made", "answered", "cancelled"}]
      /\ \A s \in HttpRequest : outcome'[s] = "made" <=> outcome[s] = "made" \/ s = r
  BY <1>2, HttpInvTypes
<1>6. HttpOnce(requests', HttpRest(http_calling'), outcome')
  BY <1>2, <1>3, <1>4, <1>5 DEF HttpIInv, HttpOnce, HttpRest
<1>7. evcon' \in HttpConnections /\ HttpSound(evcon', requests') /\ exited' = FALSE
  <2>1. CASE Http!evhttp_connected(evcon) /\ requests = <<>>
    <3>1. evcon.state = "idle"
      BY <1>1, <2>1 DEF HttpSound, Http!evhttp_connected
    <3> DEFINE d == Http!evhttp_request_dispatch(evcon, requests')
    <3>2. evcon' = d /\ exited' = FALSE
      BY <2>1, <3>1 DEF Http!evhttp_make_request
    <3>3. /\ d \in HttpConnections /\ d.state = "writing" /\ ~d.closedetect /\ ~d.retry_ev
          /\ ~d.read_more
      BY <1>1, <1>4, HttpDispatch
    <3> HIDE DEF d
    <3> QED
      BY <1>4, <3>2, <3>3 DEF HttpSound
  <2>2. CASE Http!evhttp_connected(evcon) /\ requests # <<>>
    BY <1>1, <1>4, <2>2 DEF Http!evhttp_make_request, HttpSound
  <2>3. CASE ~Http!evhttp_connected(evcon)
    <3> DEFINE d == Http!evhttp_connection_connect_(evcon)
    <3>1. evcon' = d /\ exited' = exited /\ exited = FALSE
      BY <2>3, HttpInvTypes DEF Http!evhttp_make_request, HttpIInv, Http!TypeOK
    <3>2. evcon.state \in {"disconnected", "connecting"}
      BY <2>3 DEF Http!evhttp_connected
    <3>3. /\ d \in HttpConnections /\ d.state = "connecting" /\ ~d.read
          /\ ~d.closedetect /\ ~d.retry_ev /\ ~d.read_more
      BY <1>1, <3>2, HttpFunctions DEF HttpSound
    <3> HIDE DEF d
    <3> QED
      BY <1>4, <3>1, <3>3 DEF HttpSound
  <2> QED
    BY <2>1, <2>2, <2>3
<1> QED
  BY <1>2, <1>4, <1>5, <1>6, <1>7, HttpInvTypes DEF HttpIInv, Http!TypeOK, HttpConnections

LEMMA HttpCancelInv ==
  ASSUME HttpIInv, Beyond = {}, NEW i \in DOMAIN requests, Http!evhttp_cancel_request(i)
  PROVE  HttpIInv'
<1> DEFINE r == requests[i]
<1>1. /\ evcon \in HttpConnections /\ ~evcon.retry_ev /\ ~evcon.read_more
      /\ HttpSound(evcon, requests)
  BY HttpInvTypes, HttpCalled DEF Http!evhttp_cancel_request
<1>2. requests # <<>> /\ r \in HttpRequest /\ ~evcon.closedetect /\ Head(requests) = requests[1]
  BY <1>1, HttpInvTypes DEF HttpSound
<1>3. outcome' = [outcome EXCEPT ![r] = "cancelled"] /\ UNCHANGED http_calling
  BY DEF Http!evhttp_cancel_request
<1> HIDE DEF r
<1>4. /\ requests' \in Seq(HttpRequest) /\ Http!IsInjective(requests') /\ Http!Contains(requests, r)
      /\ \A s : Http!Contains(requests', s) <=> Http!Contains(requests, s) /\ s # r
      /\ evcon' \in HttpConnections /\ HttpSound(evcon', requests')
      /\ UNCHANGED <<free_evcon, evcon_freed, exited>>
  <2>1. CASE i = 1
    <3>1. Http!FailFirst(evcon) /\ r = Head(requests)
      BY <1>2, <2>1 DEF Http!evhttp_cancel_request, r
    <3>2. /\ evcon' \in HttpConnections /\ requests' = Tail(requests)
          /\ HttpSound(evcon', requests') /\ UNCHANGED <<free_evcon, evcon_freed, exited>>
      BY <1>1, <1>2, <3>1, HttpFailFirstEffect
    <3> QED
      BY <1>2, <3>1, <3>2, TailOnce, HttpInvTypes
  <2>2. CASE i # 1
    <3>1. requests' = Http!RemoveAt(requests, i) /\ UNCHANGED <<evcon, free_evcon, evcon_freed,
          exited>>
      BY <2>2 DEF Http!evhttp_cancel_request
    <3>2. /\ requests' \in Seq(HttpRequest) /\ Http!IsInjective(requests') /\ requests' # <<>>
          /\ Http!Contains(requests, r)
          /\ \A s : Http!Contains(requests', s) <=> Http!Contains(requests, s) /\ s # r
      BY <2>2, <3>1, RemoveOnce, HttpInvTypes DEF r
    <3> QED
      BY <1>1, <1>2, <3>1, <3>2 DEF HttpSound
  <2> QED
    BY <2>1, <2>2
<1>5. /\ outcome' \in [HttpRequest -> {"new", "made", "answered", "cancelled"}]
      /\ \A s \in HttpRequest : outcome'[s] = "made" <=> outcome[s] = "made" /\ s # r
  BY <1>2, <1>3, HttpInvTypes
<1>6. HttpOnce(requests', HttpRest(http_calling'), outcome')
  BY <1>2, <1>3, <1>4, <1>5 DEF HttpIInv, HttpOnce, HttpRest
<1> QED
  BY <1>3, <1>4, <1>5, <1>6, HttpInvTypes DEF HttpIInv, Http!TypeOK, HttpConnections

\* One of those whose callbacks come next, but not the last of them
LEMMA HttpCancelLaterInv ==
  ASSUME HttpIInv, Beyond = {}, NEW i \in DOMAIN http_calling, Http!CancelInCleanup(i)
  PROVE  HttpIInv'
<1> DEFINE r == http_calling[i]
           list == HttpRest(http_calling)
           j == i - 1
<1>1. /\ i \in 2 .. Len(http_calling) /\ i # Len(http_calling)
      /\ outcome' = [outcome EXCEPT ![r] = "cancelled"]
      /\ http_calling' = Http!RemoveAt(http_calling, i)
      /\ evcon' = [evcon EXCEPT !.losing = @ \/ FALSE]
      /\ UNCHANGED <<requests, free_evcon, evcon_freed, exited>>
  BY DEF Http!CancelInCleanup
<1>2. /\ evcon \in HttpConnections /\ ~evcon.losing /\ http_calling \in Seq(HttpRequest)
      /\ Len(http_calling) \in Nat
  BY HttpInvTypes, HttpCalled DEF Http!CancelInCleanup
<1>3. evcon' = evcon
  BY <1>1, <1>2 DEF HttpConnections
<1>4. /\ list = Tail(http_calling) /\ list \in Seq(HttpRequest) /\ j \in DOMAIN list
      /\ list[j] = r /\ r \in HttpRequest
  BY <1>1, <1>2 DEF HttpRest
<1>5. HttpRest(http_calling') = Http!RemoveAt(list, j) /\ http_calling' \in Seq(HttpRequest)
  <2> DEFINE s == http_calling
             t == Http!RemoveAt(list, j)
  <2>1. /\ Len(list) = Len(s) - 1 /\ \A k \in 1 .. Len(list) : list[k] = s[k + 1]
        /\ i \in 2 .. Len(s) - 1 /\ j = i - 1
    BY <1>1, <1>2, <1>4
  <2>2. /\ http_calling' \in Seq(HttpRequest) /\ Len(http_calling') = Len(s) - 1
        /\ \A k \in 1 .. Len(s) - 1 : http_calling'[k] = IF k < i THEN s[k] ELSE s[k + 1]
    BY <1>1, <1>2, <2>1, RemovedElements
  <2>3. /\ t \in Seq(HttpRequest) /\ Len(t) = Len(list) - 1
        /\ \A k \in 1 .. Len(list) - 1 : t[k] = IF k < j THEN list[k] ELSE list[k + 1]
    BY <1>4, RemovedElements
  <2> HIDE DEF t, list, j
  <2>4. /\ HttpRest(http_calling') = Tail(http_calling') /\ Tail(http_calling') \in Seq(HttpRequest)
        /\ Len(Tail(http_calling')) = Len(http_calling') - 1
        /\ \A k \in 1 .. Len(http_calling') - 1 : Tail(http_calling')[k] = http_calling'[k + 1]
    BY <1>2, <2>1, <2>2 DEF HttpRest
  <2>5. Len(t) = Len(Tail(http_calling'))
    BY <1>2, <2>1, <2>2, <2>3, <2>4
  <2>6. ASSUME NEW k \in 1 .. Len(t)
        PROVE  t[k] = Tail(http_calling')[k]
    <3>1. k + 1 \in 1 .. Len(s) - 1 /\ k \in 1 .. Len(list) - 1 /\ k \in 1 .. Len(list)
          /\ k \in 1 .. Len(http_calling') - 1 /\ (k < Len(list) => k + 1 \in 1 .. Len(list))
      BY <1>2, <2>1, <2>2, <2>3
    <3>2. Tail(http_calling')[k] = IF k + 1 < i THEN s[k + 1] ELSE s[k + 1 + 1]
      BY <2>2, <2>4, <3>1
    <3>3. t[k] = IF k < j THEN list[k] ELSE list[k + 1]
      BY <2>3, <3>1
    <3>4. list[k] = s[k + 1] /\ list[k + 1] = s[k + 1 + 1]
      <4>1. k + 1 \in 1 .. Len(list)
        BY <1>2, <2>1, <2>3
      <4> QED
        BY <2>1, <3>1, <4>1
    <3>5. k + 1 < i <=> k < j
      BY <1>2, <2>1
    <3> QED
      BY <3>2, <3>3, <3>4, <3>5
  <2>7. t = Tail(http_calling')
    BY <2>3, <2>4, <2>5, <2>6
  <2> QED
    BY <2>2, <2>4, <2>7 DEF t, list, j
<1> HIDE DEF r, list, j
<1>6. /\ Http!IsInjective(Http!RemoveAt(list, j)) /\ Http!Contains(list, r)
      /\ \A x : Http!Contains(Http!RemoveAt(list, j), x) <=> Http!Contains(list, x) /\ x # r
  BY <1>4, RemoveOnce DEF HttpIInv, HttpOnce, list
<1>7. /\ outcome' \in [HttpRequest -> {"new", "made", "answered", "cancelled"}]
      /\ \A x \in HttpRequest : outcome'[x] = "made" <=> outcome[x] = "made" /\ x # r
  BY <1>1, <1>4, HttpInvTypes
<1>8. HttpOnce(requests', HttpRest(http_calling'), outcome')
  BY <1>1, <1>5, <1>6, <1>7 DEF HttpIInv, HttpOnce, list
<1> QED
  BY <1>1, <1>3, <1>5, <1>7, <1>8 DEF HttpIInv, Http!TypeOK

LEMMA HttpFreeInv ==
  ASSUME HttpIInv, Http!user_connection_free
  PROVE  HttpIInv'
<1>1. /\ outcome' = [r \in HttpRequest |-> IF Http!Contains(requests,
         r) THEN "cancelled" ELSE outcome[r]]
      /\ evcon' = Http!New /\ requests' = <<>> /\ evcon_freed' = TRUE
      /\ UNCHANGED <<exited, http_calling, free_evcon>>
  BY DEF Http!user_connection_free, Http!evhttp_connection_free
<1>2. Http!IsInjective(<<>>) /\ \A r : ~Http!Contains(<<>>, r)
  BY DEF Http!IsInjective, Http!Contains
<1>3. /\ outcome' \in [HttpRequest -> {"new", "made", "answered", "cancelled"}]
      /\ \A r \in HttpRequest : outcome'[r] = "made" <=> outcome[r] = "made"
         /\ ~Http!Contains(requests, r)
  BY <1>1, HttpInvTypes
<1>4. HttpOnce(requests', HttpRest(http_calling'), outcome')
  BY <1>1, <1>2, <1>3 DEF HttpIInv, HttpOnce, HttpRest
<1> QED
  BY <1>1, <1>3, <1>4, HttpNewSound, HttpInvTypes DEF HttpIInv, Http!TypeOK, HttpConnections

LEMMA HttpOnCompletionInv ==
  ASSUME HttpIInv, Http!evhttp_connection_free_on_completion
  PROVE  HttpIInv'
<1> DEFINE c == [evcon EXCEPT !.autofree = TRUE]
<1>1. Http!Only(c)
  BY DEF Http!evhttp_connection_free_on_completion
<1>2. /\ c \in HttpConnections /\ c.state = evcon.state /\ c.closedetect = evcon.closedetect
      /\ c.retry_ev = evcon.retry_ev /\ c.read_more = evcon.read_more /\ c.read = evcon.read
  BY HttpInvTypes DEF HttpConnections
<1> HIDE DEF c
<1>3. HttpSound(c, requests)
  BY <1>2, HttpInvTypes DEF HttpSound
<1> QED
  BY <1>1, <1>2, <1>3, HttpOnlyStep

-----------------------------------------------------------------------------
LEMMA HttpInitInv == Http!Init => HttpIInv
<1> SUFFICES ASSUME Http!Init
             PROVE  HttpIInv
  OBVIOUS
<1>1. Http!IsInjective(<<>>) /\ \A r : ~Http!Contains(<<>>, r)
  BY DEF Http!IsInjective, Http!Contains
<1>2. HttpOnce(requests, HttpRest(http_calling), outcome)
  BY <1>1 DEF Http!Init, HttpOnce, HttpRest
<1>3. evcon = Http!New /\ requests = <<>> /\ http_calling = <<>> /\ ~exited
  BY DEF Http!Init
<1>4. evcon \in HttpConnections /\ HttpSound(evcon, requests)
  BY <1>3, HttpNewSound
<1>5. /\ requests \in Seq(HttpRequest) /\ http_calling \in Seq(HttpRequest)
      /\ free_evcon \in BOOLEAN /\ evcon_freed \in BOOLEAN /\ exited \in BOOLEAN
  <2>1. requests = <<>> /\ http_calling = <<>> /\ <<>> \in Seq(HttpRequest)
    BY DEF Http!Init
  <2>2. free_evcon \in BOOLEAN /\ evcon_freed \in BOOLEAN /\ exited \in BOOLEAN
    BY DEF Http!Init
  <2> QED
    BY <2>1, <2>2
<1>6. outcome \in [HttpRequest -> {"new", "made", "answered", "cancelled"}]
  BY DEF Http!Init
<1>7. Http!TypeOK
  BY <1>4, <1>5, <1>6 DEF Http!TypeOK, HttpConnections
<1> QED
  BY <1>2, <1>3, <1>4, <1>7 DEF HttpIInv

LEMMA HttpNextInv ==
  ASSUME HttpIInv, Beyond = {}, [Http!Next]_(Http!vars)
  PROVE  HttpIInv'
<1>1. CASE Http!UserCalls
  BY <1>1, HttpMakeInv, HttpCancelInv, HttpCancelLaterInv, HttpFreeInv, HttpOnCompletionInv
  DEF Http!UserCalls
<1>2. CASE Http!evhttp_write_connectioncb
  BY <1>2, HttpStartReadInv DEF Http!evhttp_write_connectioncb
<1>3. CASE Http!Handlers
  BY <1>2, <1>3, HttpConnectionMadeInv, HttpRetryInv, HttpDataInv, HttpErrorInv DEF Http!Handlers
<1>4. CASE UNCHANGED Http!vars
  BY <1>4 DEF Http!vars, HttpIInv, Http!TypeOK, HttpSound, HttpOnce
<1> QED
  BY <1>1, <1>3, <1>4, HttpReturnInv DEF Http!Next

\* What the invariant says of the two queues is MadeOnce.
LEMMA HttpImplied == HttpIInv => Http!ConnectionOK
<1> SUFFICES ASSUME HttpIInv
             PROVE  Http!ConnectionOK
  OBVIOUS
<1>1. Http!NoForgottenRequest /\ Http!NothingStale
  BY DEF HttpIInv, HttpSound, Http!NoForgottenRequest, Http!NothingStale
<1>2. Http!MadeOnce
  <2>1. HttpRest(http_calling) \in Seq(HttpRequest) /\ requests \in Seq(HttpRequest)
    BY HttpInvTypes DEF HttpRest
  <2>2. /\ Http!IsInjective(requests \o HttpRest(http_calling))
        /\ \A r \in HttpRequest : Http!Contains(requests \o HttpRest(http_calling), r) <=>
                                Http!Contains(requests,
                                  r) \/ Http!Contains(HttpRest(http_calling), r)
    BY <2>1, ConcatOnce DEF HttpIInv, HttpOnce
  <2> QED
    BY <2>2 DEF HttpIInv, HttpOnce, Http!MadeOnce, HttpRest
<1> QED
  BY <1>1, <1>2 DEF Http!ConnectionOK, HttpIInv

\* http.c alone: the part of the theorem at the end that is about a connection.
THEOREM HttpConnectionAlwaysOK ==
  ASSUME Beyond = {}
  PROVE  Http!Spec => []Http!ConnectionOK
<1>1. HttpIInv /\ [Http!Next]_(Http!vars) => HttpIInv'
  BY HttpNextInv
<1> QED
  BY <1>1, HttpInitInv, HttpImplied, PTL DEF Http!Spec
-----------------------------------------------------------------------------
(* The parts together                                                      *)

\* bufferevent_ratelim.c, for any number of members and any limits: a group whose bucket is
\* exhausted is suspended, and a member is suspended only while the group is, or while the group
\* remembers that it has to resume it.
THEOREM GroupStaysOK ==
  ASSUME configured_min_share > 0
  PROVE  FairSpec => []GroupOK
<1>1. Group!Spec => []Group!GroupOK
  BY ServicesAssumption, GroupGroupAlwaysOK DEF ServicesAssumption, GroupAssumption
<1>2. [Next]_vars => [Group!Next]_(Group!vars)
  BY DEF Next, ListenerNext, GroupNext, BuffereventsNext, ResolverNext, HttpNext, vars, groupVars,
         Group!vars, Group!group
<1>3. Init => Group!Init
  BY DEF Init
<1>4. Group!GroupOK => GroupOK
  BY DEF GroupOK
<1> QED
  BY <1>1, <1>2, <1>3, <1>4, PTL DEF FairSpec, Spec, Group!Spec

\* listener.c and http.c, for any number of threads, requests and attempts, but without what
\* Beyond names: a server that sends on an idle connection, a call between two attempts to
\* connect, an event before the deferred callback of evhttp_start_read_, and a callback of
\* evhttp_connection_cb_cleanup that cancels the last request of its list, after which http.c
\* does forget requests.  Nothing of a listener is used after its last
\* reference is dropped, and its event is pending exactly when its flags say so, whatever the
\* threads call while listener_read_cb runs the user's callback without the lock.  No assertion
\* of an evhttp_connection fails, its first request is worked on, and none is answered twice.
THEOREM ConnectionsStayOK ==
  ASSUME Beyond = {}
  PROVE  FairSpec => []ConnectionsOK
<1>1. Lev!Spec => []Lev!ListenerOK
  BY ServicesAssumption, LevListenerAlwaysOK DEF ServicesAssumption, LevAssumption
<1>2. Http!Spec => []Http!ConnectionOK
  BY HttpConnectionAlwaysOK
<1>3. [Next]_vars => [Lev!Next]_(Lev!vars)
  BY DEF Next, ListenerNext, GroupNext, BuffereventsNext, ResolverNext, HttpNext, vars,
         listenerVars, Lev!vars, Lev!lev, Lev!event
<1>4. [Next]_vars => [Http!Next]_(Http!vars)
  BY DEF Next, ListenerNext, GroupNext, BuffereventsNext, ResolverNext, HttpNext, vars,
         httpVars, Http!vars
<1>5. Init => Lev!Init /\ Http!Init
  BY DEF Init
<1>6. Lev!ListenerOK /\ Http!ConnectionOK => ConnectionsOK
  BY DEF ConnectionsOK
<1> QED
  BY <1>1, <1>2, <1>3, <1>4, <1>5, <1>6, PTL DEF FairSpec, Spec, Lev!Spec, Http!Spec
=============================================================================
