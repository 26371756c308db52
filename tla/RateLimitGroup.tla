--------------------------- MODULE RateLimitGroup ---------------------------
(***************************************************************************)
(* bufferevent_ratelim.c: a group of bufferevents with one bucket, in one  *)
(* direction; the other is the same code.                                  *)
(*                                                                         *)
(* The lock of the group nests inside those of its members, so whoever has *)
(* the group tries the locks of the members and goes on without one that   *)
(* it does not get.  A section under the lock of the group is a step; what *)
(* a member does under its own lock, before and after, are other steps.    *)
(***************************************************************************)
EXTENDS Integers, FiniteSets

CONSTANTS
  Bev,
  Rate, Maximum,
  configured_min_share,
  MaxDebt,      \* bound of what the user takes from the bucket, or adds to it, at once
  MaxCalls      \* bound of the operations that begin

RateLimitGroupAssumption ==
  /\ Rate \in Nat \ {0} /\ Maximum \in Nat /\ Rate <= Maximum
  /\ configured_min_share \in Nat /\ MaxDebt \in Nat /\ MaxCalls \in Nat

VARIABLES
  read_limit,
  read_suspended, pending_unsuspend_read,
  members,
  suspended,   \* the bufferevents with BEV_SUSPEND_BW_GROUP
  op,          \* what the owner of its lock does with a bufferevent
  saved,       \* rsuspend of bufferevent_add_to_rate_limit_group
  calls

group == <<read_limit, read_suspended, pending_unsuspend_read>>
vars == <<group, members, suspended, op, saved, calls>>

Init ==
  /\ read_limit = Rate
  /\ read_suspended = FALSE /\ pending_unsuspend_read = FALSE
  /\ members = {} /\ suspended = {}
  /\ op = [b \in Bev |-> "none"]
  /\ saved = [b \in Bev |-> FALSE]
  /\ calls = 0

min_share == IF configured_min_share > Rate THEN Rate ELSE configured_min_share

\* The members whose locks the thread that has bufferevent b, or none, gets.
Lockable(own) == {b \in members : op[b] = "none" \/ b \in own}

Begin(b, what) ==
  /\ op[b] = "none" /\ calls < MaxCalls
  /\ op' = [op EXCEPT ![b] = what]
  /\ calls' = calls + 1

End(b) == op' = [op EXCEPT ![b] = "none"] /\ UNCHANGED calls

-----------------------------------------------------------------------------
(* Suspending the group                                                    *)

bev_group_suspend_reading_(own) ==
  /\ read_suspended' = TRUE
  /\ pending_unsuspend_read' = FALSE
  /\ suspended' = suspended \cup Lockable(own)

\* Fault: a member that cannot be locked is forgotten.
UnsuspendOnce(own) ==
  /\ read_suspended' = FALSE
  /\ pending_unsuspend_read' = FALSE
  /\ suspended' = suspended \ Lockable(own)

bev_group_unsuspend_reading_(own) ==
  /\ read_suspended' = FALSE
  /\ pending_unsuspend_read' = (Lockable(own) # members)
  /\ suspended' = suspended \ Lockable(own)

Unchanged == UNCHANGED <<read_suspended, pending_unsuspend_read, suspended>>

\* The loop calls bev_group_refill_callback_ every tick.
bev_group_refill_callback_ ==
  LET limit == IF read_limit + Rate > Maximum THEN Maximum ELSE read_limit + Rate
  IN  /\ read_limit' = limit
      /\ IF pending_unsuspend_read \/ (read_suspended /\ limit >= min_share)
         THEN bev_group_unsuspend_reading_({})
         ELSE Unchanged
      /\ UNCHANGED <<members, op, saved, calls>>

\* bufferevent_rate_limit_group_decrement_read: only a change of sign counts.  The user
\* does not fill the bucket above its maximum, where it would grow with every tick.
bufferevent_rate_limit_group_decrement_read(decr) ==
  LET limit == read_limit - decr
  IN  /\ calls < MaxCalls /\ calls' = calls + 1
      /\ limit <= Maximum
      /\ read_limit' = limit
      /\ IF read_limit > 0 /\ limit <= 0 THEN bev_group_suspend_reading_({})
         ELSE IF read_limit <= 0 /\ limit > 0 THEN bev_group_unsuspend_reading_({})
         ELSE Unchanged
      /\ UNCHANGED <<members, op, saved>>

-----------------------------------------------------------------------------
(* Members                                                                 *)

\* The lock of a bufferevent is taken for something else.
Hold(b) ==
  /\ Begin(b, "held")
  /\ UNCHANGED <<group, members, suspended, saved>>

Release(b) ==
  /\ op[b] = "held"
  /\ End(b)
  /\ UNCHANGED <<group, members, suspended, saved>>

\* A handler asks for its share: a member that was not suspended with its group is
\* suspended now, and reads nothing.
bufferevent_get_rlim_max_(b) ==
  /\ b \in members \ suspended
  /\ IF read_suspended
     THEN Begin(b, "held") /\ suspended' = suspended \cup {b}
     ELSE Begin(b, "reading") /\ UNCHANGED suspended
  /\ UNCHANGED <<group, members, saved>>

\* Fault: a bucket that is just empty is not exhausted.
DecrementOverdrawn(b, bytes) ==
  LET limit == read_limit - bytes
  IN  /\ op[b] = "reading"
      /\ read_limit' = limit
      /\ IF limit < 0 THEN bev_group_suspend_reading_({b})
         ELSE IF read_suspended THEN bev_group_unsuspend_reading_({b})
         ELSE Unchanged
      /\ End(b)
      /\ UNCHANGED <<members, saved>>

\* It has read, perhaps more than is left meanwhile.
bufferevent_decrement_read_buckets_(b, bytes) ==
  LET limit == read_limit - bytes
  IN  /\ op[b] = "reading"
      /\ read_limit' = limit
      /\ IF limit <= 0 THEN bev_group_suspend_reading_({b})
         ELSE IF read_suspended THEN bev_group_unsuspend_reading_({b})
         ELSE Unchanged
      /\ End(b)
      /\ UNCHANGED <<members, saved>>

\* It had nothing to read.
ReadNothing(b) ==
  /\ op[b] = "reading"
  /\ End(b)
  /\ UNCHANGED <<group, members, suspended, saved>>

\* bufferevent_add_to_rate_limit_group: what the group says is applied without its lock.
JoinGroup(b) ==
  /\ b \notin members
  /\ Begin(b, "joining")
  /\ members' = members \cup {b}
  /\ saved' = [saved EXCEPT ![b] = read_suspended]
  /\ UNCHANGED <<group, suspended>>

JoinedGroup(b) ==
  /\ op[b] = "joining"
  /\ suspended' = IF saved[b] THEN suspended \cup {b} ELSE suspended
  /\ saved' = [saved EXCEPT ![b] = FALSE]
  /\ End(b)
  /\ UNCHANGED <<group, members>>

bufferevent_remove_from_rate_limit_group(b) ==
  /\ b \in members
  /\ Begin(b, "held")
  /\ members' = members \ {b}
  /\ suspended' = suspended \ {b}
  /\ UNCHANGED <<group, saved>>

Finish(b) ==
  \/ Release(b) \/ ReadNothing(b) \/ JoinedGroup(b)
  \/ \E bytes \in 1..Maximum : bufferevent_decrement_read_buckets_(b, bytes)

Next ==
  \/ bev_group_refill_callback_
  \/ \E decr \in -MaxDebt..MaxDebt \ {0} : bufferevent_rate_limit_group_decrement_read(decr)
  \/ \E b \in Bev :
       \/ Hold(b) \/ bufferevent_get_rlim_max_(b) \/ JoinGroup(b)
       \/ bufferevent_remove_from_rate_limit_group(b)
       \/ Finish(b)

Spec == Init /\ [][Next]_vars

\* Ticks come, and what has been begun ends.
FairSpec ==
  /\ Spec
  /\ WF_vars(bev_group_refill_callback_)
  /\ \A b \in Bev : WF_vars(Finish(b))

-----------------------------------------------------------------------------
TypeOK ==
  /\ read_limit \in Int
  /\ {read_suspended, pending_unsuspend_read} \subseteq BOOLEAN
  /\ members \subseteq Bev /\ suspended \subseteq members
  /\ op \in [Bev -> {"none", "held", "reading", "joining"}]
  /\ saved \in [Bev -> BOOLEAN]
  /\ calls \in 0..MaxCalls

\* A member is suspended only while the group is, or while the group remembers that it
\* could not resume all of its members; so the next tick resumes it, even if its lock was
\* taken when the others were resumed, or while it was joining.
SuspensionRemembered == suspended # {} => read_suspended \/ pending_unsuspend_read

\* The members are suspended when the bucket is exhausted, but for those whose locks are
\* taken; and the group does not resume and suspend them at once.
ExhaustedIsSuspended ==
  /\ read_limit <= 0 => read_suspended
  /\ ~(read_suspended /\ pending_unsuspend_read)

\* A group and its members agree on who is suspended.
GroupOK == TypeOK /\ SuspensionRemembered /\ ExhaustedIsSuspended

\* When the traffic stops, no member stays suspended.
MembersResume == \A b \in Bev : b \in suspended ~> b \notin suspended
=============================================================================
