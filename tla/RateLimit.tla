----------------------------- MODULE RateLimit -----------------------------
(***************************************************************************)
(* bufferevent_ratelim.c: the token buckets of one bufferevent, its        *)
(* suspension for bandwidth in each direction and the refill event that    *)
(* both directions share.                                                  *)
(*                                                                         *)
(* Every call holds the lock of the bufferevent; the loop takes the refill *)
(* event out of its queue before bev_refill_callback_ has that lock.  A    *)
(* tick counter wraps after 2^32 ticks, longer than any run: a difference  *)
(* is above INT_MAX exactly if it is negative.                             *)
(***************************************************************************)
EXTENDS Integers

CONSTANTS
  Cfg,         \* configurations: records of rate, maximum and len, the length of a tick
  Rate, Maximum, Len,   \* their fields
  NoCfg,       \* no configuration
  Never,       \* no deadline
  MaxTime,     \* bound of the clock
  MaxDebt      \* bound of what the user takes from a bucket, or adds to it, at once

RateLimitAssumption ==
  /\ NoCfg \notin Cfg
  /\ \A c \in Cfg : Rate[c] \in Nat \ {0} /\ Maximum[c] \in Nat /\ Len[c] \in Nat \ {0}
                    /\ Rate[c] <= Maximum[c]
  /\ MaxTime \in Nat \ {0} /\ MaxDebt \in Nat /\ Never \notin Nat

VARIABLES
  now,
  cfg,
  limit,         \* read_limit and write_limit
  last_updated,  \* in ticks of the configuration of that time
  suspended,     \* the directions with BEV_SUSPEND_BW
  refill,        \* when refill_bucket_event is due
  called,        \* the loop runs it, before the lock
  since          \* when tokens were last added (not in the code)

vars == <<now, cfg, limit, last_updated, suspended, refill, called, since>>

Kind == {"read", "write"}

Init ==
  /\ now \in 0..1
  /\ cfg = NoCfg
  /\ limit = [k \in Kind |-> 0] /\ last_updated = 0
  /\ suspended = {} /\ refill = Never /\ called = FALSE
  /\ since = now

-----------------------------------------------------------------------------
(* Buckets                                                                 *)

ev_token_bucket_get_tick_(c) == now \div Len[c]

\* A bucket to which n ticks add.  Above the maximum, where only the user can bring it, the
\* unsigned difference is huge and nothing is clipped.
Refilled(l, c, n) ==
  IF l <= Maximum[c] /\ (Maximum[c] - l) \div n < Rate[c]
  THEN Maximum[c]
  ELSE l + n * Rate[c]

\* Fault: the tick of the update is not recorded when a bucket is below zero.
UpdateInDebt(tick) ==
  IF tick > last_updated
  THEN /\ limit' = [k \in Kind |-> IF limit[k] < 0 THEN limit[k]
                                   ELSE Refilled(limit[k], cfg, tick - last_updated)]
       /\ last_updated' = tick
       /\ since' = now
  ELSE UNCHANGED <<limit, last_updated, since>>

ev_token_bucket_update_(tick) ==
  IF tick > last_updated
  THEN /\ limit' = [k \in Kind |-> Refilled(limit[k], cfg, tick - last_updated)]
       /\ last_updated' = tick
       /\ since' = now
  ELSE UNCHANGED <<limit, last_updated, since>>

ev_token_bucket_init_(c, reinitialize) ==
  IF reinitialize
  THEN /\ limit' = [k \in Kind |-> IF limit[k] > Maximum[c] THEN Maximum[c] ELSE limit[k]]
       /\ UNCHANGED <<last_updated, since>>
  ELSE /\ limit' = [k \in Kind |-> Rate[c]]
       /\ last_updated' = ev_token_bucket_get_tick_(c)
       /\ since' = now

-----------------------------------------------------------------------------
(* Calls                                                                   *)

Exhausted(l) == {k \in Kind : l[k] <= 0}

\* A configuration, or another one.
SetConfiguration(c) ==
  /\ cfg' = c
  /\ ev_token_bucket_init_(c, cfg # NoCfg)
  /\ suspended' = Exhausted(limit')
  /\ refill' = IF Exhausted(limit') = {} THEN Never ELSE now + Len[c]

bufferevent_set_rate_limit(c) ==
  /\ c # cfg
  /\ IF c = NoCfg
     THEN /\ cfg' = NoCfg
          /\ suspended' = {} /\ refill' = Never
          /\ UNCHANGED <<limit, last_updated, since>>
     ELSE SetConfiguration(c)
  /\ UNCHANGED <<now, called>>

\* Fault: the refill event is deleted though the other direction waits for it.
DirectionResumes(k, l) ==
  /\ limit' = l
  /\ IF l[k] <= 0
     THEN /\ suspended' = suspended \cup {k}
          /\ refill' = now + Len[cfg]
     ELSE /\ suspended' = suspended \ {k}
          /\ refill' = IF k \in suspended THEN Never ELSE refill

\* Fault: a bucket is exhausted when it is overdrawn.
DirectionOverdrawn(k, l) ==
  /\ limit' = l
  /\ IF l[k] < 0
     THEN /\ suspended' = suspended \cup {k}
          /\ refill' = now + Len[cfg]
     ELSE /\ suspended' = suspended \ {k}
          /\ refill' = IF suspended = {k} THEN Never ELSE refill

\* The bucket of a direction has changed to l: suspend, or resume.
DirectionChecked(k, l) ==
  /\ limit' = l
  /\ IF l[k] <= 0
     THEN /\ suspended' = suspended \cup {k}
          /\ refill' = now + Len[cfg]
     ELSE /\ suspended' = suspended \ {k}
          /\ refill' = IF suspended = {k} THEN Never ELSE refill

\* Whoever asks how much may be moved updates the buckets.
bufferevent_update_buckets ==
  /\ cfg # NoCfg
  /\ ev_token_bucket_update_(ev_token_bucket_get_tick_(cfg))
  /\ UNCHANGED <<now, cfg, suspended, refill, called>>

\* A handler that may run has moved what the bucket allows, or less.
bufferevent_decrement_buckets_(k, bytes) ==
  /\ cfg # NoCfg /\ k \notin suspended
  /\ bytes <= limit[k]
  /\ DirectionChecked(k, [limit EXCEPT ![k] = @ - bytes])
  /\ UNCHANGED <<now, cfg, last_updated, since, called>>

\* bufferevent_decrement_read_limit and _write_limit: only a change of sign counts.
bufferevent_decrement_limit(k, decr) ==
  LET l == [limit EXCEPT ![k] = @ - decr]
  IN  /\ cfg # NoCfg
      /\ l[k] \in -MaxDebt..(Maximum[cfg] + MaxDebt)
      /\ IF (limit[k] > 0) # (l[k] > 0)
         THEN DirectionChecked(k, l)
         ELSE limit' = l /\ UNCHANGED <<suspended, refill>>
      /\ UNCHANGED <<now, cfg, last_updated, since, called>>

-----------------------------------------------------------------------------
(* The loop                                                                *)

Tick ==
  /\ now < MaxTime
  /\ now' = now + 1
  /\ UNCHANGED <<cfg, limit, last_updated, suspended, refill, called, since>>

RefillDue ==
  /\ ~called /\ refill # Never /\ refill <= now
  /\ called' = TRUE /\ refill' = Never
  /\ UNCHANGED <<now, cfg, limit, last_updated, suspended, since>>

bev_refill_callback_ ==
  /\ called /\ called' = FALSE
  /\ IF cfg = NoCfg
     THEN UNCHANGED <<limit, last_updated, since, suspended, refill>>
     ELSE /\ ev_token_bucket_update_(ev_token_bucket_get_tick_(cfg))
          /\ suspended' = suspended \cap Exhausted(limit')
          /\ refill' = IF suspended' # {} THEN now + Len[cfg] ELSE refill
  /\ UNCHANGED <<now, cfg>>

Next ==
  \/ Tick
  \/ \E c \in Cfg \cup {NoCfg} : bufferevent_set_rate_limit(c)
  \/ bufferevent_update_buckets
  \/ \E k \in Kind :
       \/ \E bytes \in 1..MaxDebt : bufferevent_decrement_buckets_(k, bytes)
       \/ \E decr \in -MaxDebt..MaxDebt \ {0} : bufferevent_decrement_limit(k, decr)
  \/ RefillDue \/ bev_refill_callback_

Spec == Init /\ [][Next]_vars

-----------------------------------------------------------------------------
TypeOK ==
  /\ now \in 0..MaxTime /\ since \in 0..MaxTime
  /\ cfg \in Cfg \cup {NoCfg}
  /\ limit \in [Kind -> Int] /\ last_updated \in 0..now
  /\ suspended \subseteq Kind
  /\ refill \in Nat \cup {Never} /\ called \in BOOLEAN

\* A direction that is suspended will be looked at again: the refill event, which both
\* share, is in the base or runs, whatever the other direction, the user and a change of
\* the configuration did with it.
RefillScheduled == suspended # {} => refill # Never \/ called

\* Nothing moves on an empty bucket: its direction is suspended, and none is without limits.
ExhaustedIsSuspended ==
  IF cfg = NoCfg THEN suspended = {} ELSE Exhausted(limit) \subseteq suspended

\* A direction stops when its bucket is empty, and will be looked at again.
BucketsOK == TypeOK /\ RefillScheduled /\ ExhaustedIsSuspended

\* "the next update will add the appropriate amount of bandwidth to the bucket": when the
\* refill callback runs a tick or more after tokens were added, more are added, as far as
\* the bucket has room.
UpdateAddsBandwidth ==
  [][called /\ ~called' /\ cfg # NoCfg /\ now >= since + Len[cfg] =>
       \A k \in Kind : limit'[k] > limit[k] \/ limit'[k] = Maximum[cfg]]_vars
=============================================================================
