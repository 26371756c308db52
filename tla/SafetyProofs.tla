---------------------------- MODULE SafetyProofs ----------------------------
(***************************************************************************)
(* The token buckets, bufferevents and common timeouts, where the parts    *)
(* are put together: a step of another part leaves their variables alone.  *)
(* What is proved of bufferevents and of common timeouts is carried over;  *)
(* BucketsOK is proved here, for any configurations.                       *)
(***************************************************************************)
EXTENDS SafetyMC, TLAPS

-----------------------------------------------------------------------------
(* The token buckets.                                                      *)

LEMMA TickBound ==
  ASSUME NEW n \in Nat, NEW d \in Nat \ {0}
  PROVE  n \div d \in 0..n
  OBVIOUS

LEMMA TicksAdd ==
  ASSUME NEW n \in Nat, NEW r \in Nat
  PROVE  n * r \in Nat
  OBVIOUS

\* ev_token_bucket_update_ takes nothing out of a bucket, also when it clips.
LEMMA RefilledGrows ==
  ASSUME Buckets!RateLimitAssumption, NEW c \in Cfg, NEW l \in Int, NEW n \in Nat \ {0}
  PROVE  Buckets!Refilled(l, c, n) \in Int /\ Buckets!Refilled(l, c, n) >= l
<1>1. Rate[c] \in Nat /\ Maximum[c] \in Nat
  BY DEF Buckets!RateLimitAssumption
<1>2. n * Rate[c] \in Nat
  BY <1>1, TicksAdd
<1>3. CASE l <= Maximum[c] /\ (Maximum[c] - l) \div n < Rate[c]
  BY <1>1, <1>3 DEF Buckets!Refilled
<1>4. CASE ~(l <= Maximum[c] /\ (Maximum[c] - l) \div n < Rate[c])
  BY <1>2, <1>4 DEF Buckets!Refilled
<1> QED
  BY <1>3, <1>4

LEMMA BucketUpdateGrows ==
  ASSUME Buckets!RateLimitAssumption, Buckets!TypeOK, cfg \in Cfg,
         Buckets!ev_token_bucket_update_(Buckets!ev_token_bucket_get_tick_(cfg))
  PROVE  /\ limit' \in [Buckets!Kind -> Int]
         /\ \A k \in Buckets!Kind : limit'[k] >= limit[k]
         /\ last_updated' \in 0..buckets_now /\ since' \in 0..buckets_MaxTime
<1> DEFINE tick == Buckets!ev_token_bucket_get_tick_(cfg)
<1>1. tick \in 0..buckets_now
  BY TickBound DEF Buckets!RateLimitAssumption, Buckets!TypeOK, Buckets!ev_token_bucket_get_tick_
<1>2. CASE tick > last_updated
  <2>1. tick - last_updated \in Nat \ {0}
    BY <1>1, <1>2 DEF Buckets!TypeOK
  <2>2. \A k \in Buckets!Kind : /\ Buckets!Refilled(limit[k], cfg, tick - last_updated) \in Int
                                /\ Buckets!Refilled(limit[k], cfg, tick - last_updated) >= limit[k]
    BY <2>1, RefilledGrows DEF Buckets!TypeOK
  <2>3. /\ limit' = [k \in Buckets!Kind |-> Buckets!Refilled(limit[k], cfg, tick - last_updated)]
        /\ last_updated' = tick /\ since' = buckets_now
    BY <1>2 DEF Buckets!ev_token_bucket_update_
  <2> HIDE DEF tick
  <2> QED
    BY <1>1, <2>2, <2>3 DEF Buckets!TypeOK
<1>3. CASE ~(tick > last_updated)
  BY <1>3 DEF Buckets!ev_token_bucket_update_, Buckets!TypeOK
<1> QED
  BY <1>2, <1>3

\* A bucket that grows exhausts no other direction.
LEMMA GrowthExhaustsNone ==
  ASSUME Buckets!TypeOK, limit' \in [Buckets!Kind -> Int],
         \A k \in Buckets!Kind : limit'[k] >= limit[k]
  PROVE  Buckets!Exhausted(limit') \subseteq Buckets!Exhausted(limit)
  BY DEF Buckets!TypeOK, Buckets!Exhausted

\* A deadline is not Never.
LEMMA Deadline ==
  ASSUME Buckets!RateLimitAssumption, Buckets!TypeOK, NEW c \in Cfg
  PROVE  buckets_now + Len[c] \in Nat /\ buckets_now + Len[c] # Never
  BY DEF Buckets!RateLimitAssumption, Buckets!TypeOK

LEMMA BucketCheckedOK ==
  ASSUME Buckets!RateLimitAssumption, Buckets!BucketsOK, cfg \in Cfg, NEW k \in Buckets!Kind,
         NEW n \in Int,
         Buckets!DirectionChecked(k, [limit EXCEPT ![k] = n]),
         UNCHANGED <<buckets_now, cfg, last_updated, since, called>>
  PROVE  Buckets!BucketsOK'
<1>1. /\ limit' \in [Buckets!Kind -> Int] /\ limit'[k] = n
      /\ \A j \in Buckets!Kind \ {k} : limit'[j] = limit[j]
  BY DEF Buckets!DirectionChecked, Buckets!BucketsOK, Buckets!TypeOK
<1>2. Buckets!TypeOK'
  BY <1>1, Deadline DEF Buckets!DirectionChecked, Buckets!BucketsOK, Buckets!TypeOK
<1>3. Buckets!RefillScheduled'
  BY Deadline DEF Buckets!DirectionChecked, Buckets!BucketsOK, Buckets!RefillScheduled
<1>4. cfg' \in Cfg /\ cfg # NoCfg
  BY DEF Buckets!RateLimitAssumption
<1>5. Buckets!Exhausted(limit') \subseteq buckets_suspended'
  BY <1>1, <1>4 DEF Buckets!DirectionChecked, Buckets!BucketsOK, Buckets!ExhaustedIsSuspended,
                    Buckets!Exhausted
<1> QED
  BY <1>2, <1>3, <1>4, <1>5 DEF Buckets!BucketsOK, Buckets!ExhaustedIsSuspended

LEMMA BucketSetRateLimitOK ==
  ASSUME Buckets!RateLimitAssumption, Buckets!BucketsOK, NEW c \in Cfg \cup {NoCfg},
         Buckets!bufferevent_set_rate_limit(c)
  PROVE  Buckets!BucketsOK'
<1>1. CASE c = NoCfg
  BY <1>1 DEF Buckets!bufferevent_set_rate_limit, Buckets!BucketsOK, Buckets!TypeOK,
              Buckets!RefillScheduled,
              Buckets!ExhaustedIsSuspended
<1>2. CASE c # NoCfg
  <2>1. Buckets!SetConfiguration(c) /\ UNCHANGED <<buckets_now, called>> /\ c \in Cfg
    BY <1>2 DEF Buckets!bufferevent_set_rate_limit
  <2>2. /\ limit' \in [Buckets!Kind -> Int]
        /\ last_updated' \in 0..buckets_now /\ since' \in 0..buckets_MaxTime
    <3>1. Rate[c] \in Int /\ Maximum[c] \in Int
      BY <2>1 DEF Buckets!RateLimitAssumption
    <3>2. Buckets!ev_token_bucket_get_tick_(c) \in 0..buckets_now
      BY <2>1, TickBound DEF Buckets!RateLimitAssumption, Buckets!BucketsOK, Buckets!TypeOK,
                             Buckets!ev_token_bucket_get_tick_
    <3> QED
      BY <2>1, <3>1, <3>2
      DEF Buckets!SetConfiguration, Buckets!ev_token_bucket_init_, Buckets!BucketsOK, Buckets!TypeOK
  <2>3. buckets_suspended' = Buckets!Exhausted(limit') /\ cfg' = c
        /\ refill' = IF Buckets!Exhausted(limit') = {} THEN Never ELSE buckets_now + Len[c]
    BY <2>1 DEF Buckets!SetConfiguration
  <2>4. buckets_now + Len[c] \in Nat /\ buckets_now + Len[c] # Never
    BY <2>1, Deadline DEF Buckets!BucketsOK
  <2>5. Buckets!TypeOK'
    BY <2>1, <2>2, <2>3, <2>4 DEF Buckets!BucketsOK, Buckets!TypeOK, Buckets!Exhausted
  <2> QED
    BY <2>1, <2>3, <2>4, <2>5, <1>2
    DEF Buckets!BucketsOK, Buckets!RefillScheduled, Buckets!ExhaustedIsSuspended
<1> QED
  BY <1>1, <1>2

LEMMA BucketDecrementLimitOK ==
  ASSUME Buckets!RateLimitAssumption, Buckets!BucketsOK, NEW k \in Buckets!Kind, NEW decr \in Int,
         Buckets!bufferevent_decrement_limit(k, decr)
  PROVE  Buckets!BucketsOK'
<1>1. cfg \in Cfg
  BY DEF Buckets!bufferevent_decrement_limit, Buckets!BucketsOK, Buckets!TypeOK
<1>2. [limit EXCEPT ![k] = @ - decr] = [limit EXCEPT ![k] = limit[k] - decr]
      /\ limit[k] \in Int /\ limit[k] - decr \in Int
  BY DEF Buckets!BucketsOK, Buckets!TypeOK
<1> DEFINE l == [limit EXCEPT ![k] = limit[k] - decr]
<1>3. CASE (limit[k] > 0) # (l[k] > 0)
  BY <1>1, <1>2, <1>3, BucketCheckedOK DEF Buckets!bufferevent_decrement_limit
<1>4. CASE ~((limit[k] > 0) # (l[k] > 0))
  <2>1. /\ limit' = l /\ UNCHANGED <<buckets_suspended, refill>>
        /\ UNCHANGED <<buckets_now, cfg, last_updated, since, called>>
    BY <1>2, <1>4 DEF Buckets!bufferevent_decrement_limit
  <2>2. l \in [Buckets!Kind -> Int]
    BY <1>2 DEF Buckets!BucketsOK, Buckets!TypeOK
  <2>3. \A j \in Buckets!Kind : (l[j] > 0) = (limit[j] > 0)
    BY <1>2, <1>4 DEF Buckets!BucketsOK, Buckets!TypeOK
  <2>4. Buckets!Exhausted(l) = Buckets!Exhausted(limit)
    BY <2>2, <2>3 DEF Buckets!Exhausted, Buckets!BucketsOK, Buckets!TypeOK
  <2> QED
    BY <2>1, <2>2, <2>4 DEF Buckets!BucketsOK, Buckets!TypeOK, Buckets!RefillScheduled,
                            Buckets!ExhaustedIsSuspended, Buckets!Exhausted
<1> QED
  BY <1>3, <1>4

LEMMA BucketRefillCallbackOK ==
  ASSUME Buckets!RateLimitAssumption, Buckets!BucketsOK, Buckets!bev_refill_callback_
  PROVE  Buckets!BucketsOK'
<1>1. CASE cfg = NoCfg
  BY <1>1 DEF Buckets!bev_refill_callback_, Buckets!BucketsOK, Buckets!TypeOK,
              Buckets!RefillScheduled, Buckets!ExhaustedIsSuspended
<1>2. CASE cfg # NoCfg
  <2>1. cfg \in Cfg
    BY <1>2 DEF Buckets!BucketsOK, Buckets!TypeOK
  <2>2. /\ called' = FALSE /\ UNCHANGED <<buckets_now, cfg>>
        /\ Buckets!ev_token_bucket_update_(Buckets!ev_token_bucket_get_tick_(cfg))
        /\ buckets_suspended' = buckets_suspended \cap Buckets!Exhausted(limit')
        /\ refill' = IF buckets_suspended' # {} THEN buckets_now + Len[cfg] ELSE refill
    BY <1>2 DEF Buckets!bev_refill_callback_
  <2>3. /\ limit' \in [Buckets!Kind -> Int] /\ \A k \in Buckets!Kind : limit'[k] >= limit[k]
        /\ last_updated' \in 0..buckets_now /\ since' \in 0..buckets_MaxTime
    BY <2>1, <2>2, BucketUpdateGrows DEF Buckets!BucketsOK
  <2>4. Buckets!Exhausted(limit') \subseteq buckets_suspended
    BY <1>2, <2>3, GrowthExhaustsNone DEF Buckets!BucketsOK, Buckets!ExhaustedIsSuspended
  <2>5. buckets_now + Len[cfg] \in Nat /\ buckets_now + Len[cfg] # Never
    BY <2>1, Deadline DEF Buckets!BucketsOK
  <2>6. Buckets!TypeOK'
    BY <2>2, <2>3, <2>5 DEF Buckets!BucketsOK, Buckets!TypeOK
  <2> QED
    BY <1>2, <2>2, <2>4, <2>5, <2>6
    DEF Buckets!BucketsOK, Buckets!RefillScheduled, Buckets!ExhaustedIsSuspended
<1> QED
  BY <1>1, <1>2

LEMMA BucketsInit ==
  ASSUME Buckets!RateLimitAssumption, Buckets!Init
  PROVE  Buckets!BucketsOK
<1>1. /\ buckets_now \in 0..buckets_MaxTime /\ since \in 0..buckets_MaxTime
      /\ last_updated \in 0..buckets_now
  BY DEF Buckets!RateLimitAssumption, Buckets!Init
<1>2. limit \in [Buckets!Kind -> Int]
  BY DEF Buckets!Init
<1>3. /\ cfg \in Cfg \cup {NoCfg} /\ buckets_suspended \subseteq Buckets!Kind
      /\ refill \in Nat \cup {Never} /\ called \in BOOLEAN
  BY DEF Buckets!Init
<1> QED
  BY <1>1, <1>2, <1>3 DEF Buckets!Init, Buckets!BucketsOK, Buckets!TypeOK, Buckets!RefillScheduled,
                          Buckets!ExhaustedIsSuspended

LEMMA BucketsStep ==
  ASSUME Buckets!RateLimitAssumption, Buckets!BucketsOK, [Buckets!Next]_(Buckets!vars)
  PROVE  Buckets!BucketsOK'
<1>1. CASE Buckets!Tick
  BY <1>1 DEF Buckets!Tick, Buckets!RateLimitAssumption, Buckets!BucketsOK, Buckets!TypeOK,
              Buckets!RefillScheduled,
              Buckets!ExhaustedIsSuspended, Buckets!Exhausted
<1>2. CASE \E c \in Cfg \cup {NoCfg} : Buckets!bufferevent_set_rate_limit(c)
  BY <1>2, BucketSetRateLimitOK
<1>3. CASE Buckets!bufferevent_update_buckets
  <2>1. cfg \in Cfg
    BY <1>3 DEF Buckets!bufferevent_update_buckets, Buckets!BucketsOK, Buckets!TypeOK
  <2>2. /\ limit' \in [Buckets!Kind -> Int] /\ \A k \in Buckets!Kind : limit'[k] >= limit[k]
        /\ last_updated' \in 0..buckets_now /\ since' \in 0..buckets_MaxTime
    BY <1>3, <2>1, BucketUpdateGrows DEF Buckets!bufferevent_update_buckets, Buckets!BucketsOK
  <2>3. Buckets!Exhausted(limit') \subseteq Buckets!Exhausted(limit)
    BY <2>2, GrowthExhaustsNone DEF Buckets!BucketsOK
  <2> QED
    BY <1>3, <2>2, <2>3 DEF Buckets!bufferevent_update_buckets, Buckets!BucketsOK, Buckets!TypeOK,
                            Buckets!RefillScheduled,
                            Buckets!ExhaustedIsSuspended
<1>4. CASE \E k \in Buckets!Kind : \E bytes \in 1..MaxDebt :
             Buckets!bufferevent_decrement_buckets_(k, bytes)
  <2>1. PICK k \in Buckets!Kind, bytes \in 1..MaxDebt : Buckets!bufferevent_decrement_buckets_(k,
  bytes)
    BY <1>4
  <2>2. cfg \in Cfg /\ bytes \in Int /\ limit[k] \in Int
    BY <2>1 DEF Buckets!bufferevent_decrement_buckets_, Buckets!BucketsOK, Buckets!TypeOK,
                Buckets!RateLimitAssumption
  <2>3. [limit EXCEPT ![k] = @ - bytes] = [limit EXCEPT ![k] = limit[k] - bytes]
        /\ limit[k] - bytes \in Int
    BY <2>2 DEF Buckets!BucketsOK, Buckets!TypeOK
  <2> QED
    BY <2>1, <2>2, <2>3, BucketCheckedOK DEF Buckets!bufferevent_decrement_buckets_
<1>5. CASE \E k \in Buckets!Kind : \E decr \in -MaxDebt..MaxDebt \ {0} :
             Buckets!bufferevent_decrement_limit(k, decr)
  BY <1>5, BucketDecrementLimitOK DEF Buckets!RateLimitAssumption
<1>6. CASE Buckets!RefillDue
  BY <1>6 DEF Buckets!RefillDue, Buckets!BucketsOK, Buckets!TypeOK, Buckets!RefillScheduled,
              Buckets!ExhaustedIsSuspended, Buckets!Exhausted
<1>7. CASE Buckets!bev_refill_callback_
  BY <1>7, BucketRefillCallbackOK
<1>8. CASE UNCHANGED Buckets!vars
  BY <1>8 DEF Buckets!vars, Buckets!BucketsOK, Buckets!TypeOK, Buckets!RefillScheduled,
              Buckets!ExhaustedIsSuspended, Buckets!Exhausted
<1> QED
  BY <1>1, <1>2, <1>3, <1>4, <1>5, <1>6, <1>7, <1>8 DEF Buckets!Next

\* The steps of the composition are those of the buckets, or leave them alone.
LEMMA BucketSteps == [Next]_vars => [Buckets!Next]_(Buckets!vars)
<1>1. UNCHANGED bucketsVars => UNCHANGED Buckets!vars
  BY DEF bucketsVars, Buckets!vars
<1>2. TimeoutsNext \/ BuffersNext \/ BuffereventsNext \/ ResolverNext \/ UNCHANGED vars
        => UNCHANGED bucketsVars
  BY DEF TimeoutsNext, BuffersNext, BuffereventsNext, ResolverNext, vars
<1>3. BucketsNext => Buckets!Next
  BY DEF BucketsNext
<1> QED
  BY <1>1, <1>2, <1>3 DEF Next

LEMMA BucketsAssumed == Buckets!RateLimitAssumption
  BY SafetyAssumption

\* bufferevent_ratelim.c, for any configurations, whatever is taken from the buckets and for how
\* long they run: a direction with an empty bucket is suspended, and a suspended one is never
\* forgotten: the refill event is pending or its callback is about to run.
THEOREM BucketsStayOK == Spec => []BucketsOK
<1>1. Init => Buckets!BucketsOK
  BY BucketsAssumed, BucketsInit DEF Init
<1>2. Buckets!BucketsOK /\ [Next]_vars => Buckets!BucketsOK'
  BY BucketsAssumed, BucketsStep, BucketSteps
<1>3. Buckets!BucketsOK => BucketsOK
  BY DEF BucketsOK
<1> QED
  BY <1>1, <1>2, <1>3, PTL DEF Spec

-----------------------------------------------------------------------------
(* Ticks and bandwidth.                                                    *)

\* Ticks of one length: a time that is a length later is in a later tick.
LEMMA LaterTick ==
  ASSUME NEW d \in Nat \ {0}, NEW m \in Nat, NEW n \in Nat, n >= m + d
  PROVE  n \div d > m \div d
<1> DEFINE i == m \div d
           j == n \div d
<1>1. i \in Nat /\ j \in Nat
  OBVIOUS
<1>2. i * d <= m /\ n < (j + 1) * d
  OBVIOUS
<1> HIDE DEF i, j
<1>3. (i + 1) * d = i * d + d
  BY <1>1
<1>4. (i + 1) * d < (j + 1) * d
  BY <1>1, <1>2, <1>3
<1>5. ASSUME j <= i
      PROVE  FALSE
  <2>1. i - j \in Nat /\ (i + 1) * d = (j + 1) * d + (i - j) * d
    BY <1>1, <1>5
  <2>2. (i - j) * d \in Nat
    BY <2>1, TicksAdd
  <2> QED
    BY <1>1, <1>4, <2>1, <2>2
<1>6. j > i
  BY <1>1, <1>5
<1> QED
  BY <1>6 DEF i, j

\* If the ticks of all configurations have one length, the last update lies in the tick in
\* which tokens were last added, or before it.
BucketUpdatedInTime(length) == last_updated <= since \div length

\* What an update of the buckets and a new configuration leave of it.
LEMMA BucketUpdateInTime ==
  ASSUME Buckets!RateLimitAssumption, Buckets!TypeOK, NEW c \in Cfg, BucketUpdatedInTime(Len[c]),
         \/ Buckets!ev_token_bucket_update_(Buckets!ev_token_bucket_get_tick_(c))
         \/ \E again \in BOOLEAN : Buckets!ev_token_bucket_init_(c, again)
  PROVE  BucketUpdatedInTime(Len[c])'
<1>1. CASE UNCHANGED <<last_updated, since>>
  BY <1>1 DEF BucketUpdatedInTime
<1>2. CASE last_updated' = buckets_now \div Len[c] /\ since' = buckets_now
  <2>1. buckets_now \div Len[c] \in Int
    BY TickBound DEF Buckets!RateLimitAssumption, Buckets!TypeOK
  <2> QED
    BY <1>2, <2>1 DEF BucketUpdatedInTime
<1> QED
  BY <1>1, <1>2 DEF Buckets!ev_token_bucket_update_, Buckets!ev_token_bucket_init_,
                    Buckets!ev_token_bucket_get_tick_

LEMMA BucketInTimeStep ==
  ASSUME Buckets!RateLimitAssumption, Buckets!BucketsOK, [Buckets!Next]_(Buckets!vars), NEW length,
         \A c \in Cfg : Len[c] = length, BucketUpdatedInTime(length)
  PROVE  BucketUpdatedInTime(length)'
<1>1. Buckets!TypeOK
  BY DEF Buckets!BucketsOK
<1>2. CASE UNCHANGED <<last_updated, since>>
  BY <1>2 DEF BucketUpdatedInTime
<1>3. ASSUME NEW c \in Cfg,
             \/ Buckets!ev_token_bucket_update_(Buckets!ev_token_bucket_get_tick_(c))
             \/ \E again \in BOOLEAN : Buckets!ev_token_bucket_init_(c, again)
      PROVE  BucketUpdatedInTime(length)'
  <2>1. Len[c] = length
    BY <1>3
  <2> QED
    BY <1>1, <1>3, <2>1, BucketUpdateInTime
<1>4. CASE \E c \in Cfg \cup {NoCfg} : Buckets!bufferevent_set_rate_limit(c)
  <2>1. PICK c \in Cfg \cup {NoCfg} : Buckets!bufferevent_set_rate_limit(c)
    BY <1>4
  <2>2. CASE c = NoCfg
    BY <1>2, <2>1, <2>2 DEF Buckets!bufferevent_set_rate_limit
  <2>3. CASE c # NoCfg
    <3>1. c \in Cfg /\ Buckets!ev_token_bucket_init_(c, cfg # NoCfg)
      BY <2>1, <2>3 DEF Buckets!bufferevent_set_rate_limit, Buckets!SetConfiguration
    <3> QED
      BY <1>3, <3>1
  <2> QED
    BY <2>2, <2>3
<1>5. CASE Buckets!bufferevent_update_buckets \/ Buckets!bev_refill_callback_
  <2>1. cfg = NoCfg => UNCHANGED <<last_updated, since>>
    BY <1>5 DEF Buckets!bufferevent_update_buckets, Buckets!bev_refill_callback_
  <2>2. cfg # NoCfg => /\ cfg \in Cfg
                       /\ Buckets!ev_token_bucket_update_(Buckets!ev_token_bucket_get_tick_(cfg))
    BY <1>1, <1>5 DEF Buckets!bufferevent_update_buckets, Buckets!bev_refill_callback_,
                      Buckets!TypeOK
  <2> QED
    BY <1>2, <1>3, <2>1, <2>2
<1>6. CASE \/ Buckets!Tick \/ Buckets!RefillDue \/ UNCHANGED Buckets!vars
           \/ \E k \in Buckets!Kind :
                \/ \E bytes \in 1..MaxDebt : Buckets!bufferevent_decrement_buckets_(k, bytes)
                \/ \E decr \in -MaxDebt..MaxDebt \ {0} :
                     Buckets!bufferevent_decrement_limit(k, decr)
  BY <1>2, <1>6 DEF Buckets!Tick, Buckets!RefillDue, Buckets!vars,
                    Buckets!bufferevent_decrement_buckets_,
                    Buckets!bufferevent_decrement_limit
<1> QED
  BY <1>4, <1>5, <1>6 DEF Buckets!Next

\* What a tick or more adds to a bucket, which may be in debt.
LEMMA RefilledMore ==
  ASSUME Buckets!RateLimitAssumption, NEW c \in Cfg, NEW l \in Int, NEW n \in Nat \ {0}
  PROVE  Buckets!Refilled(l, c, n) > l \/ Buckets!Refilled(l, c, n) = Maximum[c]
<1>1. Rate[c] \in Nat \ {0}
  BY DEF Buckets!RateLimitAssumption
<1>2. n * Rate[c] = Rate[c] + (n - 1) * Rate[c] /\ (n - 1) * Rate[c] \in Nat
  BY <1>1, TicksAdd
<1> QED
  BY <1>1, <1>2 DEF Buckets!Refilled

\* bufferevent_ratelim.c 57-59, for any configurations whose ticks have one length: when the
\* refill callback runs a tick or more after tokens were added, it adds more, also to a bucket in
\* debt, as far as there is room.
THEOREM UpdatesAlwaysAdd ==
  ASSUME \A c, d \in Cfg : Len[c] = Len[d]
  PROVE  Spec => UpdateAddsBandwidth
<1> DEFINE length == Len[CHOOSE c \in Cfg : TRUE]
           Step == called /\ ~called' /\ cfg # NoCfg /\ buckets_now >= since + Len[cfg] =>
                     \A k \in Buckets!Kind : limit'[k] > limit[k] \/ limit'[k] = Maximum[cfg]
           Inv == Buckets!BucketsOK /\ (Cfg # {} => BucketUpdatedInTime(length))
<1>1. \A c \in Cfg : Len[c] = length
  OBVIOUS
<1>2. Cfg # {} => length \in Nat \ {0}
  BY <1>1, BucketsAssumed DEF Buckets!RateLimitAssumption
<1> HIDE DEF length
<1>3. Init => Inv
  <2> SUFFICES ASSUME Buckets!Init
               PROVE  Inv
    BY DEF Init
  <2>1. ASSUME Cfg # {}
        PROVE  BucketUpdatedInTime(length)
    <3>1. since \in Nat /\ last_updated = 0
      BY DEF Buckets!Init
    <3> QED
      BY <1>2, <2>1, <3>1, TickBound DEF BucketUpdatedInTime
  <2> QED
    BY <2>1, BucketsAssumed, BucketsInit
<1>4. Inv /\ [Buckets!Next]_(Buckets!vars) => Inv'
  BY <1>1, BucketsAssumed, BucketsStep, BucketInTimeStep
<1>5. Inv /\ [Buckets!Next]_(Buckets!vars) => [Step]_(Buckets!vars)
  <2> SUFFICES ASSUME Inv, Buckets!Next, called, ~called', cfg # NoCfg,
                      buckets_now >= since + Len[cfg]
               PROVE  \A k \in Buckets!Kind : limit'[k] > limit[k] \/ limit'[k] = Maximum[cfg]
    OBVIOUS
  <2>1. cfg \in Cfg /\ buckets_now \in Nat /\ since \in Nat /\ last_updated \in Nat
        /\ \A k \in Buckets!Kind : limit[k] \in Int
    BY BucketsAssumed DEF Buckets!BucketsOK, Buckets!TypeOK, Buckets!RateLimitAssumption
  <2>2. Buckets!bev_refill_callback_
    BY DEF Buckets!Next, Buckets!Tick, Buckets!bufferevent_set_rate_limit,
           Buckets!bufferevent_update_buckets,
           Buckets!bufferevent_decrement_buckets_, Buckets!bufferevent_decrement_limit,
           Buckets!RefillDue
  <2> DEFINE tick == Buckets!ev_token_bucket_get_tick_(cfg)
  <2>3. tick \in Nat /\ tick > last_updated
    <3>1. Len[cfg] = length /\ length \in Nat \ {0}
      BY <1>1, <1>2, <2>1
    <3>2. buckets_now \div length > since \div length
      BY <2>1, <3>1, LaterTick
    <3>3. buckets_now \div length \in Nat /\ since \div length \in Nat
      BY <2>1, <3>1, TickBound
    <3> QED
      BY <2>1, <3>1, <3>2, <3>3 DEF BucketUpdatedInTime, Buckets!ev_token_bucket_get_tick_
  <2> HIDE DEF tick
  <2>4. limit' = [k \in Buckets!Kind |-> Buckets!Refilled(limit[k], cfg, tick - last_updated)]
    BY <2>2, <2>3 DEF Buckets!bev_refill_callback_, Buckets!ev_token_bucket_update_, tick
  <2>5. tick - last_updated \in Nat \ {0}
    BY <2>1, <2>3
  <2> HIDE DEF Inv
  <2> QED
    BY <2>1, <2>4, <2>5, BucketsAssumed, RefilledMore
<1> QED
  BY <1>3, <1>4, <1>5, BucketSteps, PTL
  DEF Spec, UpdateAddsBandwidth, Buckets!UpdateAddsBandwidth

-----------------------------------------------------------------------------
(* Bufferevents: two parts of the run, which allow different calls.        *)

BevProofs == INSTANCE BuffereventProofs WITH
  ThreadApi <- {"enable", "disable", "write", "free"},
  CallbackApi <- {"setwatermark", "read", "suspend", "unsuspend", "free"},
  suspended <- bev_suspended, active <- bev_active, MaxData <- bev_MaxData

SharedProofs == INSTANCE BuffereventProofs WITH
  ThreadApi <- {"enable", "incref", "decref", "free"},
  CallbackApi <- {"read", "free"},
  suspended <- bev_suspended, active <- bev_active, MaxData <- bev_MaxData

\* The part "bufferevent" runs what is proved of bufferevents.
LEMMA BevAssumed == BevProofs!BuffereventAssumption /\ BevProofs!FreedByOwner
  BY SafetyAssumption DEF Bufferevents!BuffereventAssumption, BevProofs!BuffereventAssumption,
     Bufferevents!Api, BevProofs!Api, BevProofs!FreedByOwner,
     Bufferevents!IsFiniteSet, BevProofs!IsFiniteSet

\* Both instances have the same operators of the library.
LEMMA BevLeast == \A S : Bufferevents!Min(S) = BevProofs!Min(S)
  BY DEF Bufferevents!Min, BevProofs!Min

LEMMA BevCardinality == \A S : Bufferevents!Cardinality(S) = BevProofs!Cardinality(S)
  BY DEF Bufferevents!Cardinality, BevProofs!Cardinality

\* Each step of the part is one of the component.
LEMMA BevSteps == Bufferevents!Next => BevProofs!Next
  BY BevLeast
  DEF Bufferevents!bev, BevProofs!bev, Bufferevents!refs, BevProofs!refs, Bufferevents!queues,
      BevProofs!queues, Bufferevents!loop, BevProofs!loop, Bufferevents!vars, BevProofs!vars,
      Bufferevents!Kind, BevProofs!Kind, Bufferevents!Callbacks, BevProofs!Callbacks,
      Bufferevents!Callback, BevProofs!Callback, Bufferevents!Locked, BevProofs!Locked,
      Bufferevents!EventAdd, BevProofs!EventAdd, Bufferevents!EventDel, BevProofs!EventDel,
      Bufferevents!be_socket_disable, BevProofs!be_socket_disable,
      Bufferevents!bufferevent_suspend_, BevProofs!bufferevent_suspend_,
      Bufferevents!bufferevent_unsuspend_, BevProofs!bufferevent_unsuspend_,
      Bufferevents!bufferevent_inbuf_wm_cb, BevProofs!bufferevent_inbuf_wm_cb,
      Bufferevents!NoCallback, BevProofs!NoCallback, Bufferevents!SCHEDULE_DEFERRED,
      BevProofs!SCHEDULE_DEFERRED, Bufferevents!run_callback, BevProofs!run_callback,
      Bufferevents!finalize_many, BevProofs!finalize_many,
      Bufferevents!bufferevent_decref_and_unlock_, BevProofs!bufferevent_decref_and_unlock_,
      Bufferevents!bufferevent_enable, BevProofs!bufferevent_enable,
      Bufferevents!bufferevent_disable, BevProofs!bufferevent_disable,
      Bufferevents!bufferevent_write, BevProofs!bufferevent_write, Bufferevents!bufferevent_read,
      BevProofs!bufferevent_read, Bufferevents!bufferevent_setwatermark,
      BevProofs!bufferevent_setwatermark, Bufferevents!bufferevent_trigger,
      BevProofs!bufferevent_trigger, Bufferevents!Suspend, BevProofs!Suspend,
      Bufferevents!bufferevent_incref, BevProofs!bufferevent_incref,
      Bufferevents!bufferevent_decref, BevProofs!bufferevent_decref, Bufferevents!OwnerDecref,
      BevProofs!OwnerDecref, Bufferevents!bufferevent_free, BevProofs!bufferevent_free,
      Bufferevents!Call, BevProofs!Call, Bufferevents!ThreadCall, BevProofs!ThreadCall,
      Bufferevents!CallbackCall, BevProofs!CallbackCall, Bufferevents!Activate, BevProofs!Activate,
      Bufferevents!Pick, BevProofs!Pick, Bufferevents!HandlerError, BevProofs!HandlerError,
      Bufferevents!Nothing, BevProofs!Nothing, Bufferevents!bufferevent_readcb,
      BevProofs!bufferevent_readcb, Bufferevents!WriteOut, BevProofs!WriteOut,
      Bufferevents!bufferevent_writecb, BevProofs!bufferevent_writecb, Bufferevents!WriteConnected,
      BevProofs!WriteConnected, Bufferevents!Taken, BevProofs!Taken,
      Bufferevents!bufferevent_run_deferred_callbacks,
      BevProofs!bufferevent_run_deferred_callbacks, Bufferevents!CallbackReturns,
      BevProofs!CallbackReturns, Bufferevents!Done, BevProofs!Done,
      Bufferevents!bufferevent_finalize_cb_, BevProofs!bufferevent_finalize_cb_,
      Bufferevents!CallUnlocked, BevProofs!CallUnlocked,
      Bufferevents!Handler, BevProofs!Handler, Bufferevents!Next, BevProofs!Next

\* The invariant says of the part what the run checks.
LEMMA BevImplied == BevProofs!IInv => Bufferevents!BuffereventOK
<1>1. BevProofs!IInv => BevProofs!BuffereventOK
  BY BevAssumed, BevProofs!Implied
<1>2. BevProofs!BuffereventOK => Bufferevents!BuffereventOK
  BY BevCardinality
  DEF Bufferevents!BuffereventOK, BevProofs!BuffereventOK, Bufferevents!TypeOK, BevProofs!TypeOK,
      Bufferevents!NoUseAfterFree, BevProofs!NoUseAfterFree, Bufferevents!EventsFollowState,
      BevProofs!EventsFollowState, Bufferevents!WatermarkHolds, BevProofs!WatermarkHolds,
      Bufferevents!One, BevProofs!One, Bufferevents!Locked, BevProofs!Locked, Bufferevents!Kind,
      BevProofs!Kind, Bufferevents!Callback, BevProofs!Callback
<1> QED
  BY <1>1, <1>2

\* The part "shared bufferevent" runs what is proved of bufferevents.
LEMMA SharedAssumed == SharedProofs!BuffereventAssumption /\ SharedProofs!FreedByOwner
  BY SafetyAssumption
  DEF SharedBufferevents!BuffereventAssumption, SharedProofs!BuffereventAssumption,
     SharedBufferevents!Api, SharedProofs!Api, SharedProofs!FreedByOwner,
     SharedBufferevents!IsFiniteSet, SharedProofs!IsFiniteSet

\* Both instances have the same operators of the library.
LEMMA SharedLeast == \A S : SharedBufferevents!Min(S) = SharedProofs!Min(S)
  BY DEF SharedBufferevents!Min, SharedProofs!Min

LEMMA SharedCardinality == \A S : SharedBufferevents!Cardinality(S) = SharedProofs!Cardinality(S)
  BY DEF SharedBufferevents!Cardinality, SharedProofs!Cardinality

\* Each step of the part is one of the component.
LEMMA SharedSteps == SharedBufferevents!Next => SharedProofs!Next
  BY SharedLeast
  DEF SharedBufferevents!bev, SharedProofs!bev, SharedBufferevents!refs, SharedProofs!refs,
      SharedBufferevents!queues, SharedProofs!queues, SharedBufferevents!loop, SharedProofs!loop,
      SharedBufferevents!vars, SharedProofs!vars, SharedBufferevents!Kind, SharedProofs!Kind,
      SharedBufferevents!Callbacks, SharedProofs!Callbacks, SharedBufferevents!Callback,
      SharedProofs!Callback, SharedBufferevents!Locked, SharedProofs!Locked,
      SharedBufferevents!EventAdd, SharedProofs!EventAdd, SharedBufferevents!EventDel,
      SharedProofs!EventDel, SharedBufferevents!be_socket_disable, SharedProofs!be_socket_disable,
      SharedBufferevents!bufferevent_suspend_, SharedProofs!bufferevent_suspend_,
      SharedBufferevents!bufferevent_unsuspend_, SharedProofs!bufferevent_unsuspend_,
      SharedBufferevents!bufferevent_inbuf_wm_cb, SharedProofs!bufferevent_inbuf_wm_cb,
      SharedBufferevents!NoCallback, SharedProofs!NoCallback, SharedBufferevents!SCHEDULE_DEFERRED,
      SharedProofs!SCHEDULE_DEFERRED, SharedBufferevents!run_callback, SharedProofs!run_callback,
      SharedBufferevents!finalize_many, SharedProofs!finalize_many,
      SharedBufferevents!bufferevent_decref_and_unlock_,
      SharedProofs!bufferevent_decref_and_unlock_, SharedBufferevents!bufferevent_enable,
      SharedProofs!bufferevent_enable, SharedBufferevents!bufferevent_disable,
      SharedProofs!bufferevent_disable, SharedBufferevents!bufferevent_write,
      SharedProofs!bufferevent_write, SharedBufferevents!bufferevent_read,
      SharedProofs!bufferevent_read, SharedBufferevents!bufferevent_setwatermark,
      SharedProofs!bufferevent_setwatermark, SharedBufferevents!bufferevent_trigger,
      SharedProofs!bufferevent_trigger, SharedBufferevents!Suspend, SharedProofs!Suspend,
      SharedBufferevents!bufferevent_incref, SharedProofs!bufferevent_incref,
      SharedBufferevents!bufferevent_decref, SharedProofs!bufferevent_decref,
      SharedBufferevents!OwnerDecref, SharedProofs!OwnerDecref,
      SharedBufferevents!bufferevent_free, SharedProofs!bufferevent_free, SharedBufferevents!Call,
      SharedProofs!Call, SharedBufferevents!ThreadCall, SharedProofs!ThreadCall,
      SharedBufferevents!CallbackCall, SharedProofs!CallbackCall, SharedBufferevents!Activate,
      SharedProofs!Activate, SharedBufferevents!Pick, SharedProofs!Pick,
      SharedBufferevents!HandlerError, SharedProofs!HandlerError, SharedBufferevents!Nothing,
      SharedProofs!Nothing, SharedBufferevents!bufferevent_readcb, SharedProofs!bufferevent_readcb,
      SharedBufferevents!WriteOut, SharedProofs!WriteOut, SharedBufferevents!bufferevent_writecb,
      SharedProofs!bufferevent_writecb, SharedBufferevents!WriteConnected,
      SharedProofs!WriteConnected, SharedBufferevents!Taken, SharedProofs!Taken,
      SharedBufferevents!bufferevent_run_deferred_callbacks,
      SharedProofs!bufferevent_run_deferred_callbacks, SharedBufferevents!CallbackReturns,
      SharedProofs!CallbackReturns, SharedBufferevents!Done, SharedProofs!Done,
      SharedBufferevents!bufferevent_finalize_cb_, SharedProofs!bufferevent_finalize_cb_,
      SharedBufferevents!CallUnlocked, SharedProofs!CallUnlocked,
      SharedBufferevents!Handler, SharedProofs!Handler, SharedBufferevents!Next, SharedProofs!Next

\* The invariant says of the part what the run checks.
LEMMA SharedImplied == SharedProofs!IInv => SharedBufferevents!BuffereventOK
<1>1. SharedProofs!IInv => SharedProofs!BuffereventOK
  BY SharedAssumed, SharedProofs!Implied
<1>2. SharedProofs!BuffereventOK => SharedBufferevents!BuffereventOK
  BY SharedCardinality
  DEF SharedBufferevents!BuffereventOK, SharedProofs!BuffereventOK, SharedBufferevents!TypeOK,
      SharedProofs!TypeOK, SharedBufferevents!NoUseAfterFree, SharedProofs!NoUseAfterFree,
      SharedBufferevents!EventsFollowState, SharedProofs!EventsFollowState,
      SharedBufferevents!WatermarkHolds, SharedProofs!WatermarkHolds, SharedBufferevents!One,
      SharedProofs!One, SharedBufferevents!Locked, SharedProofs!Locked, SharedBufferevents!Kind,
      SharedProofs!Kind, SharedBufferevents!Callback, SharedProofs!Callback
<1> QED
  BY <1>1, <1>2

\* The property does not depend on the calls that are allowed.
LEMMA SharedImplies == SharedBufferevents!BuffereventOK => Bufferevents!BuffereventOK
  BY DEF SharedBufferevents!BuffereventOK, Bufferevents!BuffereventOK, SharedBufferevents!TypeOK,
         Bufferevents!TypeOK, SharedBufferevents!NoUseAfterFree, Bufferevents!NoUseAfterFree,
         SharedBufferevents!EventsFollowState, Bufferevents!EventsFollowState,
         SharedBufferevents!WatermarkHolds, Bufferevents!WatermarkHolds, SharedBufferevents!One,
         Bufferevents!One, SharedBufferevents!Locked, Bufferevents!Locked, SharedBufferevents!Kind,
         Bufferevents!Kind, SharedBufferevents!Callback, Bufferevents!Callback,
         SharedBufferevents!Cardinality, Bufferevents!Cardinality

\* The part that is run satisfies the invariant of bufferevents.
BevInv ==
  /\ part = "bufferevent" => BevProofs!IInv
  /\ part = "shared bufferevent" => SharedProofs!IInv

\* Both parts start right.
LEMMA BevInit == Init => BevInv
<1>1. Bufferevents!Init => BevProofs!Init /\ SharedProofs!Init
  BY DEF Bufferevents!Init, BevProofs!Init, SharedProofs!Init,
         Bufferevents!Kind, BevProofs!Kind, SharedProofs!Kind
<1> QED
  BY <1>1, BevAssumed, SharedAssumed, BevProofs!InitInv, SharedProofs!InitInv DEF Init, BevInv

\* A step of either part keeps its invariant; the steps of the others leave it alone.
LEMMA BevNext == BevInv /\ [Next]_vars => BevInv'
<1> SUFFICES ASSUME BevInv, [Next]_vars PROVE BevInv'
  OBVIOUS
<1>1. part' = part
  BY DEF Next, vars
<1>2. CASE UNCHANGED buffereventsVars
  <2>1. UNCHANGED BevProofs!vars /\ UNCHANGED SharedProofs!vars
    BY <1>2 DEF buffereventsVars, BevProofs!vars, BevProofs!bev, BevProofs!refs, BevProofs!queues,
       BevProofs!loop, SharedProofs!vars, SharedProofs!bev, SharedProofs!refs, SharedProofs!queues,
       SharedProofs!loop
  <2> QED
    BY <1>1, <2>1, BevAssumed, SharedAssumed, BevProofs!NextInv, SharedProofs!NextInv DEF BevInv
<1>3. CASE part = "bufferevent" /\ Bufferevents!Next
  BY <1>1, <1>3, BevSteps, BevAssumed, BevProofs!NextInv DEF BevInv
<1>4. CASE part = "shared bufferevent" /\ SharedBufferevents!Next
  BY <1>1, <1>4, SharedSteps, SharedAssumed, SharedProofs!NextInv DEF BevInv
<1> QED
  BY <1>2, <1>3, <1>4
  DEF Next, vars, TimeoutsNext, BuffersNext, BuffereventsNext, BucketsNext, ResolverNext

\* bufferevent.c and bufferevent_sock.c, for any threads and lengths of the buffers, in each mode
\* of the callbacks: references have their holders and the memory goes with the last one; the
\* events follow enabling, suspension and data; and reading is suspended for the watermark exactly
\* while the input has reached it.
THEOREM BuffereventStaysOK == Spec => []BuffereventOK
<1>1. BevInv => BuffereventOK
  BY BevImplied, SharedImplied, SharedImplies DEF BevInv, BuffereventOK, BuffereventParts
<1> QED
  BY <1>1, BevInit, BevNext, PTL DEF Spec

\* bufferevent.c, in the same circumstances: no callback of the user is chosen once
\* bufferevent_free has been called, also where one was due; and none is started then, but for
\* one that run_deferred_callbacks had already saved to call it without the lock.
THEOREM NeverCallsAfterFree == Spec => NoCallbackAfterFree
<1>1. ASSUME BevInv, [Next]_vars,
             \/ calling' # calling /\ calling' # "none" /\ calling' # chosen
             \/ chosen' # chosen /\ chosen' # "none"
      PROVE  owned
  <2>1. CASE part = "bufferevent" /\ Bufferevents!Next
    BY <1>1, <2>1, BevSteps, BevAssumed, BevProofs!CallbackIfOwned DEF BevInv
  <2>2. CASE part = "shared bufferevent" /\ SharedBufferevents!Next
    BY <1>1, <2>2, SharedSteps, SharedAssumed, SharedProofs!CallbackIfOwned DEF BevInv
  <2> QED
    BY <1>1, <2>1, <2>2 DEF Next, vars, buffereventsVars,
       TimeoutsNext, BuffersNext, BuffereventsNext, BucketsNext, ResolverNext
<1>2. BevInv /\ [Next]_vars
        => [/\ calling' # "none" /\ calling' # calling => owned \/ calling' = chosen
            /\ chosen' # "none" /\ chosen' # chosen => owned]_(Bufferevents!vars)
  BY <1>1
<1> QED
  BY <1>2, BevInit, BevNext, PTL DEF Spec, NoCallbackAfterFree, Bufferevents!NoCallbackAfterFree

-----------------------------------------------------------------------------
(* The common timeouts                                                     *)

TimeoutProofs == INSTANCE CommonTimeoutsProofs

\* Sequences, whose Len is a constant of the buckets above.
Seqs == INSTANCE Sequences

\* The assumptions of the common timeouts.
LEMMA TimeoutsAssumed == TimeoutProofs!CommonAssumption
  BY SafetyAssumption DEF Timeouts!CommonAssumption, TimeoutProofs!CommonAssumption

\* The functions of the component and of the module of its proofs are the same.
LEMMA TimeoutRemoval ==
  \A st, e : Timeouts!event_queue_remove_timeout(st, e)
               = TimeoutProofs!event_queue_remove_timeout(st, e)
<1>1. \A q, e : Timeouts!Unlinked(q, e) = TimeoutProofs!Unlinked(q, e)
  BY DEF Timeouts!Unlinked, TimeoutProofs!Unlinked, Timeouts!RemoveAt, TimeoutProofs!RemoveAt
<1> QED
  BY <1>1 DEF Timeouts!event_queue_remove_timeout, TimeoutProofs!event_queue_remove_timeout

\* So is the time by which the base goes, and are those that add to the heap,
LEMMA TimeoutClock ==
  Timeouts!gettime = TimeoutProofs!gettime /\ Timeouts!gettime' = TimeoutProofs!gettime'
  BY DEF Timeouts!gettime, TimeoutProofs!gettime

LEMMA TimeoutPlain ==
  \A st, e, time : Timeouts!AddPlain(st, e, time) = TimeoutProofs!AddPlain(st, e, time)
<1> SUFFICES ASSUME NEW st, NEW e, NEW time
             PROVE  Timeouts!AddPlain(st, e, time) = TimeoutProofs!AddPlain(st, e, time)
  OBVIOUS
<1>1. Timeouts!event_queue_remove_timeout(st, e) = TimeoutProofs!event_queue_remove_timeout(st, e)
  BY TimeoutRemoval
<1> QED
  BY <1>1, TimeoutClock, Zenon DEF Timeouts!AddPlain, TimeoutProofs!AddPlain

\* to a queue,
LEMMA TimeoutInsertion ==
  \A st, i, e : Timeouts!insert_common_timeout_inorder(st, i, e)
                  = TimeoutProofs!insert_common_timeout_inorder(st, i, e)
  BY DEF Timeouts!insert_common_timeout_inorder, TimeoutProofs!insert_common_timeout_inorder,
         Timeouts!InsertAt, TimeoutProofs!InsertAt

\* move the event of a queue,
LEMMA TimeoutSchedule ==
  \A st, i : Timeouts!common_timeout_schedule(st, i) = TimeoutProofs!common_timeout_schedule(st, i)
  BY TimeoutPlain DEF Timeouts!common_timeout_schedule, TimeoutProofs!common_timeout_schedule

\* and add in either way.
LEMMA TimeoutAdd ==
  \A st, e, tv, time : Timeouts!AddAt(st, e, tv, time) = TimeoutProofs!AddAt(st, e, tv, time)
<1>1. \A st, e, i, time :
        Timeouts!AddCommon(st, e, i, time) = TimeoutProofs!AddCommon(st, e, i, time)
  <2> SUFFICES ASSUME NEW st, NEW e, NEW i, NEW time
               PROVE  Timeouts!AddCommon(st, e, i, time) = TimeoutProofs!AddCommon(st, e, i, time)
    OBVIOUS
  <2> DEFINE r == Timeouts!event_queue_remove_timeout(st, e)
             t == [r EXCEPT !.timeout[e] = time, !.active = @ \ {e}]
             s == Timeouts!insert_common_timeout_inorder(t, i, e)
  <2>1. TimeoutProofs!event_queue_remove_timeout(st, e) = r
    BY TimeoutRemoval
  <2>2. TimeoutProofs!insert_common_timeout_inorder(t, i, e) = s
    BY TimeoutInsertion
  <2>3. TimeoutProofs!common_timeout_schedule(s, i) = Timeouts!common_timeout_schedule(s, i)
    BY TimeoutSchedule
  <2>4. Timeouts!AddCommon(st, e, i, time)
          = IF Seqs!Head(s.queues[i].events) = e
            THEN Timeouts!common_timeout_schedule(s, i) ELSE s
    BY DEF Timeouts!AddCommon
  <2>5. TimeoutProofs!AddCommon(st, e, i, time)
          = IF Seqs!Head(s.queues[i].events) = e
            THEN TimeoutProofs!common_timeout_schedule(s, i) ELSE s
    BY <2>1, <2>2, Zenon DEF TimeoutProofs!AddCommon
  <2> QED
    BY <2>3, <2>4, <2>5
<1> QED
  BY <1>1, TimeoutPlain DEF Timeouts!AddAt, TimeoutProofs!AddAt, Timeouts!IsCommon,
     TimeoutProofs!IsCommon,
         Timeouts!Plain, TimeoutProofs!Plain

\* The containers, the values and what is known of them.
LEMMA TimeoutValues ==
  /\ Timeouts!State = TimeoutProofs!State /\ Timeouts!Index = TimeoutProofs!Index
  /\ Timeouts!Timeval = TimeoutProofs!Timeval /\ Timeouts!Pending = TimeoutProofs!Pending
  /\ \A tv : Timeouts!Known(tv) = TimeoutProofs!Known(tv)
  /\ Timeouts!clocks = TimeoutProofs!clocks /\ Timeouts!wait = TimeoutProofs!wait
  BY DEF Timeouts!State, TimeoutProofs!State, Timeouts!Index, TimeoutProofs!Index,
     Timeouts!Timeval, TimeoutProofs!Timeval, Timeouts!Pending, TimeoutProofs!Pending,
     Timeouts!Known, TimeoutProofs!Known, Timeouts!clocks, TimeoutProofs!clocks, Timeouts!wait,
     TimeoutProofs!wait, Timeouts!Plain, TimeoutProofs!Plain, Timeouts!IsCommon, TimeoutProofs!IsCommon, Timeouts!QueueOf,
     TimeoutProofs!QueueOf, Timeouts!ToSet, TimeoutProofs!ToSet

\* Each step of the part is one of the component.
LEMMA TimeoutSteps == Timeouts!Next => TimeoutProofs!Next
<1> SUFFICES ASSUME Timeouts!Next PROVE TimeoutProofs!Next
  OBVIOUS
<1>1. ASSUME NEW d \in Duration, Timeouts!event_base_init_common_timeout(d)
      PROVE  TimeoutProofs!event_base_init_common_timeout(d)
  BY <1>1 DEF Timeouts!event_base_init_common_timeout, TimeoutProofs!event_base_init_common_timeout,
     Timeouts!clocks, TimeoutProofs!clocks, Timeouts!wait, TimeoutProofs!wait
<1>2. ASSUME NEW e \in Event, Timeouts!event_del(e) PROVE TimeoutProofs!event_del(e)
  BY <1>2, TimeoutValues, TimeoutRemoval DEF Timeouts!event_del, TimeoutProofs!event_del,
     Timeouts!Become, TimeoutProofs!Become, Timeouts!clocks, TimeoutProofs!clocks, Timeouts!wait, TimeoutProofs!wait
<1>3. ASSUME NEW e \in Event, NEW tv, Timeouts!event_add(e, tv) PROVE TimeoutProofs!event_add(e, tv)
  BY <1>3, TimeoutValues, TimeoutAdd, TimeoutClock DEF Timeouts!event_add,
     TimeoutProofs!event_add, Timeouts!Become, TimeoutProofs!Become, Timeouts!Notify,
     TimeoutProofs!Notify, Timeouts!clocks, TimeoutProofs!clocks, Timeouts!wait, TimeoutProofs!wait
<1>4. ASSUME NEW e \in Event, Timeouts!RunEvent(e) PROVE TimeoutProofs!RunEvent(e)
  BY <1>4, TimeoutValues, TimeoutAdd, TimeoutClock DEF Timeouts!RunEvent, TimeoutProofs!RunEvent,
     Timeouts!Become, TimeoutProofs!Become, Timeouts!RunAt, TimeoutProofs!RunAt,
     Timeouts!clocks, TimeoutProofs!clocks, Timeouts!wait, TimeoutProofs!wait
<1>5. ASSUME NEW i, Timeouts!common_timeout_callback(i)
      PROVE  TimeoutProofs!common_timeout_callback(i)
  <2> DEFINE q == queues[i].events
             n == CHOOSE k \in 0..Seqs!Len(q) :
                    /\ \A j \in 1..k : timeout[q[j]] <= Timeouts!gettime
                    /\ k < Seqs!Len(q) => timeout[q[k + 1]] > Timeouts!gettime
             st == [Timeouts!State EXCEPT
                      !.queues[i].events = Seqs!SubSeq(q, n + 1, Seqs!Len(q)),
                      !.active = (@ \ {i}) \cup { q[j] : j \in 1..n }]
             all == n = Seqs!Len(q)
  <2>1. /\ sleep = Awake /\ i \in active 
        /\ UNCHANGED <<Timeouts!clocks, interval, Timeouts!wait, notified>>
        /\ Timeouts!Become(IF all THEN st ELSE Timeouts!common_timeout_schedule(st, i))
    BY <1>5, Zenon DEF Timeouts!common_timeout_callback
  <2>2. TimeoutProofs!common_timeout_schedule(st, i) = Timeouts!common_timeout_schedule(st, i)
    BY TimeoutSchedule
  <2>3. TimeoutProofs!Become(IF all THEN st ELSE TimeoutProofs!common_timeout_schedule(st, i))
    <3>1. \A s : Timeouts!Become(s) => TimeoutProofs!Become(s)
      BY DEF Timeouts!Become, TimeoutProofs!Become
    <3> HIDE DEF q, n, st, all
    <3> QED
      BY <2>1, <2>2, <3>1
  <2> QED
    <3>1. TimeoutProofs!State = Timeouts!State
      BY TimeoutValues
    <3>2. UNCHANGED <<TimeoutProofs!clocks, interval, TimeoutProofs!wait, notified>>
      BY <2>1 DEF Timeouts!clocks, TimeoutProofs!clocks, Timeouts!wait, TimeoutProofs!wait
    <3> QED
      BY <2>1, <2>3, <3>1, <3>2, Zenon DEF TimeoutProofs!common_timeout_callback,
         Timeouts!gettime, TimeoutProofs!gettime
<1>6. Timeouts!event_base_update_cache_time => TimeoutProofs!event_base_update_cache_time
  BY DEF Timeouts!event_base_update_cache_time, TimeoutProofs!event_base_update_cache_time,
     Timeouts!clocks, TimeoutProofs!clocks, Timeouts!wait, TimeoutProofs!wait
<1>7. Timeouts!Sleep => TimeoutProofs!Sleep
  <2>1. Timeouts!timeout_next = TimeoutProofs!timeout_next
    BY Zenon DEF Timeouts!timeout_next, TimeoutProofs!timeout_next, Timeouts!gettime,
       TimeoutProofs!gettime
  <2> QED
    BY <2>1, TimeoutClock DEF Timeouts!Sleep, TimeoutProofs!Sleep
<1>8. Timeouts!Wake \/ Timeouts!Tick => TimeoutProofs!Wake \/ TimeoutProofs!Tick
  BY DEF Timeouts!Wake, TimeoutProofs!Wake, Timeouts!Tick, TimeoutProofs!Tick,
     Timeouts!clocks, TimeoutProofs!clocks, Timeouts!wait, TimeoutProofs!wait
<1> QED
  BY <1>1, <1>2, <1>3, <1>4, <1>5, <1>6, <1>7, <1>8, TimeoutValues DEF Timeouts!Next,
     TimeoutProofs!Next

\* The steps of the composition are those of the common timeouts, or leave them alone.
LEMMA TimeoutMoves == [Next]_vars => [TimeoutProofs!Next]_(TimeoutProofs!vars)
<1>1. UNCHANGED timeoutsVars => UNCHANGED TimeoutProofs!vars
  BY DEF timeoutsVars, TimeoutProofs!vars, TimeoutProofs!clocks, TimeoutProofs!wait
<1>2. BuffersNext \/ BuffereventsNext \/ BucketsNext \/ ResolverNext \/ UNCHANGED vars
        => UNCHANGED timeoutsVars
  BY DEF BuffersNext, BuffereventsNext, BucketsNext, ResolverNext, vars
<1>3. TimeoutsNext => Timeouts!Next
  BY DEF TimeoutsNext
<1> QED
  BY <1>1, <1>2, <1>3, TimeoutSteps DEF Next

\* The invariant holds initially, and every step keeps it.
LEMMA TimeoutInit == Init => TimeoutProofs!Init /\ TimeoutProofs!IInv
<1>1. Init => TimeoutProofs!Init
  BY DEF Init, Timeouts!Init, TimeoutProofs!Init, Timeouts!Index, TimeoutProofs!Index,
     Timeouts!Plain, TimeoutProofs!Plain
<1> QED
  BY <1>1, TimeoutsAssumed, TimeoutProofs!InitInv

LEMMA TimeoutNext == TimeoutProofs!IInv /\ [Next]_vars => TimeoutProofs!IInv'
  BY TimeoutMoves, TimeoutsAssumed, TimeoutProofs!NextInv

\* event.c, for any events, durations and bound of the queues: each event stands in one container,
\* the queues are in the order of the times, the heap speaks for each of them, and the loop does
\* not sleep past the time of an event, but by as much as the cached time was old from which it
\* counted its wait, and without a cached time not at all.
THEOREM CommonTimeoutsStayOK == Spec => []CommonTimeoutsOK
<1>1. TimeoutProofs!IInv => CommonTimeoutsOK
  <2>1. TimeoutProofs!IInv => TimeoutProofs!CommonTimeoutsOK
    BY TimeoutsAssumed, TimeoutProofs!Implied
  <2>2. TimeoutProofs!CommonTimeoutsOK => Timeouts!CommonTimeoutsOK
    <3>1. \A e : TimeoutProofs!QueueOf(e) = Timeouts!QueueOf(e)
      BY DEF Timeouts!QueueOf, TimeoutProofs!QueueOf, Timeouts!ToSet, TimeoutProofs!ToSet
    <3>2. \A S : TimeoutProofs!Cardinality(S) = Timeouts!Cardinality(S)
      BY DEF Timeouts!Cardinality, TimeoutProofs!Cardinality
    <3> QED
      BY <3>1, <3>2, TimeoutValues
      DEF Timeouts!CommonTimeoutsOK, TimeoutProofs!CommonTimeoutsOK, Timeouts!TypeOK,
          TimeoutProofs!TypeOK, Timeouts!QueuesOrdered, TimeoutProofs!QueuesOrdered,
          Timeouts!HeapCoversQueues, TimeoutProofs!HeapCoversQueues, Timeouts!NoOversleep,
          TimeoutProofs!NoOversleep, Timeouts!Plain, TimeoutProofs!Plain
  <2> QED
    BY <2>1, <2>2 DEF CommonTimeoutsOK
<1> QED
  BY <1>1, TimeoutInit, TimeoutNext, PTL DEF Spec

\* event.c, in the same circumstances: with its queues and the heap, the base activates an event
\* no earlier than its time, once for each time it is scheduled and not after its deletion.
THEOREM TimersStayImplemented == Spec => ImplementsTimers
<1>1. Init => Timeouts!Abstract!Init
  BY DEF Init, Timeouts!Init, Timeouts!Abstract!Init, Timeouts!Pending, Timeouts!QueueOf,
         Timeouts!Plain, Timeouts!gettime
<1>2. TimeoutProofs!IInv /\ [Next]_vars
        => [TimeoutProofs!Abstract!Next]_(TimeoutProofs!Abstract!timersVars)
  BY TimeoutMoves, TimeoutsAssumed, TimeoutProofs!StepImplements
<1>3. [TimeoutProofs!Abstract!Next]_(TimeoutProofs!Abstract!timersVars)
        => [Timeouts!Abstract!Next]_(Timeouts!Abstract!timersVars)
  <2>1. TimeoutProofs!Pending = Timeouts!Pending /\ TimeoutProofs!Pending' = Timeouts!Pending'
    BY DEF Timeouts!Pending, TimeoutProofs!Pending, Timeouts!QueueOf, TimeoutProofs!QueueOf,
       Timeouts!ToSet, TimeoutProofs!ToSet
  <2>2. \A e : TimeoutProofs!Abstract!Schedule(e) = Timeouts!Abstract!Schedule(e)
    BY <2>1, TimeoutClock, Zenon DEF Timeouts!Abstract!Schedule, TimeoutProofs!Abstract!Schedule
  <2>3. /\ TimeoutProofs!Abstract!Tick = Timeouts!Abstract!Tick
        /\ \A e : TimeoutProofs!Abstract!Delete(e) = Timeouts!Abstract!Delete(e)
        /\ \A S : TimeoutProofs!Abstract!Fire(S) = Timeouts!Abstract!Fire(S)
    BY <2>1, TimeoutClock, Zenon DEF Timeouts!Abstract!Tick, TimeoutProofs!Abstract!Tick,
       Timeouts!Abstract!Delete, TimeoutProofs!Abstract!Delete, Timeouts!Abstract!Fire,
       TimeoutProofs!Abstract!Fire, Timeouts!Abstract!Look, TimeoutProofs!Abstract!Look
  <2>4. \A e : /\ TimeoutProofs!Abstract!Add(e) = Timeouts!Abstract!Add(e)
               /\ TimeoutProofs!Abstract!Run(e) = Timeouts!Abstract!Run(e)
    BY <2>1, <2>2, TimeoutClock, Zenon DEF Timeouts!Abstract!Add, TimeoutProofs!Abstract!Add,
       Timeouts!Abstract!Run, TimeoutProofs!Abstract!Run
  <2> QED
    BY <2>1, <2>3, <2>4, TimeoutClock DEF Timeouts!Abstract!Next, TimeoutProofs!Abstract!Next,
       Timeouts!Abstract!timersVars, TimeoutProofs!Abstract!timersVars
<1> QED
  BY <1>1, <1>2, <1>3, TimeoutInit, TimeoutNext, PTL
  DEF Spec, ImplementsTimers, Timeouts!ImplementsTimers, Timeouts!Abstract!Spec
=============================================================================
