------------------------------ MODULE SafetyMC ------------------------------
(***************************************************************************)
(* The components whose safety is checked without fairness: common         *)
(* timeouts, buffers, bufferevents, token buckets and the resolver.  A     *)
(* behaviour chooses one part and runs it, while the others stay in an     *)
(* initial state.  They share no state, so their product would show        *)
(* nothing more; a property is evaluated only where its part runs, since   *)
(* it holds initially.                                                     *)
(*                                                                         *)
(* Constants and variables that bear the same name in several modules have *)
(* the name of the part in front; the others are bound by their names.     *)
(***************************************************************************)
EXTENDS Integers

BufferParts == {"buffers", "read buffers", "moved buffers", "shared buffers"}
BuffereventParts == {"bufferevent", "shared bufferevent"}
Parts == BufferParts \cup BuffereventParts \cup {"timeouts", "buckets", "resolver"}

\* Events with plain and common durations; a persistent one that is run late is scheduled
\* before an event that was added earlier.
CONSTANTS Event, Persist, Duration, MAX_COMMON_TIMEOUTS, Never, Awake, Forever, MaxTime

VARIABLES
  now, no_cache, tv_cache, queues, heap, timeout, interval, active, sleep, lag, notified

Timeouts == INSTANCE CommonTimeouts

\* Two buffers.
CONSTANTS Buf, byte1, byte2, Junk, Block, buffer_MaxData, MaxLen,
          EVBUFFER_CHAIN_SIZE, MIN_BUFFER_SIZE, EVBUFFER_CHAIN_MAX_AUTO_SIZE

VARIABLES chains, last_with_data, total_len, n_add_for_cb, n_del_for_cb, reported, memory

Byte == {byte1, byte2}

\* One buffer at a time, and the move of some bytes to another.
Buffers == INSTANCE EvBuffer WITH
  Input <- {<<byte1>>, <<byte2, byte1>>},
  Api <- {"add", "prepend", "drain", "pullup", "remove_buffer"},
  MaxData <- buffer_MaxData

\* The same with bytes that are read from a socket, or committed, but fewer of them.
ReadBuffers == INSTANCE EvBuffer WITH
  Input <- {<<byte1>>, <<byte2, byte1>>},
  Api <- {"add", "prepend", "drain", "pullup", "remove_buffer", "read", "expand", "commit"},
  MaxData <- buffer_MaxData, MaxLen <- MaxLen - 1

\* Whole buffers, and space that is committed later.
MovedBuffers == INSTANCE EvBuffer WITH
  Input <- {<<byte1>>, <<byte2>>},
  Api <- {"add", "prepend_buffer", "add_buffer", "expand", "commit"},
  MaxData <- buffer_MaxData

\* Chains that two buffers share.
SharedBuffers == INSTANCE EvBuffer WITH
  Input <- {<<byte1>>, <<byte2>>},
  Api <- {"add", "prepend", "drain", "add_buffer_reference", "prepend_buffer", "add_buffer"},
  MaxData <- buffer_MaxData, MaxLen <- MaxLen - 1

\* The owner of a bufferevent and its callbacks; a read and a write event.
CONSTANTS Thread, Loop, Mode, bev_MaxData

VARIABLES
  mode, enabled, bev_suspended, connecting, failed, input, output, high, cb, pending, refcnt,
  owned, held, added, bev_active, deferred, finalizing, freed, current, result, at, calling, chosen

Bufferevents == INSTANCE Bufferevent WITH
  ThreadApi <- {"enable", "disable", "write", "free"},
  CallbackApi <- {"setwatermark", "read", "suspend", "unsuspend", "free"},
  suspended <- bev_suspended, active <- bev_active, MaxData <- bev_MaxData

\* The same with a further owner.
SharedBufferevents == INSTANCE Bufferevent WITH
  ThreadApi <- {"enable", "incref", "decref", "free"},
  CallbackApi <- {"read", "free"},
  suspended <- bev_suspended, active <- bev_active, MaxData <- bev_MaxData

\* The token buckets of a bufferevent.
CONSTANTS Cfg, Rate, Maximum, Len, NoCfg, buckets_MaxTime, MaxDebt

VARIABLES buckets_now, cfg, limit, last_updated, buckets_suspended, refill, called, since

Buckets == INSTANCE RateLimit WITH
  now <- buckets_now, suspended <- buckets_suspended, MaxTime <- buckets_MaxTime

\* Configurations that are named by the burst they allow; 1 allows none.
MCRate == [c \in Cfg |-> 1]
MCMaximum == [c \in Cfg |-> c]
MCLen == [c \in Cfg |-> 1]

\* A request and two servers.
CONSTANTS User, Searching, Server, None, UserApi, Sends, Answers,
          global_max_requests_inflight, global_max_reissues, global_max_retransmits,
          global_max_nameserver_timeout, disable_when_inactive

VARIABLES base, ns, req, due, answered, dns_suspended

Resolver == INSTANCE Evdns WITH suspended <- dns_suspended

ASSUME SafetyAssumption ==
  /\ Timeouts!CommonAssumption
  /\ Buffers!EvBufferAssumption /\ ReadBuffers!EvBufferAssumption
  /\ MovedBuffers!EvBufferAssumption /\ SharedBuffers!EvBufferAssumption
  /\ Bufferevents!BuffereventAssumption /\ SharedBufferevents!BuffereventAssumption
  /\ Buckets!RateLimitAssumption
  /\ Resolver!EvdnsAssumption

VARIABLE part

timeoutsVars == <<
  now, no_cache, tv_cache, queues, heap, timeout, interval, active, sleep, lag, notified>>
buffersVars == <<chains, last_with_data, total_len, n_add_for_cb, n_del_for_cb, reported, memory>>
buffereventsVars == <<
  mode, enabled, bev_suspended, connecting, failed, input, output, high, cb, pending, refcnt,
  owned, held, added, bev_active, deferred, finalizing, freed, current, result, at, calling,
  chosen>>
bucketsVars == <<buckets_now, cfg, limit, last_updated, buckets_suspended, refill, called, since>>
resolverVars == <<base, ns, req, due, answered, dns_suspended>>

vars == <<part, timeoutsVars, buffersVars, buffereventsVars, bucketsVars, resolverVars>>

Init ==
  /\ part \in Parts
  /\ Timeouts!Init
  /\ part # "timeouts" => ~no_cache
  /\ Buffers!Init
  /\ Bufferevents!Init
  /\ part \notin BuffereventParts => mode = "direct" /\ ~connecting
  /\ Buckets!Init
  /\ part # "buckets" => buckets_now = 0
  /\ Resolver!Init

TimeoutsNext ==
  /\ part = "timeouts" /\ Timeouts!Next
  /\ UNCHANGED <<buffersVars, buffereventsVars, bucketsVars, resolverVars>>

BuffersNext ==
  /\ \/ part = "buffers" /\ Buffers!Next
     \/ part = "read buffers" /\ ReadBuffers!Next
     \/ part = "moved buffers" /\ MovedBuffers!Next
     \/ part = "shared buffers" /\ SharedBuffers!Next
  /\ UNCHANGED <<timeoutsVars, buffereventsVars, bucketsVars, resolverVars>>

BuffereventsNext ==
  /\ \/ part = "bufferevent" /\ Bufferevents!Next
     \/ part = "shared bufferevent" /\ SharedBufferevents!Next
  /\ UNCHANGED <<timeoutsVars, buffersVars, bucketsVars, resolverVars>>

BucketsNext ==
  /\ part = "buckets" /\ Buckets!Next
  /\ UNCHANGED <<timeoutsVars, buffersVars, buffereventsVars, resolverVars>>

ResolverNext ==
  /\ part = "resolver" /\ Resolver!Next
  /\ UNCHANGED <<timeoutsVars, buffersVars, buffereventsVars, bucketsVars>>

Next ==
  /\ \/ TimeoutsNext \/ BuffersNext \/ BuffereventsNext \/ BucketsNext \/ ResolverNext
  /\ UNCHANGED part

Spec == Init /\ [][Next]_vars
-----------------------------------------------------------------------------
(* The properties are those of the modules, where they are explained.      *)

\* event.c: the queues of common timeouts are in order, the heap knows of each no later than
\* its first event is due, and the loop does not sleep past the deadline of an event, but by as
\* much as its cached time was old.
CommonTimeoutsOK == part = "timeouts" => Timeouts!CommonTimeoutsOK

\* event.c: a base with common timeouts promises what one with a set of timers does.
ImplementsTimers == Timeouts!ImplementsTimers

\* buffer.c: last_with_datap points to the last chain with data, the lengths agree with the
\* chains, and the callbacks have heard of them.
ChainsOK == part \in BufferParts => Buffers!ChainsOK

\* Where the other parts run the buffers stay empty.
Queues == INSTANCE ByteQueues WITH
  content <- IF part \in BufferParts THEN Buffers!Contents ELSE [c \in Buf |-> <<>>]

\* buffer.c: buffers are queues of bytes, also when they share memory.
ImplementsByteQueues == Queues!Spec

\* bufferevent.c and bufferevent_sock.c: references are counted and the memory goes with the
\* last; the events follow enabling, suspension and data; reading is suspended exactly while
\* the input is at the watermark.
BuffereventOK == part \in BuffereventParts => Bufferevents!BuffereventOK

\* bufferevent.c: no callback of the user is chosen after bufferevent_free, and none starts but
\* for one that was on its way without the lock.
NoCallbackAfterFree == Bufferevents!NoCallbackAfterFree

\* bufferevent_ratelim.c: a direction without tokens is suspended, and a refill is due.
BucketsOK == part = "buckets" => Buckets!BucketsOK

\* bufferevent_ratelim.c: an update adds the tokens of the time since the last one.
UpdateAddsBandwidth == Buckets!UpdateAddsBandwidth

\* evdns.c: the counters agree with the queues, every request will be looked at again, a
\* server that is down will be probed, and a request has one answer.
RequestsOK == part = "resolver" => Resolver!RequestsOK
=============================================================================
