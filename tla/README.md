# A verification of libevent

The repository `projs` is a collection: a few small programs of its author and Visual Studio
ports of third-party libraries. The largest piece with logic of its own is libevent 2.1.8 in
`src/vs2015_libevent-2.1.8`: an event loop with what it rests on (condition variables, the select
backend, signals, timeouts) and what rests on it (buffers, bufferevents, rate limits, listeners,
a DNS client, the client connections of HTTP). These modules model those parts, check them with TLC, and prove with TLAPS what
holds of the central ones for any number of threads and events.

All paths below are relative to `src/vs2015_libevent-2.1.8/libevent_core/` unless they start with
`src/` or `libevent_extras/`. Names in `code` are those of the C code and, where it allows, of the
TLA+ definitions.

## 1. The system

| part | state | operations | what is hard | what makes it correct | module |
|---|---|---|---|---|---|
| min heap (`minheap-internal.h`) | array of events, `min_heap_idx` in each | push, pop, top, erase, adjust | erasing from the middle, ties, the missing sibling | order, exact indices, top expires first | `MinHeap` |
| queues (`event.c` 3151-3400) | `ev_flags`, an active queue for each priority, the later queue, `event_count`, `event_count_active` | `event_queue_insert_*`, `event_queue_remove_*`, `event_queue_make_later_events_active` | called from a dozen places under different conditions | flags, queues and counters agree | `EventQueues` |
| event loop and API (`event.c`) | `struct event_base`: loop state, break/term/continue, current callback, cached time, notify socket | `event_base_loop`, `event_add`, `event_del`, `event_active`, `event_finalize`, `event_remove_timer`, loopexit/break/continue, deferred callbacks, virtual events | threads between two critical sections of the loop, waits for a callback, wakeups, re-entrancy of callbacks | section 4 | `EventBase` |
| common timeouts (`event.c`) | a queue of events for each duration, an internal event in the heap for each queue | `event_base_init_common_timeout`, add, delete, `common_timeout_callback` | late rounds of persistent events, a deleted head | no timer is early, late for ever, or forgotten | `CommonTimeouts` |
| fd map (`evmap.c`) | the events of each fd, counts of readers, writers and closers | `evmap_io_add_`, `evmap_io_del_`, `evmap_io_active_` | several events on an fd | counts, lists and backend agree | `EvMap` |
| select backend (`win32select.c`) | fd sets, positions in `event_entry`, copies for `select()` | add, del, dispatch | a removal swaps the last fd into the hole; the copies grow later than the sets | positions are inverse, arrays have room | `Win32Select` |
| threads (`evthread.c`, `evthread_win32.c`) | critical section, event object, three counters | wait, signal, broadcast | generations, resets of the shared event | it is a condition variable | `EvThreadWin32` |
| signals (`signal.c`) | process-wide `evsig_base`, saved handlers, socket pair | handler, `evsig_cb`, add, del | the handler interrupts anything; a second base takes over | handlers are saved and restored, no signal of an added event is lost | `EvSignal` |
| buffers (`buffer.c`) | chains, `last_with_datap`, lengths, counts for callbacks | add, prepend, drain, pull up, expand, reserve and commit, move, reference | empty chains, memory shared by buffers | length, content and order of the bytes | `EvBuffer` |
| bufferevents (`bufferevent*.c`) | enabled and suspended directions, watermark, pending callbacks, references | enable, read, write, connect, free | free during a callback, deferred callbacks | events follow the state; finalized once, after the last callback | `Bufferevent` |
| rate limits (`bufferevent_ratelim.c`) | token buckets, a shared refill event, groups | refill, decrement, suspend, unsuspend | members that cannot be locked; debts | nobody stays suspended, nobody runs on an empty bucket | `RateLimit`, `RateLimitGroup` |
| listener (`listener.c`) | refcount, enabled, callbacks | accept, enable, disable, free | free inside the callback | freed once, listens if enabled | `Listener` |
| DNS client (`libevent_extras/evdns.c`) | requests in flight and waiting, nameservers, counters | resolve, cancel, timeout, answer, probe, suspend | lost, late and repeated answers, sockets that block or fail | every request is answered, once | `Evdns` |
| IOCP (`event_iocp.c`, `buffer_iocp.c`, `bufferevent_async.c`) | pending overlapped operations | launch, complete, cancel | completions after free | no use after release | - |
| http client (`libevent_extras/http.c`) | state of an `evhttp_connection`, its queue of requests, retry timer | connect, dispatch, read, fail, done, retry, cancel, free | retries, a peer that closes, callbacks that call again | every request is answered, once; no handler in a state it is not meant for | `HttpConnection` |
| http server, evrpc, tagging (`libevent_extras/`), `libevent_openssl` | connections and their requests | - | - | - | - |
| utilities (`evutil*.c`, `arc4random.c`, `log.c`) | little | parsing, sockets, time | - | - | - |

They interact by calls under locks: the API calls evmap when the interest in an fd begins or ends,
evmap calls the backend, the backend calls `evmap_io_active_` and so `event_active_nolock_`;
buffers, bufferevents, listeners and the resolver use events and deferred callbacks. All of an
`event_base` is protected by `th_base_lock`, which the loop releases in two places: around `select`
and around each callback. A thread that needs a callback to end waits on `current_event_cond`; a
thread that changes what the loop is waiting for writes a byte to the notify socket. Bufferevents,
listeners and resolvers have locks of their own, which the loop takes in their handlers.

`libevent` is a second copy of the same files in one library.

The other programs of the repository: `src/proxy` starts helper processes from a Windows console
program; `src/poi` rebuilds the rows of a spreadsheet in a SAX handler; `src/storm` counts words
with a spout and bolts; `nettysrc`, `javautiler`, `hdfs`, `spark`, `scatter`, `springLittleBoot`,
`springcloud-gradle` and `springboot1-lastVersion` are single-file uses of frameworks; `myblog` is
static HTML. The OpenSSL and NASM directories hold third-party code with project files, and
`vs2015_libevent-2.1.8_sample` the example programs of libevent.

`PROJECT.json` lists every part with its status, and every hazard with the properties about it.

## 2. The modules

### The event loop

* `TimeoutQueue` states what `event.c` expects of the container of the pending timeouts: a set of
  events, of which one that expires first can be read. `MinHeap` is the heap of
  `minheap-internal.h` and implements it (`ImplementsTimeoutQueue`, with the set of the elements of
  the array for the set, and `min_heap_top_` for the top). This is why the modules above use a set
  (`timeheap`) with the choice of an earliest element. A shift loop moves a hole along a path of
  the tree: an operation is a step that makes the hole (`shift` says where it is and what is to fill it), a step for each
  iteration, and one that fills it; the lock of the base keeps other operations out meanwhile. To its caller an operation
  is one step: in the refinement it takes effect when it begins (`TopWhenFilled` is what will be on top when the hole is filled),
  and the iterations are stutters. `min_heap_adjust_` is modelled, although its only caller,
  `event_queue_reinsert_timeout`, is compiled only with `USE_REINSERT_TIMEOUT`, which nothing defines.
* `EventQueues` has the state of the queues as a record, and one operator for each function of the
  section "queue operations" of `event.c`, as a function from a state to a state. They contain no
  variable, so that the critical sections that call several of them compose them.
* `EventBase` is the component: seven variables, an action for each API function and each step of
  `event_base_loop`.

| variable | code |
|---|---|
| `q` | queues, flags, counters (`EventQueues`) |
| `ev` | the other fields of an event that change: closure, result, timeout, `ev_io_timeout`, `ev_ncalls`, whether `ev_pncalls` is set |
| `base` | the other fields of `struct event_base`; `notify_readable` is the byte in the notify socket |
| `loop` | the place of the loop thread and the locals of `event_base_loop`, `event_process_active`, `event_process_active_single_queue`, `event_signal_closure` and `win32_dispatch` |
| `th` | the place of every other thread: idle, waiting on the condition variable, woken, just returned from `event_del` |
| `clock` | the monotonic clock |
| `hist` | what the application has asked for; read by the properties and by two guards that keep the application to one finalization of an event |

An action is a critical section. An API call is one action, `f(a, ...)` with the calling actor `a`:
another thread, or the loop thread in a callback or outside of the loop. `LockFree` says where the
loop does not hold the lock. `event_add`, `event_del`, `event_active` and `event_finalize` may wait
for a running callback: their first part is the action, the second `ThreadResume`, which begins in
whatever state the base is in by then. The loop is `LoopEnter`, then `LoopTop`,
`LoopMakeLaterActive`, `LoopDispatch` (the backend copies its fd sets and releases the lock),
`SelectReturn` or `SelectFails`, `LoopRelock`, `LoopActivate` for each ready fd, `LoopUpdateTime`,
`LoopTimeout`, `LoopProcess`, and for each callback `LoopRun`, the callback itself (`callback`),
`LoopReturn` and `LoopAfter`. The loop of `event_signal_closure` is `SignalCount` (the test of `ncalls`, the
decrement and the stores to `ev_ncalls` and `ev_pncalls`, without the lock) before each call, and
`SignalAgain` (the locked look at `event_break`) after it; `NotifyDrain` and `NotifyDrained` are the callback of the notify socket,
with the unlocked `recv` and the locked reset as two steps.

Abstractions of `EventBase`:

* One event for each fd and each signal; readiness is `EV_READ`. `evmap` then notifies on every
  insertion and removal. (Several events on an fd: `EvMap`.)
* Time is counted in ticks; no tick passes while the lock is held (a critical section is short
  compared with a tick). Timeouts are added without overflow.
* The unlocked part of `event_signal_closure` before a call is one step, and races with the stores of other
  threads through `ev_pncalls`: while the loop is in it, `*ev_pncalls = 0` takes effect before the test of `while`, between
  the decrement and the next test, or is overwritten (`AbortLoop` is nondeterministic). Later, a stale
  `ev_pncalls` hits the local of the running closure or some other memory. Two things are left out. A build that does not
  keep `ncalls` in a register may see the store between the test and the decrement, and count on from -1. And where a break ends the
  calls, `ev_pncalls` is cleared without the lock (1334) in the same step in which the lock is taken again.
* `ev_io_timeout` and `ev_ncalls` share a union in `struct event`. The only function that does not
  look at the kind of the event first is `event_remove_timer_nolock_`; the model has its effect on each kind.
* Finalizers, as `event2/event.h` asks, do not call the API. An event is finalized at
  most once; `event_active_later_` is not called on an event that is being finalized (it has no caller
  outside of `event.c`), nor `event_deferred_cb_schedule_` on a callback that is (its owner has
  given up the last reference, `bufferevent.c` 694-717).
* Allocation never fails and `send` on the notify socket does not fail.
* A pending `event_base_loopexit` is one event (`ExitEv`): its closure sets `event_gotterm` without
  the lock; the model does it when the closure returns.

### What the loop rests on

* `Timers` states what the timeouts of a base promise: an event fires no earlier than its time, once
  for each time it was scheduled, never after its deletion. `CommonTimeouts` has the heap (as the set
  of `TimeoutQueue`), the queues of common timeouts, and the internal event by which each queue stands
  in the heap, with the wait of the backend and the notification that ends it; it implements `Timers`
  (`deadline` is the time of an event that is in the heap or a queue, `fired` the events made active).
  The base goes by its cached time while the loop is not in the backend (`gettime`; both kinds of bases are in the instance), which is the `clock` of `Timers`.
* `CondVar` is the condition variable that `event2/thread.h` describes and `EventBase` assumes;
  `EvThreadWin32` is the emulation, with an action for each critical section and each call of
  `evthread_win32_cond_wait`. It implements `CondVar`: the waiters are the registered
  threads that began to wait after the last broadcast, the runnable ones the other registered threads and those
  that have left the loop. The generation is used only in one comparison; its outcome is the variable `newer`.
* `Win32Select` has the fd sets of `win32select.c` as functions on a record, `EvMap` the lists and counts
  of `evmap.c` over them, the dispatch with its unlocked `select()` on copies, other threads, and a peer.
* `EvSignal` has the process-wide handler and its three steps (check, install again, send), the
  socket pair, `evsig_cb` with its unlocked read, and bases that take `evsig_base` over.

### What rests on the loop

* `ByteQueues` states what evbuffers promise: each is a queue of bytes, an operation takes from the
  front, puts at an end, or moves from one buffer to another. `EvBuffer` has the chains, with the memory as numbered
  blocks that several chains may refer to. An operation is a function from a state to the next, as the code is
  sequential under the locks of the buffers. The content of the buffers is the refinement mapping.
* `Bufferevent` is a socket bufferevent from its creation to `bufferevent_finalize_cb_`: calls of threads
  and callbacks, the three callbacks of the loop, each chosen first and locked later, the callbacks of the user called directly, deferred,
  or deferred and unlocked. In the last mode a callback is saved (`chosen`) while the lock is held, and
  called after its release in a step of its own (`CallUnlocked`).
* `RateLimit` has both buckets of a bufferevent and their common refill event; `RateLimitGroup` a
  group in one direction, with the locks of members that others hold.
* `Listener` has the lock of the listener, which its callback runs without and a thread in `event_del` keeps.
* `Evdns` has requests, servers, and packets that are lost, late or repeated; its functions map a state to
  the set of states it may lead to, since `sendto()` and the choice of the server may go different ways.
* `HttpConnection` has the state of an `evhttp_connection`, the queue of its requests, what the callbacks of its
  bufferevent find, and a user that makes and cancels requests and frees the connection in callbacks of requests and
  elsewhere. A handler is one step up to the first callback of a request (`calling`, which is also the list of
  `evhttp_connection_cb_cleanup`); of a message there is only
  where in a response the bytes that have come end. `Beyond` names what server and user do that the code is not ready for.

### Instances and proofs

* `EventBaseMC`, `MinHeapMC`, `EvBufferMC` and `PlatformMC` give constants values; the `.cfg` files are their instances.
* `SafetyMC`, `Platform` and `ServicesMC` put several small components into one run: a behaviour chooses a
  part, and runs it while the others stay in an initial state. The parts share no state, so that their product
  would show nothing more. An invariant is stated for its own part, and holds in the others' initial states.
  Fairness is that of the modules, where their part runs.
* `EventBaseProofs`, `EventBaseWakeups`, `SafetyProofs`, `PlatformProofs`, `ServicesProofs`, `CommonTimeoutsProofs`,
  `MinHeapProofs` and `BuffereventProofs` hold the theorems.

Definitions introduced by a comment that begins with "Fault" are variants of the definition that follows or
precedes them with a plausible mistake. No action uses them; each has been put in place of the
correct one to see that a property notices (`PROJECT.json`, "mutants").

## 3. Runs

Each run asks one question. In the runs of `EventBase`, `Thread` are the application threads besides the loop thread.

| run | instance | distinct states | bounds, and what they reach |
|---|---|---|---|
| `minheap` | 6 events, 3 timeouts, symmetric | 11624 | the smallest heap in which erasing from the middle must move the last element up |
| `threads` | 2 threads, a persistent and a one-shot fd event, add/del/active/loopbreak by threads, add/del/active in callbacks | 293,000 | two threads in the same wait; a thread and a callback at the same event |
| `timers` | a thread, a persistent fd event with a timeout, a one-shot timer, clock to 2, delays 1 and 2, no cached time | 588,000 | a timeout that replaces the earliest, a missed interval, a deletion between two intervals |
| `signals` | a thread, a persistent signal event with up to two calls, 2 deferred callbacks with a limit of 1 (`MAX_DEFERREDS_QUEUED`), `FairSpec` | 203,000 | a deletion or a break between two calls; the limit is passed and the later queue used; liveness |
| `finalize` | two events with `EV_FINALIZE`, a deferred callback | 254,000 | finalization in each queue, and while the callback runs |
| `dispatch` | 2 priorities, virtual events, loopexit (at once and later), the three flags of the loop, limits of 2 callbacks and 1 tick on a dispatch | 998,000 | every way out of `event_base_loop`, and each way in which a queue ends before it is empty |
| `safety` | nine parts, below | 727,000 | |
| `platform` | three parts, below, `FairSpec` | 36,000 | |
| `services` | five parts, below, `FairSpec` | 40,000 | |

The bounds of `EventBase` are `MaxTime` (the clock stops), `MaxCalls` (the `ncalls` of `event_active`) and
`MaxVirtual`. `MaxDispatchCallbacks`, `MAX_DEFERREDS_QUEUED` and the priorities are parameters
of the code with small values. The parts of the other three:

| run | part | instance | what it reaches |
|---|---|---|---|
| `safety` | timeouts | a persistent and a one-shot event, durations 1 and 2, one of them common, clock to 3, with and without a cached time | a late round scheduled before an event that was added earlier; a deleted head; a wait counted from an old time |
| | buffers (four) | 2 buffers, 2 byte values, 3 bytes in all (2 where bytes are read, committed, or memory is shared), chains of 2 to 4 bytes, 9 blocks; the calls divided among the parts | full, misaligned, empty and shared chains, in all orders of calls |
| | bufferevent (two) | a thread and the callbacks, each of the three modes of callbacks, connecting or connected, 1 byte and a watermark of 1 | a free in a callback, or by a thread just before one starts, with a deferred callback due; a further reference dropped anywhere |
| | buckets | 2 configurations, one of which allows no burst, clock to 3, debts of up to 2 | a bucket overdrawn, and filled by the user above its maximum; a change of configuration before a refill |
| | resolver | a request, 2 servers, one retransmission and one reissue, sends that succeed, block or fail | a server that fails with requests in flight, a probe, a suspension while a probe is under way |
| `platform` | cond | 3 threads that wait and broadcast, one with a timeout | a wait begun between a broadcast and the last wakeup |
| | map | 3 events on one fd and 1 on another, arrays that begin with one place | removal from the first place, arrays that grow while `select()` uses the copies |
| | signals | 2 bases, 3 events of a signal, 2 handlers in progress, up to 2 signals | a base that takes over while the other's handler is about to send |
| `services` | listener | 2 threads and the callbacks, 2 connections | a free in the callback, a set or unset callback while it runs |
| | group | 2 members, 4 operations begun | a member that is locked, and one that is joining, at each suspension and refill |
| | bufferevent | a thread that triggers, disables and frees | a callback due when the deferred callback has begun |
| | resolver | 2 requests, one of which goes on to a second name, 1 server that is silent, refuses, blocks, or fails | retransmissions until the request is given up |
| | http | 3 requests, one retry, a server that answers no more than it is asked and closes anywhere | a second request made in the callback of the first, on a connection that goes on, is closed, or waits for its retry; three requests that fail together, one of which is cancelled in the callback of another |

Deadlock is checked in the runs of `EventBase`, `MinHeap` and `platform`. In `safety` and `services` it is not: the
clock, the connections and the requests of an instance end, and a listener may block for ever (section 5).

The runs `del_quiescent`, `stale_timeout` and `last_with_data` end in a counterexample, section 5.

### Fairness

`FairSpec` of `EventBase` adds weak fairness of `LoopStep`, and strong fairness of `ThreadResume(t)`.
`LoopStep` contains the steps of the loop thread that need no one else: the thread is scheduled, callbacks
return, and `select` returns when a byte is in the notify socket or its time is over. It does not
contain the readiness of an application's fd, API calls, the tick of the clock, or entering the
loop. A woken thread competes for `th_base_lock`, which the loop takes and releases over and over:
weak fairness would not do, since the lock is not continuously free; a Windows critical section gives
no strict order but does not starve a waiter for ever, which is what strong fairness says.
The liveness properties also need that the loop is not left in a callback.

In the other modules, too, what is fair is what the scheduler, the loop and the lock do by themselves, never a
call of the user, a packet, or a connection:

* `EvThreadWin32`: threads that can run do (weak); a thread that wants the lock gets it if it is free over and over (strong).
* `EvMap`: the loop thread runs, and `select()` returns when a socket is ready or the loop is notified. Its return at
  a timeout, the peer and the calls are not fair.
* `EvSignal`: the handler's thread and the loop go on (weak), the loop gets `th_base_lock` (strong). A signal is not fair.
* `Bufferevent`: a handler that has begun ends, and callbacks of the user return (weak); the loop comes to the deferred
  callback and to the finalizer, though others of its queue may come in between (strong: the loop runs a queue in order).
* `RateLimitGroup`: the refill event fires, and an operation of a member that has begun ends.
* `Listener`: the loop runs (weak); it gets the lock of the listener (strong), and so the callbacks end; a
  thread that was woken goes on (weak).
* `Evdns`: timers and deferred callbacks run (weak); a socket that is ready for writing again and again takes a
  packet some time (strong). That an answer comes is not assumed: `RequestsAnswered` rests on timeouts.
* `HttpConnection`: the time limit of a connection, the retry timer and the deferred read come, and callbacks of
  the user return (weak). A limit starts again with every byte, so its fairness also says that a server does not send
  byte by byte for ever. The server itself need not do anything.

## 4. Properties

Safety of the event loop (`EventBase`, `MinHeap`):

* `HeapOK`, `ImplementsTimeoutQueue`: the heap is ordered, each event knows its place, and the heap is a set with an earliest element.
* `QueuesAlwaysOK`: each queue holds exactly the callbacks with its flag and priority, each once;
  none is on two queues; the heap holds the events with `EVLIST_TIMEOUT`; both counters count. This is
  `event_base_assert_ok_nolock_` made two-way, with `event_count`, which that function does not look at.
* `WaitersServed`: a thread waits on `current_event_cond` only during the callback it waits for,
  and is counted. `event_process_active_single_queue` broadcasts only if the count is not zero, and clears it
  before each callback: this is what keeps `event_del` from waiting for ever.
* `NoLostWakeup`, `NoOversleep`, `EmptyLoopWakes`: the backend never sleeps on new work (`is_notify_pending` is
  set only while a byte is in the socket or is being drained), beyond the earliest timeout, or when nothing is
  left to wait for.
* `RunsOnlyIfArmed`, `PendingOnlyIfAdded`: an event that was deleted neither runs nor is pending
  until it is added or activated again.
* `SignalCallsOK`: an active signal event has a call to make, although `event_signal_closure` writes the
  number of calls without the lock, and a deletion ends the calls. (`event_finalize` does not wait for a count under way, so of
  an event that was finalized the calls may still be made.)
* `FinalizerWillRun`, `FinalizedIsGone`: a finalizer runs once, is not taken off its queue, and leaves nothing of the event in the base.
* `BreakAfterOneEvent`, `PriorityOrder`: a break is obeyed after one callback; a more urgent callback goes first.

Liveness of the event loop: `WaitersReturn`, `ActiveRuns`, `LoopStops`, `DeferredsDoNotStarve`.

The other components:

* `CommonTimeoutsOK`: the queues stay in the order of the times although persistent events count from their last round; the heap
  speaks for every queue; the loop does not sleep past an event, in the heap or in a queue, but by as much as the cached
  time was old from which it counted its wait (`lag`), and without a cached time not at all. `ImplementsTimers`.
* `BackendOK`: lists, counts and fd sets agree, positions survive moves, no array is overrun, and what `select()` does not look
  at is what the loop has been notified of. `ReadyIsReported`: a socket that stays ready is reported.
* `ImplementsCondVar`; `BroadcastWakes`: who waited at a broadcast leaves the call.
* `SignalHandlingOK`: a base has saved a handler exactly for the signals it has events for, and is the one the handler informs;
  `SignalReaches`: a caught signal reaches the events.
* `ChainsOK`: `last_with_datap` points at the last chain with data, lengths are right, and the callbacks have been told of every
  change. `ImplementsByteQueues`: no operation loses, reorders or overwrites bytes, also of a buffer that shares the memory.
* `BuffereventOK`: each reference has its holder and the memory goes with the last; the two events are in the base exactly if
  enabled, not suspended, and needed; reading is suspended for the watermark exactly if the input has reached it.
  `NoCallbackAfterFree`: after `bufferevent_free` no callback is chosen; the only one that may still start is the one an unlocked
  deferred callback had saved when it released the lock. `CallbacksCome`, `FreeReleases` (which is about listeners too).
* `BucketsOK`: an empty bucket stops its direction, and a refill is due for a stopped one. `UpdateAddsBandwidth`: a refill
  a tick after the last one adds tokens, also to a bucket in debt (the promise of the comment in `bufferevent_ratelim.c` 57-59).
* `GroupOK`: a suspended member is one the group will resume, whoever held which lock. `MembersResume`.
* `ConnectionsOK`: nothing uses a listener after its last reference is dropped, and an enabled one with a callback listens
  (`ListenerOK`); a connection of HTTP with requests is always working on one or waiting for its retry, nothing is left of an
  earlier state, each request stands in one queue once, and no assertion fails (`ConnectionOK`).
* `RequestsOK`: counters agree with the queues, a request in flight has a timer or waits for a socket, a waiting one has another in
  flight before it, a server that is down will be probed, and a request has one answer. `RequestsAnswered`: the user hears of every
  request of the resolver and of HTTP that it does not cancel.

`DelQuiescent`, `TimeoutOnlyIfAsked` and `LastWithData` (which `ChainsOK` contains, in the circumstances of its parts) are
promises of the comments that the code does not keep.

`SignalCallsOK`, `RunsOnlyIfArmed`, the finalizer properties and the others hold in the circumstances of
their runs; section 5 shows what lies outside of them.

## 5. Disagreements between the code and its documentation

Three are runs that end in a counterexample; `PROJECT.json` quotes the text concerned.

| run | what happens |
|---|---|
| `del_quiescent` | `event_del` returns while the callback runs: the wait is not repeated. In the same way a thread that waits in `event_del` removes a finalizer that the callback has queued, if the event lacks `EV_FINALIZE` |
| `stale_timeout` | `event_add(ev, NULL)` after an `event_del` keeps the old interval of a persistent event |
| `last_with_data` | `advance_last_with_data` stops at an empty chain, which `evbuffer_prepend_buffer` may have put in the middle; later additions go in front of bytes that were there |

The models have the following behaviours of the code too. They are excluded from the instances above by the
calls that are allowed or by their parameters, and an instance that allows them shows them.

The event loop:

* The wait of `event_active` (and `event_add`) of a signal event is not repeated either: with two threads, one
  changes `ev_ncalls` while the loop runs the callback again, and its activation is overwritten
  (`SignalCallsOK`, `signals` with two threads).
* `event_active` of a signal event by its own callback is overwritten by the loop of calls
  (`SignalCallsOK`).
* `event_remove_timer` clears the number of calls of an active signal event, which shares a union with
  `ev_io_timeout` (`SignalCallsOK`).
* `event_active_later_` gives a signal event no number of calls, and its callback is not called (`SignalCallsOK`).
* `event_finalize` of a signal event may wait before the event is marked, and the callback adds it again
  meanwhile (`FinalizedIsGone`).
* A thread that calls `event_active`, `event_finalize` or `event_del_noblock` for a signal event, or deletes one with
  `EV_FINALIZE`, while the loop counts its calls without the lock: the loop overwrites the number of the new activation, or the store
  through `ev_pncalls` is lost and the calls go on (`SignalCallsOK`, whose second part leaves finalized events out; `signals` with
  `event_del_noblock` by the thread).
* The wait of the backend is computed with the cached time, and is too long by the time spent in
  callbacks (`NoOversleep`, `timers` with `NoCacheTime = FALSE`; `CommonTimeouts` has the cached time and states by how much).
* A deferred callback does not set `event_continue`, so it does not interrupt the queue of a less urgent
  priority (`PriorityOrder` with two priorities of deferred callbacks).
* `event_active` of a signal event sets `event_continue` before it waits for the callback, and not when it goes on: if the
  loop has taken that in meanwhile, the event comes after one that is less urgent (`PriorityOrder`, two priorities and a
  thread that activates a signal event).
* `ev_pncalls` is left pointing to a local of a function that has returned, when a deletion ends the loop of
  calls.
* The argument `ncalls` of `event_active`, which the header calls ignored, is used.
* `event_base_loopcontinue` goes on with the next priority when only internal events have run.

For this reason `finalize` uses events with `EV_FINALIZE` and no signal event, as the header
recommends, and `timers` runs without the cached time.

Buffers:

* `evbuffer_pullup` appends into the first chain without asking whether it is immutable (`buffer.c` 1394), and so into memory that
  another buffer shares, against `event2/buffer.h` 457-460 (`ImplementsByteQueues`, with `pullup` and `add_buffer_reference` in one `Api`:
  they are in different parts).
* `evbuffer_add_buffer_reference` into a buffer with only empty chains frees them and leaves `first` pointing at one (1037); the
  guard of the action keeps it out.
* Space reserved by `expand`, `evbuffer_prepend_buffer` and `evbuffer_remove_buffer` together are the run `last_with_data`.

Bufferevents and listeners:

* An unlocked deferred callback starts although a thread has freed the bufferevent, if that was after it was saved and the
  lock released (`bufferevent.c` 187-189). `NoCallbackAfterFree` says so.
* A bufferevent whose owner calls `bufferevent_decref` in place of `bufferevent_free` (`owner_decref`) keeps its events, which
  run on freed memory (`BuffereventOK`); `event2/bufferevent.h` 577-587 speaks of references as if they kept it alive.
* `evconnlistener_disable` keeps the lock of the listener while `event_del` waits for the callback, which wants that lock: neither goes
  on, though `event2/listener.h` 71-72 calls the listener safe to use from several threads. The state is reachable in `services`,
  where the properties do not depend on it. A free by another thread races with the callback in the same way and is left to callbacks.
* `evconnlistener_disable`, called in the callback, does not end the loop of `accept()`: the callback still comes for
  the connections that wait (`event2/listener.h` 151-155: "Stop listening for connections").

Rate limits:

* A new configuration with a longer tick (`bufferevent_ratelim.c` 606) makes the recorded tick lie in the future, and nothing is added until it is
  reached; `safety` has configurations with equal ticks. A tick below a millisecond divides by zero (137).
* A bucket above its maximum, where only the user can bring it, is never clipped: the difference is unsigned.
* With a minimal share of 0 a group would resume its members on an empty bucket; the theorem assumes a positive one.

Condition variables, signals, backend:

* A signal (not a broadcast) that wakes a thread while an earlier one is still due lets more than one leave (`event2/thread.h` 151-153
  asks for one). `event.c` only broadcasts (1687), and so does the instance.
* Two bases that have events of signals at once: "base B will get informed" (`signal.c` 74-78) is broken by the first `evsig_del` (369). The
  constant `OneAtATime` keeps the bases apart.
* A dispatch without sockets sleeps with `th_base_lock` held (`win32select.c` 307-315): no thread gets in before its timeout.

The resolver:

* With a limit of one request in flight, a search never goes on (`libevent_extras/evdns.c` 3283: the next request gets no
  server while the old one counts, the end of which is over before the next one is in the waiting queue); a probe ignores the limit (2335).
* An answer that comes late is credited to the server that the request belongs to by then (867).
* `disable_when_inactive` deletes the timer of a probe (672), and the server stays down.
* A request that is sent again waits for its old timer; `evdns_base_set_option` with a higher limit does not start those that wait (3412).
* `evdns_cancel_request` reads the current request before it takes the lock (2849).
* `evdns_base_clear_nameservers_and_suspend` frees the servers one after another, and cancels the probe of each on the way (2414). That
  gives the place of the probe to a request that waits, and all requests that are to be sent, among them some of a server that is freed already or whose events
  would be added again, are sent. The model has the cancelling with all that follows; an end that uses a freed server, or leaves an event of one in the base, is undefined
  and left out, as is a suspension while the callback of a probe is due, which would use its server.

The client of HTTP (`libevent_extras/http.c`); the first four are the members of `Beyond`:

* A server that sends on an idle connection (`idle_data`) is read when the next request is being written: the assertion in 1504 fails.
* Calls while the connection waits for its next attempt (`calls_during_retry`): a new request starts an attempt at once and the timer
  another one, which sends the request again; a cancelled one leaves `evhttp_connection_fail_` without a request.
* A deferred read that comes after the connection has gone on (`late_deferred`) ends the program (1160-1165).
* `evhttp_connection_cb_cleanup` moves the requests into a list of its own (1411) and calls them back one by one; those that wait there still name the
  connection. A callback that cancels one removes it as if it stood in `evcon->requests` (2674). In the middle of the list this is harmless, and
  modelled (`CancelInCleanup`); for the last one it makes the queue of the connection end in the other list, and the
  requests made after that are lost (`cancel_in_cleanup`: `ConnectionsOK`, `RequestsAnswered`). The same when the connection has been freed meanwhile is left out: that call uses freed memory.
* `evhttp_connection_free_on_completion` frees the connection after a request that succeeded, never after one that failed, though
  `event2/http.h` 715-717 speaks of "the last request".
* A response that is read until the server closes, without "Connection: close", puts the next request on the dead connection.

## 6. Proofs

| theorem | module | states | for any |
|---|---|---|---|
| `HeapAlwaysOK` | `MinHeapProofs` | `Spec => []HeapOK` | finite set of events, timeouts |
| `TimeoutQueueImplemented` | `MinHeapProofs` | `Spec => ImplementsTimeoutQueue` | the same |
| `TypeCorrect` | `EventBaseProofs` | `Spec => []TypeOK` | threads, events, deferred callbacks, priorities, use of the API |
| `QueuesConsistent` | `EventBaseProofs` | `Spec => []QueuesAlwaysOK` | the same |
| `Invariant` | `EventBaseProofs` | `Spec => []IInv` | the same |
| `WaitersAlwaysServed` | `EventBaseProofs` | `Spec => []WaitersServed` | the same |
| `NeverLosesWakeup` | `EventBaseWakeups` | `Spec => []NoLostWakeup` | the same |
| `EmptyLoopAlwaysWakes` | `EventBaseWakeups` | `Spec => []EmptyLoopWakes` | the same |
| `NeverOversleeps` | `EventBaseWakeups` | `Spec => []NoOversleep` | the same, with `NoCacheTime` |
| `BreaksAfterOneEvent` | `EventBaseWakeups` | `Spec => []BreakAfterOneEvent` | the same |
| `AlwaysRunsOnlyIfArmed` | `EventBaseWakeups` | `Spec => RunsOnlyIfArmed` | the same |
| `UrgentAlwaysFirst` | `EventBaseWakeups` | `Spec => PriorityOrder` | the same, with `UrgentInterrupts` |
| `FinalizersAlwaysRun` | `EventBaseWakeups` | `Spec => []FinalizerWillRun` | the same, with `FinalizesByTheBook` |
| `FinalizedIsAlwaysGone` | `EventBaseWakeups` | `Spec => []FinalizedIsGone` | the same, with `FinalizesByTheBook` |
| `PendingIsAlwaysAdded` | `EventBaseWakeups` | `Spec => []PendingOnlyIfAdded` | the same, with `FinalizesByTheBook` and `NoActivations` |
| `SignalCallsAlwaysOK` | `EventBaseWakeups` | `Spec => []SignalCallsOK` | the same as the first, with `SignalsByTheBook` |
| `CondVarStaysImplemented` | `PlatformProofs` | `FairSpec => ImplementsCondVar` of `Platform` | threads, with or without timeouts, signals as well as broadcasts |
| `NoWakeupIsReset` | `PlatformProofs` | `Spec => []EventStaysSet` of `EvThreadWin32` | finite set of threads |
| `CommonTimeoutsAlwaysOK`, `TimersImplemented` | `CommonTimeoutsProofs` | `Spec => []CommonTimeoutsOK`, `Spec => ImplementsTimers` | events, persistent or not, durations, bound of the queues, clock |
| `CommonTimeoutsStayOK`, `TimersStayImplemented` | `SafetyProofs` | the two above, of the composition `SafetyMC` | the same |
| `BucketsStayOK` | `SafetyProofs` | `Spec => []BucketsOK` of `SafetyMC` | configurations, debts, clock |
| `UpdatesAlwaysAdd` | `SafetyProofs` | `Spec => UpdateAddsBandwidth` of `SafetyMC` | configurations with one length of a tick, debts, clock |
| `BuffereventAlwaysOK`, `NeverCallsAfterFree` | `BuffereventProofs` | `Spec => []BuffereventOK`, `Spec => NoCallbackAfterFree` | finite set of threads, calls (with `FreedByOwner`), modes of the callbacks, length of the buffers |
| `BuffereventStaysOK`, `NeverCallsAfterFree` | `SafetyProofs` | the two above, of the composition `SafetyMC` | threads, modes, length of the buffers |
| `GroupStaysOK` | `ServicesProofs` | `FairSpec => []GroupOK` of `ServicesMC` | members, rate, maximum, and minimal share above 0 |
| `ConnectionsStayOK` | `ServicesProofs` | `FairSpec => []ConnectionsOK` of `ServicesMC` | threads, of which none frees the listener, requests, attempts, with `Beyond = {}` |
| `BackendStaysOK` | `PlatformProofs` | `FairSpec => []BackendOK` of `Platform` | fds, events on them, bound of the counts, first length of the sets |
| `SignalHandlingStaysOK` | `PlatformProofs` | `FairSpec => []SignalHandlingOK` of `Platform` | bases, signals, events, handlers, with `OneAtATime` |

The assumptions are the named assumptions on the constants of each module, with what the last column adds. None
uses fairness. What the last column adds is needed, since without it the code does otherwise (section 5):

* `NoCacheTime`: with a cached time the wait is too long by the time spent in callbacks.
* `FinalizesByTheBook`: if `event_finalize` is called at all, every event has `EV_FINALIZE`, none is a signal, and nobody calls
  `event_del_block`. Otherwise a thread that waits for the callback takes the event off its queue after it was finalized.
* `NoActivations`: nobody calls `event_active` or `event_active_later_`. An event that was activated is pending although it was not
  added, which is not a fault, but not what `PendingOnlyIfAdded` says.
* `Beyond = {}`: user and server of an HTTP connection do nothing that section 5 lists under "HTTP client".
* `OneAtATime`: two bases do not change the handler of a signal at the same time.
* `FreedByOwner`: the owner of a bufferevent gives it up by `bufferevent_free`, never by `bufferevent_decref`.
* `UrgentInterrupts`: no deferred callback is more urgent than another callback; other threads do not call
  `event_base_loopcontinue` (which counts although nothing but internal events may have run); and if they call `event_active` or
  `event_finalize`, no event is a signal.
* `SignalsByTheBook`: if there are signal events, nobody calls `event_remove_timer` or `event_active_later_`; there is one thread besides the
  loop at most, which calls neither `event_del_noblock` nor `event_finalize`; signal events have no `EV_FINALIZE`; callbacks do not call
  `event_active`; and nothing has a timeout. Each of these is a case in which a call does not wait for the unlocked count of the calls, or something
  changes during the wait.

Each of these holds in the `.cfg` of the run that checks the property concerned, but for `SignalsByTheBook`: the thread of `signals` calls
`event_finalize` too.

### The event loop: types, queues, waiters

The first part of `EventBaseProofs` shows, one lemma for each function on the queues, that it leads from a
consistent state (`Good`) to a consistent one: lemmas about removal from and insertion in a sequence without
repetition, and about the cardinality of a set with one element more or less. The conditions in which
the callers use each function are its hypotheses.

`TypeOK` is not inductive alone: taking a callback from an active queue gives a callback only if
the queue and the flags agree, and the index of that queue is a priority only while a dispatch is
under way. The invariant is `IInv == TypeOK /\ QueuesAlwaysOK /\ Located`, where `Located` says
where in the loop there is a running callback and a running priority, and that a thread in a
call has an event. The proof has a lemma for each action. The API
functions leave alone what `Located` says of the loop (`ApiKeeps`), which is shown once.

`WaitersServed` needs more: that `current_event` is the running callback and is set only between `LoopRun`
and `LoopReturn`, and that the base belongs to the loop thread while the loop is in progress (so that
the loop thread itself never waits). `WInv` adds this, and its proof uses `IInv`. The count of the waiters
grows by one in each wait, and is reset together with the broadcast.

### The event loop: sleep, deletion, break, finalizers

The base changes in some forty ways (calls, the second halves of calls that waited, steps of the loop). The proofs in `EventBaseWakeups`
take all calls together: a call has one callback it is about and changes no other one (`About`), and it either wakes the loop
(`Wakes`) or leaves nothing that a loop in its backend would have to wake up for (`Quiet`). That each call is such an `Effect` is one lemma for
each function; what an `Effect` preserves is shown once (`CallKInv`). The invariant `KInv` has six parts:

* `NotifyInv`: `is_notify_pending` is set exactly while a byte is in the socket or its callback is between the `recv` and the
  reset; when the notify event is ready or active, there is a byte; it is never finalized, activated by others, or given a timeout; which
  locals of the loop are set where.
* `CallersInv`: a thread that waits or was woken is in a call about an event of the application.
* `SleepInv`: what the loop has decided at its head (no break, nothing active, nothing to wait for) is still so when it calls the
  backend, and, but for a byte in the socket, while it is there. `NoLostWakeup` and `EmptyLoopWakes` follow.
* `TimeInv`: without a cached time, the same of the length of the wait and the earliest timeout.
* `BreakInv`: where the loop may be when a callback has run since `event_base_loopbreak`.
* `ArmedInv`: a callback that is registered is armed or about to be finalized (`Sound`). `RunsOnlyIfArmed` follows, since only `LoopRun` starts
  a callback, and takes it from an active queue.

They rest on `IInv` (flags and queues agree, so that what is taken from a queue is registered) and `WInv` (the loop thread does not
wait, so that a thread that resumes is not the loop and does notify).

`FInv`, for the finalizers, says of each callback what its flags, its closure and the place of the loop are by what has been asked
(`FinalOK`): after `event_finalize` its flags are `FINALIZING` and, until the loop takes it to run the finalizer, `ACTIVE`, and nothing else. By
the book no call waits for a callback (`WaitsOK`), so that none acts on an event as it was before. `PendingInv` is
`PendingOnlyIfAdded` of everything that is registered.

`OInv`, for the priorities, has four parts. While `event_process_active` is under way, a callback that is active and more urgent than the queue
it works on means that `event_continue` is set (`UrgentInv`). The queue is that of the callback that runs, and one that
is not internal has been counted (`QueueInv`), so that `event_continue`, which callers set without looking at the count, interrupts
the queue before its next callback: at "queue" it is clear (`ContinueInv`), and nothing more urgent is active. When the queue is empty the
next one is the first that has a callback. No call that has waited activates an event (`NoneActivates`).

`SInv`, for the signal events, says that an active one has a call to make (`CallsLeft`). This is inductive only
with what is known of those who change the number: the loop, which counts down while the lock is free, and a thread that
waits to activate the event. While `event_signal_closure` runs, threads wait for it, and nobody makes the event active again (`RunningCalls`). While
it has calls left (`CallsKept`), `ev_ncalls` and `ev_pncalls` say so and the event has not been deleted: a deletion by the callback
ends the calls, and one by the only other thread waits for the closure. What a waiting thread (`WaitingCalls`)
waits for is not active when the lock is taken again, since only that thread, or a timeout, could have made it so. The remaining parts say what the book excludes: no signal
event is in the later queue, has a timeout, or is found ready. Most steps are calm (`Calm`): they give a signal event no calls while its callback runs, and delete it only
together with the calls that are left; that a calm step keeps the invariant is shown once (`CalmSInv`).

### The other components

The condition variable. The refinement needs little: `PlacesOK`, that a thread is where `Places` says and sees its time over only if it
has a timeout. Each critical section is a wait, a timeout, a return, a broadcast or a stutter of `CondVar`: a claim in
the loop is a stutter, since a newer generation has made the thread runnable before. That no
reset loses a wakeup needs the counters: `CountOK` has `n_waiting` equal to the number of threads in the loop, whose
finiteness the lemmas about cardinality need; then `n_to_wake` is positive only with the event set, as the two places that
reset it do so when nobody is left to be woken.

The common timeouts. The functions of the component get the containers as a value and return another, so most lemmas are
about values, and not about states: `Good` says of one that each event stands once in one container, what is in a container has a time,
and the queues are in the order of the times; `Covered` says that the heap speaks for a queue. `event_queue_remove_timeout`, `AddPlain`,
`insert_common_timeout_inorder` and `AddCommon` keep both, though between taking the event out and scheduling the queue again `Covered` may
fail for the queue that is worked on. That an insertion keeps the order needs that all that is not later stands in front of the place found, which follows from the
order before it. To this the invariant adds (`SleepOK`) that nothing is active while the loop sleeps, and that it sleeps no longer than to the
earliest time in the heap, but for the age of the time from which it counted (`lag`), if its wait is not over and it has not been notified, from which `NoOversleep` follows for the queues too; and (`IntervalsOK`) that the
interval of a persistent event is one that is known, since it is scheduled by it again without a check. Each action is then summed up
by which events are pending and fire after it and at what times (`Moves`): the refinement is a step of `Timers` with these values, and
a queue that is scheduled for its rest, or whose event finds nothing due, is a stutter.

The listener. A thread in `event_del` keeps the lock and has cleared `enabled` (`LevWaitersHold`); the loop holds the lock
exactly while it accepts (`LevLoopHolds`); flags and event agree then too (`LevFlagsHeld`); and who has dropped the last reference is no
owner (`LevFreedIsDisowned`). With these `ListenerOK` is inductive.

The bufferevents. Every reference has a holder: the owner, a thread, a deferred callback that is due, a handler that has the lock
(`RefsCounted`). The properties speak of the states in which the lock is free; the invariant says of events and watermark what holds
while it is held too (`EventsOK`, `MarkOK`), since a handler that errs or calls the user has not finished its work. The last reference
may be dropped while the loop has chosen a handler that has not got the lock yet: it then takes a new reference to what is being
finalized, runs, and drops the last one again. `LastOK` says why this does no harm: by then nothing is in the base but the callback
that runs, the callbacks of the user are gone, and nothing chooses them again (one that is saved has the reference of the deferred callback that saved it); the finalizer is one of that callback, which comes after it.

The heap. While a hole moves, every other position has an element with its index (`IndicesOK`); the event that is to fill it is nowhere
else, and is the one that is being erased only if that was the last (`HoleOK`). Each element is not before its parent; if the parent
is the hole, it is not before its grandparent, nor, when the hole rises, before what is to fill it (`OrderOK`); and when the hole sinks, what
is to fill it is not before the parent of the hole (`ParentOK`). The order when the hole is filled follows, because the loop ended. That an
ordered heap has an earliest element at its root is an induction over the tree. It is proved from the smallest position with an element
before that at the root (`FirstPosition`, `RootFirst`): its parent would be a smaller one. This is applied to the heap with its hole, too.

The HTTP connection. The state of a connection decides which of its fields may be set: an attempt, a timer, a bufferevent with
callbacks, a request at the head of the queue (`HttpSound`). That no request is answered twice needs that the queue and the list of the callbacks
that are being called have no request twice and none in common, and are together exactly what was made and not yet done
(`HttpOnce`). Most steps end in one of a few functions (reset, fail, connect, dispatch), which have a lemma each.

The buckets. `BucketsOK` is inductive as it stands; what has to be shown is arithmetic: an update takes nothing out of a
bucket also where it clips. That an update adds needs that the recorded tick is not in the future (`UpdatedInTime`: `last_updated` is at most
the tick of the clock at the last refill), which fails if ticks change their length; section 5 says what happens then.

The group. A bufferevent that joins reads `read_suspended` under the lock of the group and suspends itself later. `GroupJoiners` says that a
group which has resumed its members meanwhile, and could not lock this one, remembers it (`pending_unsuspend_read`).

The backend. The array of the fds and the positions in it agree, and a set that `select()` works on has the size of what it was copied
from or is marked to be enlarged (`MapSound`), in each of the operations that the map and the backend go through together; the
counts of the map are the numbers of events on an fd that wait for it.

The signals. The invariant has, for each base, the signals it counts, those of a call that has begun among them; for each signal, whose handler is saved, also
while it is being restored; that one base is told; that a handler is installed or will be again; and that the
socket has room for as many bytes as were written.

The compositions. `SafetyProofs`, `PlatformProofs` and `ServicesProofs` carry the theorems of a component over to the run that contains it: a
behaviour of the composition that chose the part is one of the component (each step of it or a stutter), and in every other behaviour the
part's variables keep their initial values.

### Only model-checked

Of the event loop: `NoOversleep` with a cached time, and liveness. `ChainsOK` and `ImplementsByteQueues` (the content is a fold over the chains), and `RequestsOK`: their invariants are not yet
found or not yet proved. Liveness under fairness is beyond the prover, as is induction over data, but for
what a smallest counterexample shows.

## 7. Not modelled

* `event.c`: `event_assign`, `event_priority_set` and `event_base_priority_init` at run time, `event_reinit`,
  `event_callback_finalize_many_`, creation and release of a base, debug mode, the functions that only read. A failed allocation: `event_base_once` then
  returns with the lock held (2053).
* `evmap.c`: the changelist, which select does not use, and the hash table. `win32select.c`: the Sleep without sockets.
* `evthread.c`: debug locks and the global setup; native condition variables.
* `buffer.c`: pins and IOCP, file segments, references to foreign memory, freezing, searching and reading of lines, several or
  deferred callbacks, failed allocations.
* `bufferevent*.c`: `bufferevent_setcb` except by free, `setfd`, `bufferevent_set_timeouts`, low watermarks, the start of a
  connection, filters, pairs and IOCP.
* `bufferevent_ratelim.c`: statistics, the division of a share, the order in which members are resumed, the release of a group.
* `evdns.c`: the server port, packets and their parsing, the files of the system, `evdns_getaddrinfo`, `evdns_base_free`.
* IOCP: most of it is the behaviour of the completion port. Utilities, hash table: pure functions.
* `http.c`: the server, parsing, chunk and error callbacks, attempts that fail at once, bytes still to be written; evrpc, tagging. OpenSSL, the
  samples, and the other programs of the repository.

The map covers a small part of the lines of the repository: nearly all of them are third-party code (NASM, OpenSSL), a second copy of libevent, and
data. Of the hazards listed, those without a property carry the reason.

## 8. Plan

In this order:

1. Theorems: `RequestsOK` and `ChainsOK`.
2. `EventLoop`, an abstract specification of what an application sees (an event is pending, active or running; deletions and activations are atomic),
   and `EventBase` shown to implement it with the restrictions of section 5; then `Bufferevent` and `Listener` over it, in place of
   the events they model themselves.
3. `HttpServer`: the connections of an `evhttp`, their requests and replies, and a client that closes.
4. `BuffereventPair` and `BuffereventFilter`, which share `Bufferevent`'s references.
5. `ProxyLauncher`, `ExcelSheet`, `WordCount`.
6. IOCP, with the completion port as an external specification.
