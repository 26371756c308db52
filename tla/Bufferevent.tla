---------------------------- MODULE Bufferevent ----------------------------
(***************************************************************************)
(* bufferevent.c and bufferevent_sock.c: a thread-safe bufferevent on a    *)
(* socket, from the time it has its socket, connected or connecting, to    *)
(* bufferevent_finalize_cb_.                                               *)
(*                                                                         *)
(* The thread of the loop runs ev_read, ev_write and the deferred callback *)
(* one at a time; it takes the lock of the bufferevent after it has chosen *)
(* one.  Threads call under the lock, so a call is one step.  Low          *)
(* watermarks are 0 and the three callbacks of the user are set together.  *)
(***************************************************************************)
EXTENDS Naturals, FiniteSetsExt

CONSTANTS
  Thread,
  Loop,
  Mode,          \* "direct", "deferred" (BEV_OPT_DEFER_CALLBACKS) or "unlocked"
                 \* (with BEV_OPT_UNLOCK_CALLBACKS): the modes of the run
  ThreadApi, CallbackApi,
  MaxData        \* bound of the bytes in each buffer

Api == {"enable", "disable", "write", "read", "setwatermark", "trigger", "suspend",
        "unsuspend", "incref", "decref", "free", "owner_decref"}

BuffereventAssumption ==
  /\ IsFiniteSet(Thread) /\ Loop \notin Thread
  /\ Mode \subseteq {"direct", "deferred", "unlocked"}
  /\ ThreadApi \subseteq Api /\ CallbackApi \subseteq Api
  /\ MaxData \in Nat \ {0}

VARIABLES
  mode,
  enabled,        \* the kinds in bufev->enabled
  suspended,      \* for each kind: read_suspended, write_suspended
  connecting,
  failed,         \* connect() has failed: the user has been told
  input, output,  \* lengths of the buffers
  high,           \* wm_read.high
  cb,             \* the callbacks of the user are set
  pending,        \* eventcb_pending (two values), readcb_pending, writecb_pending
  refcnt,
  owned, held,    \* the references of the user: the owner's, and those of threads
  added, active,  \* of ev_read and ev_write: in the base, and the result that waits
  deferred,       \* the deferred callback is in a queue
  finalizing,     \* the callbacks that wait to run as bufferevent_finalize_cb_
  freed,
  current, result, at,   \* what the loop runs, why, and where it is
  calling,        \* the callback of the user that runs
  chosen          \* the one whose pointer has been saved, to call it without the lock

bev == <<mode, enabled, suspended, connecting, failed, input, output, high, cb, pending>>
refs == <<refcnt, owned, held, freed>>
queues == <<added, active, deferred, finalizing>>
loop == <<current, result, at, calling, chosen>>
vars == <<bev, refs, queues, loop>>

Kind == {"read", "write"}
Callbacks == <<"connected", "read", "write", "event">>
Callback == {"connected", "read", "write", "event"}

\* The loop holds the lock, but neither in a callback that is called without it nor on the
\* way there.
Locked ==
  at \notin {"idle", "called"} /\ ~(calling # "none" /\ mode = "unlocked") /\ chosen = "none"

Init ==
  /\ mode \in Mode
  /\ enabled = {"write"}
  /\ suspended = [k \in Kind |-> {}]
  /\ connecting \in BOOLEAN /\ failed = FALSE
  /\ input = 0 /\ output = 0 /\ high = 0
  /\ cb = TRUE /\ pending = {}
  /\ refcnt = 1 /\ owned = TRUE /\ held = {}
  /\ added = (IF connecting THEN {"write"} ELSE {})
  /\ active = [k \in Kind |-> "none"]
  /\ deferred = FALSE /\ finalizing = {} /\ freed = FALSE
  /\ current = "none" /\ result = "none" /\ at = "idle"
  /\ calling = "none" /\ chosen = "none"

-----------------------------------------------------------------------------
(* The events, the suspensions, the callbacks and the references           *)

\* event_add fails for an event that is being finalized.
EventAdd(kinds) == added' = added \cup (kinds \ finalizing) /\ UNCHANGED active

EventDel(kinds) ==
  /\ added' = added \ kinds
  /\ active' = [k \in Kind |-> IF k \in kinds THEN "none" ELSE active[k]]

be_socket_disable(k) ==
  IF k = "write" /\ connecting THEN UNCHANGED <<added, active>> ELSE EventDel({k})

bufferevent_suspend_(k, what) ==
  /\ suspended' = [suspended EXCEPT ![k] = @ \cup {what}]
  /\ IF suspended[k] = {} THEN be_socket_disable(k) ELSE UNCHANGED <<added, active>>

bufferevent_unsuspend_(k, what) ==
  /\ suspended' = [suspended EXCEPT ![k] = @ \ {what}]
  /\ IF suspended[k] \subseteq {what} /\ k \in enabled
     THEN EventAdd({k})
     ELSE UNCHANGED <<added, active>>

\* The input has length n: bufferevent_inbuf_wm_cb, which is enabled by a high watermark.
bufferevent_inbuf_wm_cb(n) ==
  /\ input' = n
  /\ IF high = 0 THEN UNCHANGED <<suspended, added, active>>
     ELSE IF n >= high THEN bufferevent_suspend_("read", "wm")
     ELSE bufferevent_unsuspend_("read", "wm")

NoCallback(n) == refcnt' = n /\ UNCHANGED <<pending, deferred, calling>>

\* Fault: with a callback pending already, the deferred callback is taken to be scheduled.
ScheduleIfIdle(n) ==
  /\ deferred' = (deferred \/ ("deferred" \notin finalizing /\ pending = {}))
  /\ refcnt' = IF deferred' = deferred THEN n ELSE n + 1

\* SCHEDULE_DEFERRED, when there are n references.
SCHEDULE_DEFERRED(n) ==
  /\ deferred' = (deferred \/ "deferred" \notin finalizing)
  /\ refcnt' = IF deferred \/ "deferred" \in finalizing THEN n ELSE n + 1

\* bufferevent_run_readcb_, _writecb_ and _eventcb_.
run_callback(which, forced, n) ==
  IF ~cb THEN NoCallback(n)
  ELSE IF mode # "direct" \/ forced
  THEN /\ pending' = pending \cup {which}
       /\ SCHEDULE_DEFERRED(n)
       /\ UNCHANGED calling
  ELSE /\ calling' = which
       /\ refcnt' = n
       /\ UNCHANGED <<pending, deferred>>

\* event_callback_finalize_many_: the callback that runs now, or else ev_read, will run
\* bufferevent_finalize_cb_; the others are cancelled.
finalize_many ==
  /\ added' = {} /\ active' = [k \in Kind |-> "none"]
  /\ deferred' = FALSE
  /\ finalizing' = finalizing \cup {IF current = "none" THEN "read" ELSE current}

\* Fault: nothing is waited for.
FreeAtZero ==
  /\ refcnt' = refcnt - 1
  /\ IF refcnt = 1
     THEN /\ added' = {} /\ active' = [k \in Kind |-> "none"]
          /\ deferred' = FALSE
          /\ freed' = TRUE
          /\ UNCHANGED finalizing
     ELSE UNCHANGED <<queues, freed>>

\* Fault: only callbacks that do not run are finalized.
DecrefFinalizesIdle ==
  /\ refcnt' = refcnt - 1
  /\ IF refcnt = 1 /\ current = "none" THEN finalize_many ELSE UNCHANGED queues
  /\ UNCHANGED freed

bufferevent_decref_and_unlock_ ==
  /\ refcnt' = refcnt - 1
  /\ IF refcnt = 1 THEN finalize_many ELSE UNCHANGED queues
  /\ UNCHANGED freed

-----------------------------------------------------------------------------
(* Calls                                                                   *)

bufferevent_enable(k) ==
  /\ enabled' = enabled \cup {k}
  /\ IF suspended[k] = {} THEN EventAdd({k}) ELSE UNCHANGED <<added, active>>
  /\ UNCHANGED <<mode, suspended, connecting, failed, input, output, high, cb, pending,
                 refs, deferred, finalizing, loop>>

bufferevent_disable(k) ==
  /\ enabled' = enabled \ {k}
  /\ be_socket_disable(k)
  /\ UNCHANGED <<mode, suspended, connecting, failed, input, output, high, cb, pending,
                 refs, deferred, finalizing, loop>>

\* bufferevent_write, with bufferevent_socket_outbuf_cb.
bufferevent_write ==
  /\ output < MaxData
  /\ output' = output + 1
  /\ IF "write" \in enabled /\ suspended["write"] = {}
     THEN EventAdd({"write"})
     ELSE UNCHANGED <<added, active>>
  /\ UNCHANGED <<mode, enabled, suspended, connecting, failed, input, high, cb, pending,
                 refs, deferred, finalizing, loop>>

bufferevent_read ==
  /\ input > 0
  /\ bufferevent_inbuf_wm_cb(input - 1)
  /\ UNCHANGED <<mode, enabled, connecting, failed, output, high, cb, pending,
                 refs, deferred, finalizing, loop>>

\* Fault: a suspension for the old watermark stays.
SetWatermarkOnly(mark) ==
  /\ high' = mark
  /\ IF mark # 0 /\ input >= mark
     THEN bufferevent_suspend_("read", "wm")
     ELSE UNCHANGED <<suspended, added, active>>
  /\ UNCHANGED <<mode, enabled, connecting, failed, input, output, cb, pending,
                 refs, deferred, finalizing, loop>>

bufferevent_setwatermark(mark) ==
  /\ high' = mark
  /\ IF mark # 0 /\ input >= mark
     THEN bufferevent_suspend_("read", "wm")
     ELSE bufferevent_unsuspend_("read", "wm")
  /\ UNCHANGED <<mode, enabled, connecting, failed, input, output, cb, pending,
                 refs, deferred, finalizing, loop>>

\* With BEV_TRIG_DEFER_CALLBACKS.
bufferevent_trigger(k) ==
  /\ IF k = "write" /\ output > 0 THEN NoCallback(refcnt) ELSE run_callback(k, TRUE, refcnt)
  /\ UNCHANGED <<mode, enabled, suspended, connecting, failed, input, output, high, cb,
                 owned, held, freed, added, active, finalizing, current, result, at, chosen>>

\* Rate limits suspend a direction and resume it.
Suspend(k, on) ==
  /\ IF on THEN bufferevent_suspend_(k, "bw") ELSE bufferevent_unsuspend_(k, "bw")
  /\ UNCHANGED <<mode, enabled, connecting, failed, input, output, high, cb, pending,
                 refs, deferred, finalizing, loop>>

bufferevent_incref(t) ==
  /\ t \in Thread \ held
  /\ refcnt' = refcnt + 1
  /\ held' = held \cup {t}
  /\ UNCHANGED <<bev, owned, freed, queues, loop>>

bufferevent_decref(t) ==
  /\ t \in held
  /\ held' = held \ {t}
  /\ bufferevent_decref_and_unlock_
  /\ UNCHANGED <<bev, owned, loop>>

\* The owner drops the reference of the bufferevent by bufferevent_decref.
OwnerDecref ==
  /\ owned' = FALSE
  /\ bufferevent_decref_and_unlock_
  /\ UNCHANGED <<bev, held, loop>>

\* Fault: the callbacks stay.
FreeKeepsCallbacks ==
  /\ owned' = FALSE
  /\ bufferevent_decref_and_unlock_
  /\ UNCHANGED <<bev, held, loop>>

bufferevent_free ==
  /\ owned' = FALSE
  /\ cb' = FALSE
  /\ bufferevent_decref_and_unlock_
  /\ UNCHANGED <<mode, enabled, suspended, connecting, failed, input, output, high,
                 pending, held, loop>>

Call(t, call) ==
  \/ \E k \in Kind :
       \/ call = "enable" /\ bufferevent_enable(k)
       \/ call = "disable" /\ bufferevent_disable(k)
       \/ call = "trigger" /\ bufferevent_trigger(k)
       \/ call = "suspend" /\ Suspend(k, TRUE)
       \/ call = "unsuspend" /\ Suspend(k, FALSE)
  \/ call = "write" /\ bufferevent_write
  \/ call = "read" /\ bufferevent_read
  \/ call = "setwatermark" /\ \E mark \in 0..MaxData : bufferevent_setwatermark(mark)
  \/ call = "incref" /\ owned /\ bufferevent_incref(t)
  \/ call = "decref" /\ bufferevent_decref(t)
  \/ call = "free" /\ owned /\ bufferevent_free
  \/ call = "owner_decref" /\ owned /\ OwnerDecref

\* A thread calls while the user has a reference it may use, a callback at any time.
ThreadCall(t) ==
  /\ ~Locked /\ (owned \/ t \in held)
  /\ \E call \in ThreadApi : Call(t, call)

CallbackCall ==
  /\ calling # "none"
  /\ \E call \in CallbackApi : Call(Loop, call)

-----------------------------------------------------------------------------
(* The loop                                                                *)

\* The socket can be read or written, or the timeout of the event is over, which the
\* handlers look at only if it came alone.
Activate(k, why) ==
  /\ k \in added /\ active[k] \notin {"io", why}
  /\ active' = [active EXCEPT ![k] = why]
  /\ UNCHANGED <<bev, refs, added, deferred, finalizing, loop>>

\* The loop chooses an active event, or the deferred callback.
Pick(k) ==
  /\ current = "none"
  /\ current' = k
  /\ at' = "called"
  /\ IF k = "deferred"
     THEN /\ deferred /\ deferred' = FALSE
          /\ UNCHANGED <<active, result>>
     ELSE /\ active[k] # "none"
          /\ active' = [active EXCEPT ![k] = "none"]
          /\ result' = active[k]
          /\ UNCHANGED deferred
  /\ UNCHANGED <<bev, refs, added, finalizing, calling, chosen>>

\* bufferevent_disable and bufferevent_run_eventcb_, as both handlers do at "error".
HandlerError(k, n) ==
  /\ enabled' = enabled \ {k}
  /\ be_socket_disable(k)
  /\ run_callback("event", FALSE, n)
  /\ UNCHANGED <<suspended, connecting, failed, input, output>>

Nothing(n) ==
  /\ NoCallback(n)
  /\ UNCHANGED <<enabled, suspended, connecting, failed, input, output, added, active>>

bufferevent_readcb ==
  LET n == refcnt + 1
      room == (IF high = 0 THEN MaxData ELSE high) - input
      full == high # 0 /\ input >= high
  IN  /\ current = "read" /\ at = "called"
      /\ at' = "done" /\ result' = "none"
      /\ \/ result = "timeout" /\ HandlerError("read", n)
         \/ /\ result # "timeout" /\ full
            /\ bufferevent_suspend_("read", "wm")
            /\ NoCallback(n)
            /\ UNCHANGED <<enabled, connecting, failed, input, output>>
         \/ /\ result # "timeout" /\ ~full
            /\ suspended["read"] # {}
            /\ Nothing(n)
         \/ /\ result # "timeout" /\ ~full
            /\ suspended["read"] = {}
            /\ \/ Nothing(n)
               \/ HandlerError("read", n)
               \/ \E got \in 1..room :
                    /\ bufferevent_inbuf_wm_cb(input + got)
                    /\ run_callback("read", FALSE, n)
                    /\ UNCHANGED <<enabled, connecting, failed, output>>
      /\ UNCHANGED <<mode, high, cb, owned, held, freed, finalizing, current, chosen>>

\* The output is written as far as the socket takes it.
WriteOut(n, connected) ==
  \/ suspended["write"] # {} /\ Nothing(n)
  \/ /\ suspended["write"] = {} /\ output = 0
     /\ EventDel({"write"})
     /\ IF connected THEN NoCallback(n) ELSE run_callback("write", FALSE, n)
     /\ UNCHANGED <<enabled, suspended, connecting, failed, input, output>>
  \/ /\ suspended["write"] = {} /\ output > 0
     /\ \/ Nothing(n)
        \/ HandlerError("write", n)
        \/ \E put \in 1..output :
             /\ output' = output - put
             /\ IF put = output
                THEN EventDel({"write"}) /\ run_callback("write", FALSE, n)
                ELSE NoCallback(n) /\ UNCHANGED <<added, active>>
             /\ UNCHANGED <<enabled, suspended, connecting, failed, input>>

\* bufferevent_writecb up to the callback that tells of the connection.
bufferevent_writecb ==
  LET n == refcnt + 1
  IN  /\ current = "write" /\ at = "called"
      /\ result' = "none"
      /\ \/ at' = "done" /\ result = "timeout" /\ HandlerError("write", n)
         \/ at' = "done" /\ result # "timeout" /\ ~connecting /\ WriteOut(n, FALSE)
         \/ /\ result # "timeout" /\ connecting
            /\ \/ at' = "done" /\ Nothing(n)
               \/ /\ at' = "done"
                  /\ connecting' = FALSE /\ failed' = TRUE
                  /\ EventDel(Kind)
                  /\ run_callback("event", FALSE, n)
                  /\ UNCHANGED <<enabled, suspended, input, output>>
               \/ /\ at' = "connected"
                  /\ connecting' = FALSE
                  /\ run_callback("connected", FALSE, n)
                  /\ UNCHANGED <<enabled, suspended, failed, input, output, added, active>>
      /\ UNCHANGED <<mode, high, cb, owned, held, freed, finalizing, current, chosen>>

\* Fault: the event that was there for the connection is left to a suspended bufferevent.
ConnectedKeepsEvent ==
  /\ current = "write" /\ at = "connected" /\ calling = "none"
  /\ at' = "done"
  /\ IF "write" \in enabled /\ suspended["write"] = {}
     THEN WriteOut(refcnt, TRUE)
     ELSE Nothing(refcnt)
  /\ UNCHANGED <<mode, high, cb, owned, held, freed, finalizing, current, result, chosen>>

\* bufferevent_writecb after that callback.
WriteConnected ==
  /\ current = "write" /\ at = "connected" /\ calling = "none"
  /\ at' = "done"
  /\ IF "write" \in enabled /\ suspended["write"] = {}
     THEN WriteOut(refcnt, TRUE)
     ELSE /\ EventDel({"write"})
          /\ NoCallback(refcnt)
          /\ UNCHANGED <<enabled, suspended, connecting, failed, input, output>>
  /\ UNCHANGED <<mode, high, cb, owned, held, freed, finalizing, current, result, chosen>>

\* The kinds of pending callbacks that the i-th test of run_deferred_callbacks takes.
Taken(i) == pending \cap (IF i = 4 THEN {"connected", "event"} ELSE {Callbacks[i]})

\* bufferevent_run_deferred_callbacks_locked and _unlocked, to the next callback or the end.
\* The latter only saves the pointer to the callback while it has the lock.
bufferevent_run_deferred_callbacks ==
  LET first == IF at = "called" THEN 1 ELSE CHOOSE i \in 1..4 : Callbacks[i] = at
      due == {i \in first..4 : Taken(i) # {} /\ cb}
  IN  /\ current = "deferred" /\ at # "done" /\ calling = "none" /\ chosen = "none"
      /\ IF due = {}
         THEN at' = "done" /\ UNCHANGED <<pending, calling, chosen>>
         ELSE /\ pending' = pending \ Taken(Min(due))
              /\ IF mode = "unlocked"
                 THEN chosen' = Callbacks[Min(due)] /\ UNCHANGED calling
                 ELSE calling' = Callbacks[Min(due)] /\ UNCHANGED chosen
              /\ at' = IF Min(due) = 4 THEN "done" ELSE Callbacks[Min(due) + 1]
      /\ UNCHANGED <<mode, enabled, suspended, connecting, failed, input, output, high, cb,
                     refs, queues, current, result>>

\* UNLOCKED: the callback that was chosen is called after the lock has been released.
CallUnlocked ==
  /\ chosen # "none"
  /\ calling' = chosen /\ chosen' = "none"
  /\ UNCHANGED <<bev, refs, queues, current, result, at>>

CallbackReturns ==
  /\ calling # "none"
  /\ calling' = "none"
  /\ UNCHANGED <<bev, refs, queues, current, result, at, chosen>>

\* The handler drops its reference and returns to the loop.
Done ==
  /\ at = "done" /\ calling = "none" /\ chosen = "none"
  /\ bufferevent_decref_and_unlock_
  /\ current' = "none" /\ at' = "idle"
  /\ UNCHANGED <<bev, owned, held, result, calling, chosen>>

bufferevent_finalize_cb_ ==
  /\ current = "none"
  /\ \E k \in finalizing : finalizing' = finalizing \ {k}
  /\ freed' = TRUE
  /\ UNCHANGED <<bev, refcnt, owned, held, added, active, deferred, loop>>

Handler ==
  \/ bufferevent_readcb \/ bufferevent_writecb \/ WriteConnected
  \/ bufferevent_run_deferred_callbacks \/ CallUnlocked \/ Done

Next ==
  \/ \E t \in Thread : ThreadCall(t)
  \/ CallbackCall
  \/ \E k \in Kind : Activate(k, "io") \/ Activate(k, "timeout")
  \/ \E k \in Kind \cup {"deferred"} : Pick(k)
  \/ Handler \/ CallbackReturns \/ bufferevent_finalize_cb_

Spec == Init /\ [][Next]_vars

\* The loop runs what is in its queues, each in its turn, and callbacks return.
FairSpec ==
  /\ Spec
  /\ WF_vars(Handler) /\ WF_vars(CallbackReturns)
  /\ SF_vars(Pick("deferred")) /\ SF_vars(bufferevent_finalize_cb_)

-----------------------------------------------------------------------------
TypeOK ==
  /\ mode \in Mode
  /\ enabled \subseteq Kind
  /\ suspended \in [Kind -> SUBSET {"wm", "bw"}]
  /\ {connecting, failed, cb, owned, deferred, freed} \subseteq BOOLEAN
  /\ {input, output, high} \subseteq 0..MaxData
  /\ pending \subseteq Callback
  /\ refcnt \in 0..(3 + Cardinality(Thread)) /\ held \subseteq Thread
  /\ added \subseteq Kind /\ active \in [Kind -> {"none", "io", "timeout"}]
  /\ finalizing \subseteq Kind \cup {"deferred"}
  /\ current \in Kind \cup {"deferred", "none"} /\ result \in {"none", "io", "timeout"}
  /\ at \in {"idle", "called", "done"} \cup Callback
  /\ {calling, chosen} \subseteq Callback \cup {"none"}

One(condition) == IF condition THEN 1 ELSE 0

\* Each reference has its holder, and the memory goes with the last: then no queue has a
\* callback of the bufferevent, the loop is in none of its handlers, and nothing is to
\* free it again.  A handler that was chosen before the last reference was dropped finds
\* the memory still there.
NoUseAfterFree ==
  /\ refcnt = One(owned) + Cardinality(held)
              + One(deferred) + One(current = "deferred")
              + One(current \in Kind /\ at # "called")
  /\ Cardinality(finalizing) + One(freed) <= 1
  /\ freed => refcnt = 0 /\ added = {} /\ current = "none"
              /\ \A k \in Kind : active[k] = "none"

\* While nobody is in the middle of a change, a bufferevent that reads has its read event
\* in the base exactly if reading is enabled and not suspended; one that has data to
\* write and may write has its write event; and the write event of one that may not
\* write is there for the connection only.
EventsFollowState ==
  ~Locked /\ refcnt > 0 /\ finalizing = {} /\ ~failed =>
     /\ "read" \in added <=> "read" \in enabled /\ suspended["read"] = {}
     /\ "write" \in enabled /\ suspended["write"] = {} /\ output > 0 => "write" \in added
     /\ "write" \in added => connecting \/ ("write" \in enabled /\ suspended["write"] = {})

\* Reading is suspended for the watermark exactly if the input has reached it, whatever
\* else suspends it and however the watermark was moved.
WatermarkHolds ==
  ~Locked => ("wm" \in suspended["read"] <=> high # 0 /\ input >= high)

\* References, events and suspensions of a bufferevent are right together.
BuffereventOK == TypeOK /\ NoUseAfterFree /\ EventsFollowState /\ WatermarkHolds

\* No callback of the user is chosen once bufferevent_free has been called, and none is
\* started, but for one that had been chosen when the lock was released to call it: a thread
\* may free the bufferevent before that call.
NoCallbackAfterFree ==
  [][/\ calling' # "none" /\ calling' # calling => owned \/ calling' = chosen
     /\ chosen' # "none" /\ chosen' # chosen => owned]_vars

\* A callback that is due is called, though more may come due, and the lock be free,
\* while the deferred callback runs.
CallbacksCome ==
  /\ "read" \in pending ~> ("read" \notin pending \/ ~cb)
  /\ "event" \in pending ~> ("event" \notin pending \/ ~cb)

\* The memory is released after bufferevent_free and the last bufferevent_decref.
FreeReleases == (~owned /\ held = {}) ~> freed
=============================================================================
