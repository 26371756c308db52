------------------------------ MODULE Listener ------------------------------
(***************************************************************************)
(* listener.c: an evconnlistener made of one persistent read event.  Its   *)
(* callback accepts connections until accept() has no more and gives each  *)
(* of them to the user's callback without the lock of the listener; the    *)
(* count of references keeps the listener for the time of that callback.   *)
(* Other threads use the listener under its lock, which they keep while    *)
(* event_del waits for the end of listener_read_cb.                        *)
(*                                                                         *)
(* A section under the lock is a step, unless event_del waits in it.  The  *)
(* event is what event.c makes of it: added, active, or run by the loop.   *)
(***************************************************************************)
EXTENDS Naturals

CONSTANTS
  Thread,        \* threads other than the one that runs the loop
  Loop,          \* the thread of the loop
  Nobody,
  ThreadApi,     \* what the threads call
  CallbackApi,   \* what the user's callbacks call
  MaxBacklog     \* bound of the connections that wait for accept()

Api == {"free", "enable", "disable", "set_cb", "unset_cb", "set_error_cb"}

ListenerAssumption ==
  /\ Loop \notin Thread /\ Nobody \notin Thread \cup {Loop}
  /\ ThreadApi \subseteq Api /\ CallbackApi \subseteq Api
  /\ MaxBacklog \in Nat

VARIABLES
  cb, errorcb,     \* whether the pointers are set
  enabled, refcnt,
  freed,           \* the memory has been released
  owned,           \* evconnlistener_free has not been called
  lock,            \* the owner of the lock
  added, active,   \* the event is pending, is in the active queue
  loop,            \* where the thread of the loop is in listener_read_cb
  waits,           \* for each thread: the call in which event_del waits
  backlog

lev == <<cb, errorcb, enabled, refcnt, freed, owned>>
event == <<added, active>>
vars == <<lev, lock, event, loop, waits, backlog>>

InCallback == {"cb", "errorcb"}
LoopPlaces == {"idle", "called", "accepting", "returned"} \cup InCallback
NotWaiting == [call |-> "none", woken |-> FALSE]

Init ==
  /\ cb = TRUE /\ errorcb = FALSE
  /\ enabled \in BOOLEAN          \* LEV_OPT_DISABLED
  /\ added = enabled /\ active = FALSE
  /\ refcnt = 1 /\ freed = FALSE /\ owned = TRUE
  /\ lock = Nobody
  /\ loop = "idle"
  /\ waits = [t \in Thread |-> NotWaiting]
  /\ backlog = 0

-----------------------------------------------------------------------------
(* Calls                                                                   *)

\* event_del has to wait: the callback of the event runs in another thread.
MustWait(t) == t # Loop /\ loop # "idle"

\* The rest of a call that deletes the event, with the unlock.
DeleteAndUnlock(destroy) ==
  /\ added' = FALSE /\ active' = FALSE
  /\ freed' = destroy
  /\ lock' = Nobody

\* A call that ends in event_del, with destroy as listener_decref_and_unlock does.
EventDel(t, call, destroy) ==
  IF MustWait(t)
  THEN /\ lock' = t
       /\ waits' = [waits EXCEPT ![t] = [call |-> call, woken |-> FALSE]]
       /\ UNCHANGED <<event, freed>>
  ELSE DeleteAndUnlock(destroy) /\ UNCHANGED waits

\* Fault: the owner's reference is the last one in any case.
FreeAtOnce(t) ==
  /\ cb' = FALSE /\ errorcb' = FALSE
  /\ owned' = FALSE
  /\ refcnt' = 0
  /\ EventDel(t, "free", TRUE)
  /\ UNCHANGED enabled

evconnlistener_free(t) ==
  /\ cb' = FALSE /\ errorcb' = FALSE
  /\ owned' = FALSE
  /\ refcnt' = refcnt - 1
  /\ IF refcnt = 1
     THEN EventDel(t, "free", TRUE)
     ELSE UNCHANGED <<event, freed, lock, waits>>
  /\ UNCHANGED enabled

evconnlistener_enable ==
  /\ enabled' = TRUE
  /\ added' = (added \/ cb)
  /\ UNCHANGED <<cb, errorcb, refcnt, freed, owned, lock, active, waits>>

evconnlistener_disable(t) ==
  /\ enabled' = FALSE
  /\ EventDel(t, "disable", FALSE)
  /\ UNCHANGED <<cb, errorcb, refcnt, owned>>

\* Fault: the listener is not enabled by the callback it did not have.
SetCbOnly(new) ==
  /\ cb' = new
  /\ UNCHANGED <<errorcb, enabled, refcnt, freed, owned, lock, event, waits>>

\* The nested evconnlistener_enable sees the new pointer.
evconnlistener_set_cb(new) ==
  /\ cb' = new
  /\ added' = (added \/ (enabled /\ ~cb /\ new))
  /\ UNCHANGED <<errorcb, enabled, refcnt, freed, owned, lock, active, waits>>

evconnlistener_set_error_cb ==
  /\ errorcb' = TRUE
  /\ UNCHANGED <<cb, enabled, refcnt, freed, owned, lock, event, waits>>

\* The owner frees the listener when nobody else is in a call.
Call(t, call) ==
  /\ owned
  /\ lock = Nobody
  /\ \/ call = "free" /\ evconnlistener_free(t)
     \/ call = "enable" /\ evconnlistener_enable
     \/ call = "disable" /\ evconnlistener_disable(t)
     \/ call = "set_cb" /\ evconnlistener_set_cb(TRUE)
     \/ call = "unset_cb" /\ evconnlistener_set_cb(FALSE)
     \/ call = "set_error_cb" /\ evconnlistener_set_error_cb
  /\ UNCHANGED <<loop, backlog>>

ThreadCall(t) == \E call \in ThreadApi : Call(t, call)

CallbackCall == loop \in InCallback /\ \E call \in CallbackApi : Call(Loop, call)

\* event_del after its wait: it tests nothing again.
EventDelResumes(t) ==
  /\ waits[t].woken
  /\ DeleteAndUnlock(waits[t].call = "free")
  /\ waits' = [waits EXCEPT ![t] = NotWaiting]
  /\ UNCHANGED <<cb, errorcb, enabled, refcnt, owned, loop, backlog>>

-----------------------------------------------------------------------------
(* The loop and listener_read_cb                                           *)

Arrive ==
  /\ backlog < MaxBacklog
  /\ backlog' = backlog + 1
  /\ UNCHANGED <<lev, lock, event, loop, waits>>

\* The backend finds the socket readable.
Activate ==
  /\ loop = "idle" /\ added /\ ~active /\ backlog > 0
  /\ active' = TRUE
  /\ UNCHANGED <<lev, lock, added, loop, waits, backlog>>

RunEvent ==
  /\ loop = "idle" /\ active
  /\ active' = FALSE
  /\ loop' = "called"
  /\ UNCHANGED <<lev, lock, added, waits, backlog>>

ReadCbLocks ==
  /\ loop = "called" /\ lock = Nobody
  /\ lock' = Loop
  /\ loop' = "accepting"
  /\ UNCHANGED <<lev, event, waits, backlog>>

\* The user's callback is called without the lock, with a reference.
Invoke(callback) ==
  /\ refcnt' = refcnt + 1
  /\ lock' = Nobody
  /\ loop' = callback

Leave ==
  /\ lock' = Nobody
  /\ loop' = "returned"
  /\ UNCHANGED refcnt

\* accept() gives a connection: it is closed at once if there is no callback, and, with an
\* empty address, closed before the next one is tried.
Accept ==
  /\ loop = "accepting" /\ backlog > 0
  /\ backlog' = backlog - 1
  /\ \/ cb /\ Invoke("cb")
     \/ ~cb /\ Leave
     \/ UNCHANGED <<refcnt, lock, loop>>
  /\ UNCHANGED <<cb, errorcb, enabled, freed, owned, event, waits>>

\* Nothing to accept, or an error that is not to be retried (no more descriptors).
AcceptFails ==
  /\ loop = "accepting"
  /\ \/ Leave
     \/ backlog > 0 /\ errorcb /\ Invoke("errorcb")
  /\ UNCHANGED <<cb, errorcb, enabled, freed, owned, event, waits, backlog>>

\* After the callback: the listener has been freed by it or meanwhile, or the loop in
\* listener_read_cb goes on.
CallbackReturns ==
  /\ loop = "cb" /\ lock = Nobody
  /\ refcnt' = refcnt - 1
  /\ IF refcnt = 1
     THEN DeleteAndUnlock(TRUE) /\ loop' = "returned"
     ELSE lock' = Loop /\ loop' = "accepting" /\ UNCHANGED <<event, freed>>
  /\ UNCHANGED <<cb, errorcb, enabled, owned, waits, backlog>>

ErrorCallbackReturns ==
  /\ loop = "errorcb" /\ lock = Nobody
  /\ refcnt' = refcnt - 1
  /\ loop' = "returned"
  /\ IF refcnt = 1
     THEN DeleteAndUnlock(TRUE)
     ELSE UNCHANGED <<event, freed, lock>>
  /\ UNCHANGED <<cb, errorcb, enabled, owned, waits, backlog>>

\* The loop is done with the callback and broadcasts current_event_cond.
EventDone ==
  /\ loop = "returned"
  /\ loop' = "idle"
  /\ waits' = [t \in Thread |-> [waits[t] EXCEPT !.woken = waits[t].call # "none"]]
  /\ UNCHANGED <<lev, lock, event, backlog>>

LoopStep ==
  \/ Activate \/ RunEvent \/ ReadCbLocks \/ Accept \/ AcceptFails
  \/ CallbackReturns \/ ErrorCallbackReturns \/ EventDone

Next ==
  \/ Arrive \/ CallbackCall \/ LoopStep
  \/ \E t \in Thread : ThreadCall(t) \/ EventDelResumes(t)

Spec == Init /\ [][Next]_vars

\* The loop runs, the user's callbacks return, the lock is given to the loop if it is free
\* again and again, and a thread that has been woken goes on.
FairSpec ==
  /\ Spec
  /\ WF_vars(LoopStep)
  /\ SF_vars(ReadCbLocks) /\ SF_vars(CallbackReturns) /\ SF_vars(ErrorCallbackReturns)
  /\ \A t \in Thread : WF_vars(EventDelResumes(t))

-----------------------------------------------------------------------------
TypeOK ==
  /\ {cb, errorcb, enabled, freed, owned, added, active} \subseteq BOOLEAN
  /\ refcnt \in 0..2
  /\ lock \in Thread \cup {Loop, Nobody}
  /\ loop \in LoopPlaces
  /\ waits \in [Thread -> [call : {"none", "free", "disable"}, woken : BOOLEAN]]
  /\ backlog \in 0..MaxBacklog

\* One reference of the owner and one of the callback that runs.  When the last one is
\* dropped nothing of the listener is used any more: no queue holds its event, nobody
\* holds its lock, and listener_read_cb touches it no more.
NoUseAfterFree ==
  /\ refcnt = (IF owned THEN 1 ELSE 0) + (IF loop \in InCallback THEN 1 ELSE 0)
  /\ freed => /\ ~added /\ ~active
              /\ lock = Nobody
              /\ loop \in {"idle", "returned"}
              /\ \A t \in Thread : waits[t] = NotWaiting

\* The event is pending exactly if the listener is enabled, but for one that was enabled
\* without a callback: an interrupted call, or a callback set later, leaves no listener
\* that believes it is enabled and never accepts.
EventFollowsFlags ==
  owned /\ lock = Nobody => (enabled /\ cb => added) /\ (added => enabled)

\* Memory, event and flags of a listener are right together.
ListenerOK == TypeOK /\ NoUseAfterFree /\ EventFollowsFlags

\* A listener that is freed by its callback, or while its callback runs, is released.
FreeReleases == ~owned ~> freed
=============================================================================
