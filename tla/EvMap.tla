------------------------------- MODULE EvMap -------------------------------
(***************************************************************************)
(* evmap.c over win32select.c: several events share an fd.  The map counts *)
(* the events that read, write or wait for the end of each fd and tells    *)
(* the backend only of the first and the last one of a kind; its result 1  *)
(* makes event.c wake the thread that sleeps in select(), which still      *)
(* looks at the sets as they were before.                                  *)
(*                                                                         *)
(* Every call is made with th_base_lock; select() runs without it.  The    *)
(* lists of events are sets: nothing depends on their order.               *)
(***************************************************************************)
EXTENDS Win32Select, FiniteSets

CONSTANTS
  Event,
  FdOf,          \* the fd of each event
  EventsOf,      \* its EV_READ, EV_WRITE, EV_CLOSED
  MaxPerFd       \* 0xffff: the counts are 16 bits wide

Kind == Direction \cup {"closed"}

EvMapAssumption ==
  /\ FdOf \in [Event -> Fd]
  /\ EventsOf \in [Event -> SUBSET Kind \ {{}}]
  /\ MaxPerFd \in Nat \ {0}

VARIABLES
  events,     \* the events in the lists
  count,      \* nread, nwrite and nclose
  op,         \* the state of the backend
  out,        \* what the running select() looks at, or {}
  selecting,  \* the loop is in select()
  notified,   \* the notification fd is readable
  ready,      \* the fds and directions in which the peer has made progress
  result      \* for each event in the active queue its result, {} for the others

vars == <<events, count, op, out, selecting, notified, ready, result>>

On(fd) == { ev \in events : FdOf[ev] = fd }
Watched == { fdd \in Fd \X Direction : fdd[2] \in UNION { EventsOf[ev] : ev \in On(fdd[1]) } }

Init ==
  /\ events = {}
  /\ count = [fd \in Fd |-> [k \in Kind |-> 0]]
  /\ op = win32_init
  /\ out = {} /\ selecting = FALSE /\ notified = FALSE
  /\ ready \in SUBSET (Fd \X Direction)
  /\ result = [ev \in Event |-> {}]

\* A call with the result 1 wakes the loop unless the loop's own thread makes it.
Notify(caller, changed) ==
  notified' = (notified \/ (caller = "other" /\ changed))

CallerOK(caller) == caller = "loop" => ~selecting

\* Fault: only the first event of an fd counts as a change.
AddFirstOnly(caller, ev) ==
  LET fd == FdOf[ev]
      res == IF On(fd) = {} THEN EventsOf[ev] ELSE {}
  IN /\ ev \notin events /\ CallerOK(caller)
     /\ op' = win32_add(op, fd, res)
     /\ count' = [count EXCEPT ![fd] = [k \in Kind |-> @[k] + (IF k \in EventsOf[ev] THEN 1 ELSE 0)]]
     /\ events' = events \cup {ev}
     /\ Notify(caller, res # {})
     /\ UNCHANGED <<out, selecting, ready, result>>

\* Fault: the limit of the counts is not checked before the backend is told, and a count
\* of 16 bits wraps.
AddWraps(caller, ev) ==
  LET fd == FdOf[ev]
      n == [k \in Kind |-> (count[fd][k] + (IF k \in EventsOf[ev] THEN 1 ELSE 0)) % (MaxPerFd + 1)]
      res == { k \in EventsOf[ev] : n[k] = 1 }
  IN /\ ev \notin events /\ CallerOK(caller)
     /\ op' = win32_add(op, fd, res)
     /\ count' = [count EXCEPT ![fd] = n]
     /\ events' = events \cup {ev}
     /\ Notify(caller, res # {})
     /\ UNCHANGED <<out, selecting, ready, result>>

\* "Too many events reading or writing on fd": the event is not added.
evmap_io_add_(caller, ev) ==
  LET fd == FdOf[ev]
      n == [k \in Kind |-> count[fd][k] + (IF k \in EventsOf[ev] THEN 1 ELSE 0)]
      res == { k \in EventsOf[ev] : n[k] = 1 }
  IN /\ ev \notin events /\ CallerOK(caller)
     /\ \A k \in Kind : n[k] <= MaxPerFd
     /\ op' = win32_add(op, fd, res)
     /\ count' = [count EXCEPT ![fd] = n]
     /\ events' = events \cup {ev}
     /\ Notify(caller, res # {})
     /\ UNCHANGED <<out, selecting, ready, result>>

\* Fault: the backend forgets a direction with any of its events.
DelEveryKind(caller, ev) ==
  LET fd == FdOf[ev]
  IN /\ ev \in events /\ CallerOK(caller)
     /\ op' = win32_del(op, fd, EventsOf[ev])
     /\ count' = [count EXCEPT ![fd] = [k \in Kind |-> @[k] - (IF k \in EventsOf[ev] THEN 1 ELSE 0)]]
     /\ events' = events \ {ev}
     /\ result' = [result EXCEPT ![ev] = {}]
     /\ Notify(caller, TRUE)
     /\ UNCHANGED <<out, selecting, ready>>

\* With the removal from the active queue that event_del_nolock_ makes.
evmap_io_del_(caller, ev) ==
  LET fd == FdOf[ev]
      n == [k \in Kind |-> count[fd][k] - (IF k \in EventsOf[ev] THEN 1 ELSE 0)]
      res == { k \in EventsOf[ev] : n[k] = 0 }
  IN /\ ev \in events /\ CallerOK(caller)
     /\ op' = win32_del(op, fd, res)
     /\ count' = [count EXCEPT ![fd] = n]
     /\ events' = events \ {ev}
     /\ result' = [result EXCEPT ![ev] = {}]
     /\ Notify(caller, res # {})
     /\ UNCHANGED <<out, selecting, ready>>

\* The sets are copied and the lock is released.
DispatchSelects ==
  /\ ~selecting
  /\ \A ev \in Event : result[ev] = {}     \* the active events have been run
  /\ op' = resize(op)
  /\ out' = UNION { ToSet(op.set[d]) \X {d} : d \in Direction }
  /\ selecting' = TRUE
  /\ UNCHANGED <<events, count, notified, ready, result>>

\* evmap_io_active_ for every fd in the sets that select() has left.
evmap_io_active_(found) ==
  result' = [ev \in Event |->
    IF ev \in events
    THEN result[ev] \cup { d \in EventsOf[ev] : <<FdOf[ev], d>> \in found }
    ELSE result[ev]]

\* select() has an answer and the lock has been acquired; what has changed since the sets
\* were copied is what the events are looked up in.
DispatchReturns ==
  /\ selecting
  /\ notified \/ out \cap ready # {}
  /\ evmap_io_active_(out \cap ready)
  /\ notified' = FALSE
  /\ out' = {} /\ selecting' = FALSE
  /\ UNCHANGED <<events, count, op, ready>>

\* The timeout of the loop is over and select() has found nothing.
DispatchTimesOut ==
  /\ selecting
  /\ ~notified /\ out \cap ready = {}
  /\ out' = {} /\ selecting' = FALSE
  /\ UNCHANGED <<events, count, op, notified, ready, result>>

RunEvent(ev) ==
  /\ result[ev] # {} /\ ~selecting
  /\ result' = [result EXCEPT ![ev] = {}]
  /\ UNCHANGED <<events, count, op, out, selecting, notified, ready>>

Peer ==
  /\ \E fdd \in Fd \X Direction : ready' = (ready \cup {fdd}) \/ ready' = (ready \ {fdd})
  /\ UNCHANGED <<events, count, op, out, selecting, notified, result>>

Loop == DispatchSelects \/ DispatchReturns \/ \E ev \in Event : RunEvent(ev)

Next ==
  \/ \E caller \in {"loop", "other"}, ev \in Event :
       evmap_io_add_(caller, ev) \/ evmap_io_del_(caller, ev)
  \/ Loop \/ DispatchTimesOut \/ Peer

Spec == Init /\ [][Next]_vars

\* The thread of the loop runs.
FairSpec == Spec /\ WF_vars(Loop)

-----------------------------------------------------------------------------
TypeOK ==
  /\ events \subseteq Event
  /\ count \in [Fd -> [Kind -> 0..MaxPerFd]]
  /\ op.set \in [Direction -> Seq(Fd)] /\ op.pos \in [Direction -> [Fd -> Nat]]
  /\ op.num_fds \in Nat /\ op.out_size \in Nat /\ op.resize_out_sets \in BOOLEAN
  /\ out \subseteq Fd \X Direction
  /\ {selecting, notified} \subseteq BOOLEAN
  /\ ready \subseteq Fd \X Direction
  /\ \A ev \in Event : result[ev] \subseteq EventsOf[ev]

\* The three records of what an fd waits for agree, whatever the order of additions and
\* removals: the lists, the counts, and the sets of the backend.  A miscount would leave
\* a socket in select() for ever, or none.
BackendAgrees ==
  /\ \A fd \in Fd, k \in Kind :
       count[fd][k] = Cardinality({ ev \in On(fd) : k \in EventsOf[ev] })
  /\ \A d \in Direction : ToSet(op.set[d]) = { fd \in Fd : <<fd, d>> \in Watched }

\* The positions survive the moves, and no array is overrun when another thread makes the
\* sets grow while the loop is in select() with the copies.
SetsOK == PositionsOK(op) /\ RoomOK(op)

\* While the loop sleeps in select() on its copies, an fd or direction that it does not
\* look at is one of which it has been notified.
SelectIsCurrent == selecting /\ ~notified => Watched \subseteq out

\* The loop waits in select() for what the events of all threads ask for.
BackendOK == TypeOK /\ BackendAgrees /\ SetsOK /\ SelectIsCurrent

\* A socket that stays ready is reported to an event that waits for it.
ReadyIsReported ==
  \A ev \in Event : \A d \in EventsOf[ev] \cap Direction :
    (ev \in events /\ <<FdOf[ev], d>> \in ready)
      ~> (d \in result[ev] \/ ev \notin events \/ <<FdOf[ev], d>> \notin ready)
=============================================================================
