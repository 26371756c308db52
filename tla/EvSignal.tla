------------------------------ MODULE EvSignal ------------------------------
(***************************************************************************)
(* signal.c with the signal part of evmap.c: the handler of the process    *)
(* writes the number of a signal to the socket pair of the base that was   *)
(* the last to add a signal; the loop of that base reads the numbers and   *)
(* activates the events.  Each base saves the handler it replaces.         *)
(*                                                                         *)
(* The build has no sigaction(): the system resets the handler of a signal *)
(* that it delivers, in a thread of its own, and evsig_handler installs    *)
(* itself again.                                                           *)
(***************************************************************************)
EXTENDS Naturals, FiniteSets

CONSTANTS
  Base, None,
  Signal,
  Event, BaseOf, SignalOf,
  Handler,        \* threads in which signals are delivered
  OneAtATime,     \* a base adds signals only when no other base has any
  MaxCaught       \* bound of the signals of one number under way

EvSignalAssumption ==
  /\ None \notin Base \cup Signal
  /\ IsFiniteSet(Signal) /\ IsFiniteSet(Handler)
  /\ BaseOf \in [Event -> Base] /\ SignalOf \in [Event -> Signal]
  /\ OneAtATime \in BOOLEAN
  /\ MaxCaught \in Nat \ {0}

VARIABLES
  evsig_base, evsig_base_n_signals_added,
  evsig_base_fd,     \* the base whose socket it is
  handler,           \* of the process, for each signal: "default" or "evsig"
  events,            \* the signal events that are pending
  n_signals_added,   \* ev_n_signals_added of each base
  ev_signal_added,   \* the bases whose internal event is pending
  sh_old,            \* the saved handlers of each base, "none" for NULL
  busy,              \* the call a base is in the middle of: <<call, event>>
  socket,            \* the numbers in the socket pair of each base, counted
  ncaught,           \* what evsig_cb of each base has read
  active,            \* the events in the active queues
  at                 \* for each Handler thread <<place, signal>>

globals == <<evsig_base, evsig_base_n_signals_added, evsig_base_fd>>
perBase == <<n_signals_added, ev_signal_added, sh_old, busy>>
vars == <<globals, handler, events, perBase, socket, ncaught, active, at>>

Idle == <<"none", None>>
NoSignals == [s \in Signal |-> 0]

Init ==
  /\ evsig_base = None /\ evsig_base_n_signals_added = 0 /\ evsig_base_fd = None
  /\ handler = [s \in Signal |-> "default"]
  /\ events = {} /\ active = {}
  /\ n_signals_added = [b \in Base |-> 0]
  /\ ev_signal_added = {}
  /\ sh_old = [b \in Base |-> [s \in Signal |-> "none"]]
  /\ busy = [b \in Base |-> Idle]
  /\ socket = [b \in Base |-> NoSignals]
  /\ ncaught = [b \in Base |-> NoSignals]
  /\ at = [h \in Handler |-> Idle]

OfSignal(b, s) == { ev \in events : BaseOf[ev] = b /\ SignalOf[ev] = s }

MayAdd(b) ==
  OneAtATime => \A c \in Base \ {b} : n_signals_added[c] = 0 /\ busy[c] = Idle

-----------------------------------------------------------------------------
(* evmap_signal_add_ and evsig_add: the base takes over under evsig_base_lock, *)
(* then sets the handler; both under its own th_base_lock.                     *)

\* An event whose signal has one already: the list is all that changes.
evmap_signal_add_(ev) ==
  /\ ev \notin events /\ busy[BaseOf[ev]] = Idle
  /\ OfSignal(BaseOf[ev], SignalOf[ev]) # {}
  /\ events' = events \cup {ev}
  /\ UNCHANGED <<globals, handler, perBase, socket, ncaught, active, at>>

TakeOver(b, n) ==
  /\ evsig_base' = b
  /\ evsig_base_n_signals_added' = n
  /\ evsig_base_fd' = b

evsig_add(ev) ==
  LET b == BaseOf[ev]
  IN /\ ev \notin events /\ busy[b] = Idle /\ MayAdd(b)
     /\ OfSignal(b, SignalOf[ev]) = {}
     /\ n_signals_added' = [n_signals_added EXCEPT ![b] = @ + 1]
     /\ TakeOver(b, n_signals_added'[b])
     /\ busy' = [busy EXCEPT ![b] = <<"add", ev>>]
     /\ UNCHANGED <<handler, events, ev_signal_added, sh_old, socket, ncaught, active, at>>

\* Fault: the internal event that reads the socket is not added.
SetHandlerOnly(ev) ==
  LET b == BaseOf[ev] s == SignalOf[ev]
  IN /\ busy[b] = <<"add", ev>>
     /\ sh_old' = [sh_old EXCEPT ![b][s] = handler[s]]
     /\ handler' = [handler EXCEPT ![s] = "evsig"]
     /\ events' = events \cup {ev}
     /\ busy' = [busy EXCEPT ![b] = Idle]
     /\ UNCHANGED <<globals, n_signals_added, ev_signal_added, socket, ncaught, active, at>>

\* The rest of evsig_add, and of evmap_signal_add_.
evsig_set_handler_(ev) ==
  LET b == BaseOf[ev] s == SignalOf[ev]
  IN /\ busy[b] = <<"add", ev>>
     /\ sh_old' = [sh_old EXCEPT ![b][s] = handler[s]]
     /\ handler' = [handler EXCEPT ![s] = "evsig"]
     /\ ev_signal_added' = ev_signal_added \cup {b}
     /\ events' = events \cup {ev}
     /\ busy' = [busy EXCEPT ![b] = Idle]
     /\ UNCHANGED <<globals, n_signals_added, socket, ncaught, active, at>>

evmap_signal_del_(ev) ==
  /\ ev \in events /\ busy[BaseOf[ev]] = Idle
  /\ OfSignal(BaseOf[ev], SignalOf[ev]) # {ev}
  /\ events' = events \ {ev}
  /\ active' = active \ {ev}
  /\ UNCHANGED <<globals, handler, perBase, socket, ncaught, at>>

\* Fault: the handler is restored with any event of the signal.
DelAnyEvent(ev) ==
  LET b == BaseOf[ev]
  IN /\ ev \in events /\ busy[b] = Idle
     /\ events' = events \ {ev} /\ active' = active \ {ev}
     /\ evsig_base_n_signals_added' = evsig_base_n_signals_added - 1
     /\ n_signals_added' = [n_signals_added EXCEPT ![b] = @ - 1]
     /\ busy' = [busy EXCEPT ![b] = <<"del", ev>>]
     /\ UNCHANGED <<evsig_base, evsig_base_fd, handler, ev_signal_added, sh_old, socket, ncaught, at>>

\* The last event of a signal: the counters first.
evsig_del(ev) ==
  LET b == BaseOf[ev]
  IN /\ ev \in events /\ busy[b] = Idle
     /\ OfSignal(b, SignalOf[ev]) = {ev}
     /\ events' = events \ {ev} /\ active' = active \ {ev}
     /\ evsig_base_n_signals_added' = evsig_base_n_signals_added - 1
     /\ n_signals_added' = [n_signals_added EXCEPT ![b] = @ - 1]
     /\ busy' = [busy EXCEPT ![b] = <<"del", ev>>]
     /\ UNCHANGED <<evsig_base, evsig_base_fd, handler, ev_signal_added, sh_old, socket, ncaught, at>>

evsig_restore_handler_(ev) ==
  LET b == BaseOf[ev] s == SignalOf[ev]
  IN /\ busy[b] = <<"del", ev>>
     /\ handler' = [handler EXCEPT ![s] = sh_old[b][s]]
     /\ sh_old' = [sh_old EXCEPT ![b][s] = "none"]
     /\ busy' = [busy EXCEPT ![b] = Idle]
     /\ UNCHANGED <<globals, events, n_signals_added, ev_signal_added, socket, ncaught, active, at>>

\* event_base_loop begins.
evsig_set_base_(b) ==
  /\ busy[b] = Idle
  /\ b \in ev_signal_added /\ n_signals_added[b] > 0
  /\ TakeOver(b, n_signals_added[b])
  /\ UNCHANGED <<handler, events, perBase, socket, ncaught, active, at>>

\* The base is freed, when its signal events have been deleted; a base made later takes
\* its name.
evsig_dealloc_(b) ==
  /\ b \in ev_signal_added
  /\ busy[b] = Idle /\ ncaught[b] = NoSignals
  /\ \A ev \in events : BaseOf[ev] # b
  /\ ev_signal_added' = ev_signal_added \ {b}
  /\ socket' = [socket EXCEPT ![b] = NoSignals]
  /\ IF evsig_base = b
     THEN evsig_base' = None /\ evsig_base_n_signals_added' = 0 /\ evsig_base_fd' = None
     ELSE UNCHANGED globals
  /\ UNCHANGED <<handler, events, n_signals_added, sh_old, busy, ncaught, active, at>>

-----------------------------------------------------------------------------
(* A signal and its way to the events                                      *)

UnderWay(s) == Cardinality({ h \in Handler : at[h][2] = s })

\* The system delivers a signal and resets its handler.
Deliver(h, s) ==
  /\ at[h] = Idle
  /\ handler[s] = "evsig"
  /\ \A b \in Base : socket[b][s] + UnderWay(s) < MaxCaught
  /\ handler' = [handler EXCEPT ![s] = "default"]
  /\ at' = [at EXCEPT ![h] = <<"check", s>>]
  /\ UNCHANGED <<globals, events, perBase, socket, ncaught, active>>

\* "received signal, but have no base configured": the handler is not installed again.
HandlerChecks(h) ==
  /\ at[h][1] = "check"
  /\ at' = [at EXCEPT ![h] = IF evsig_base = None THEN Idle ELSE <<"reinstall", @[2]>>]
  /\ UNCHANGED <<globals, handler, events, perBase, socket, ncaught, active>>

\* Fault: the handler is not installed again.
NoReinstall(h) ==
  /\ at[h][1] = "reinstall"
  /\ at' = [at EXCEPT ![h] = <<"send", @[2]>>]
  /\ UNCHANGED <<globals, handler, events, perBase, socket, ncaught, active>>

HandlerReinstalls(h) ==
  /\ at[h][1] = "reinstall"
  /\ handler' = [handler EXCEPT ![at[h][2]] = "evsig"]
  /\ at' = [at EXCEPT ![h] = <<"send", @[2]>>]
  /\ UNCHANGED <<globals, events, perBase, socket, ncaught, active>>

HandlerSends(h) ==
  /\ at[h][1] = "send"
  /\ socket' = IF evsig_base_fd = None THEN socket
               ELSE [socket EXCEPT ![evsig_base_fd][at[h][2]] = @ + 1]
  /\ at' = [at EXCEPT ![h] = Idle]
  /\ UNCHANGED <<globals, handler, events, perBase, ncaught, active>>

\* evsig_cb up to the lock: it reads until the socket is empty.
CbReads(b) ==
  /\ b \in ev_signal_added
  /\ ncaught[b] = NoSignals /\ socket[b] # NoSignals
  /\ ncaught' = [ncaught EXCEPT ![b] = socket[b]]
  /\ socket' = [socket EXCEPT ![b] = NoSignals]
  /\ UNCHANGED <<globals, handler, events, perBase, active, at>>

\* evmap_signal_active_ for every signal that was caught.
CbActivates(b) ==
  /\ ncaught[b] # NoSignals /\ busy[b] = Idle
  /\ active' = active \cup { ev \in events : BaseOf[ev] = b /\ ncaught[b][SignalOf[ev]] > 0 }
  /\ ncaught' = [ncaught EXCEPT ![b] = NoSignals]
  /\ UNCHANGED <<globals, handler, events, perBase, socket, at>>

RunEvent(ev) ==
  /\ ev \in active
  /\ active' = active \ {ev}
  /\ UNCHANGED <<globals, handler, events, perBase, socket, ncaught, at>>

HandlerStep(h) == HandlerChecks(h) \/ HandlerReinstalls(h) \/ HandlerSends(h)
CbStep(b) == CbReads(b) \/ CbActivates(b)
GoOn(ev) == evsig_set_handler_(ev) \/ evsig_restore_handler_(ev)

Next ==
  \/ \E ev \in Event : evmap_signal_add_(ev) \/ evsig_add(ev) \/ evmap_signal_del_(ev)
                       \/ evsig_del(ev) \/ GoOn(ev) \/ RunEvent(ev)
  \/ \E b \in Base : evsig_set_base_(b) \/ evsig_dealloc_(b) \/ CbStep(b)
  \/ \E h \in Handler : HandlerStep(h) \/ \E s \in Signal : Deliver(h, s)

Spec == Init /\ [][Next]_vars

\* The handler's thread and the loops run, and a call that has begun is finished; a loop
\* that waits for th_base_lock gets it.
FairSpec ==
  /\ Spec
  /\ \A h \in Handler : WF_vars(HandlerStep(h))
  /\ \A b \in Base : WF_vars(CbReads(b)) /\ SF_vars(CbActivates(b))
  /\ \A ev \in Event : WF_vars(GoOn(ev))

-----------------------------------------------------------------------------
Quiet(s) == UnderWay(s) = 0 /\ \A b \in Base : busy[b] = Idle

TypeOK ==
  /\ {evsig_base, evsig_base_fd} \subseteq Base \cup {None}
  /\ evsig_base_n_signals_added \in Nat
  /\ handler \in [Signal -> {"default", "evsig"}]
  /\ events \subseteq Event /\ active \subseteq events
  /\ n_signals_added \in [Base -> 0..Cardinality(Signal)]
  /\ ev_signal_added \subseteq Base
  /\ sh_old \in [Base -> [Signal -> {"none", "default", "evsig"}]]
  /\ socket \in [Base -> [Signal -> 0..MaxCaught]]
  /\ ncaught \in [Base -> [Signal -> 0..MaxCaught]]

\* A base has saved a handler, to be restored or freed later, exactly for the signals it
\* has events for: evsig_restore_handler_ finds one whenever it is called.
SavedHandlers ==
  \A b \in Base : busy[b] = Idle =>
    \A s \in Signal : OfSignal(b, s) # {} <=> sh_old[b][s] # "none"

\* A base with signal events is the one that the handler informs, its handler is installed
\* again after every signal, and the copy of its count is right.
BaseIsInformed ==
  \A b \in Base, s \in Signal :
    OfSignal(b, s) # {} /\ Quiet(s) =>
      /\ handler[s] = "evsig"
      /\ evsig_base = b /\ evsig_base_fd = b
      /\ evsig_base_n_signals_added = n_signals_added[b]

\* The process-wide handling of signals is set up for the events there are.
SignalHandlingOK == TypeOK /\ SavedHandlers /\ BaseIsInformed

\* A signal that the handler has caught, or that is in the socket, reaches the events.
SignalReaches ==
  \A ev \in Event :
    (ev \in events /\ (socket[BaseOf[ev]][SignalOf[ev]] > 0 \/ UnderWay(SignalOf[ev]) > 0))
      ~> (ev \in active \/ ev \notin events)
=============================================================================
