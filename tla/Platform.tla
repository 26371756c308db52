------------------------------ MODULE Platform ------------------------------
(***************************************************************************)
(* What the loop rests on: condition variables, the map of fds and the     *)
(* select backend, and signals, with their liveness.  A behaviour chooses  *)
(* one part and runs it under the fairness of its module, while the others *)
(* stay in an initial state.  They share no state, so their product would  *)
(* show nothing more; an invariant is evaluated only where its part runs,  *)
(* since it holds initially.                                               *)
(*                                                                         *)
(* Constants and variables that bear the same name in several modules have *)
(* the name of the part in front; the others are bound by their names.     *)
(***************************************************************************)
EXTENDS Integers

\* Threads that signal or broadcast and wait, some of them with timeouts.
CONSTANTS Waiter, Broadcasts, Timed, NoThread, MaxToWake

VARIABLES holder, event, n_waiting, n_to_wake, newer, pc

Cond == INSTANCE EvThreadWin32 WITH Thread <- Waiter

\* Events of several fds.
CONSTANTS Fd, MapEvent, FdOf, EventsOf, MaxPerFd, NEVENT

VARIABLES map_events, count, map_op, out, selecting, notified, ready, map_result

Map == INSTANCE EvMap WITH
  Event <- MapEvent, events <- map_events, op <- map_op, result <- map_result

\* Bases that use signals one after the other.
CONSTANTS Base, NoBase, Signal, SignalEvent, BaseOf, SignalOf, Handler, OneAtATime, MaxCaught

VARIABLES
  evsig_base, evsig_base_n_signals_added, evsig_base_fd, handler, signal_events,
  n_signals_added, ev_signal_added, sh_old, busy, socket, ncaught, signal_active, signal_at

Signals == INSTANCE EvSignal WITH
  None <- NoBase, Event <- SignalEvent,
  events <- signal_events, active <- signal_active, at <- signal_at

ASSUME PlatformAssumption ==
  /\ Cond!CondAssumption
  /\ Map!EvMapAssumption /\ Map!Win32Assumption
  /\ Signals!EvSignalAssumption

VARIABLE part

condVars == <<holder, event, n_waiting, n_to_wake, newer, pc>>
mapVars == <<map_events, count, map_op, out, selecting, notified, ready, map_result>>
signalVars == <<
  evsig_base, evsig_base_n_signals_added, evsig_base_fd, handler, signal_events,
  n_signals_added, ev_signal_added, sh_old, busy, socket, ncaught, signal_active, signal_at>>

vars == <<part, condVars, mapVars, signalVars>>

Parts == {"cond", "map", "signals"}

Init ==
  /\ part \in Parts
  /\ Cond!Init
  /\ Map!Init
  /\ part # "map" => ready = {}
  /\ Signals!Init

CondNext ==
  /\ part = "cond" /\ Cond!Next
  /\ UNCHANGED <<mapVars, signalVars>>

MapNext ==
  /\ part = "map" /\ Map!Next
  /\ UNCHANGED <<condVars, signalVars>>

SignalsNext ==
  /\ part = "signals" /\ Signals!Next
  /\ UNCHANGED <<condVars, mapVars>>

Next ==
  /\ \/ CondNext \/ MapNext \/ SignalsNext
  /\ UNCHANGED part

Spec == Init /\ [][Next]_vars

\* The fairness of the modules, each of which explains its own, where their parts run.
FairSpec ==
  /\ Spec
  /\ \A t \in Waiter :
       /\ WF_condVars(part = "cond" /\ (\/ Cond!WaitUnlock(t) \/ Cond!WaitObject(t)
                                        \/ Cond!WaitClaim(t) \/ Cond!WaitReturn(t)
                                        \/ Cond!Unlock(t)))
       /\ SF_condVars(part = "cond" /\ Cond!WaitLock(t))
  /\ WF_mapVars(part = "map" /\ Map!Loop)
  /\ \A h \in Handler : WF_signalVars(part = "signals" /\ Signals!HandlerStep(h))
  /\ \A b \in Base :
       /\ WF_signalVars(part = "signals" /\ Signals!CbReads(b))
       /\ SF_signalVars(part = "signals" /\ Signals!CbActivates(b))
  /\ \A ev \in SignalEvent : WF_signalVars(part = "signals" /\ Signals!GoOn(ev))

-----------------------------------------------------------------------------
(* The properties are those of the modules, where they are explained.      *)

\* evthread_win32.c: a condition variable of which broadcasts wake all waiters.
ImplementsCondVar == Cond!ImplementsCondVar

\* evthread_win32.c: a thread that waited at a broadcast leaves the call.
BroadcastWakes == Cond!BroadcastWakes

\* evmap.c and win32select.c: lists, counts and fd sets agree, positions survive moves, and
\* select() looks at all that is watched, or the loop is notified.
BackendOK == part = "map" => Map!BackendOK

\* evmap.c: a socket that stays ready is reported.
ReadyIsReported == Map!ReadyIsReported

\* signal.c: a base has saved a handler exactly for the signals of its events, and is the one
\* that the handler informs.
SignalHandlingOK == part = "signals" => Signals!SignalHandlingOK

\* signal.c: a signal that was caught reaches the events.
SignalReaches == Signals!SignalReaches
=============================================================================
