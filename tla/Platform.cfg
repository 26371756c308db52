\* Condition variables, fds and signals.
SPECIFICATION FairSpec
CONSTANTS
  Waiter = {w1, w2, w3}
  Broadcasts = {TRUE}
  Timed = {w3}
  NoThread = NoThread
  MaxToWake = 0
  fd1 = fd1
  fd2 = fd2
  ev1 = ev1
  ev2 = ev2
  ev3 = ev3
  ev4 = ev4
  Fd = {fd1, fd2}
  MapEvent = {ev1, ev2, ev3, ev4}
  FdOf <- MCFdOf
  EventsOf <- MCEventsOf
  MaxPerFd = 2
  NEVENT = 1
  base1 = base1
  base2 = base2
  sig1 = sig1
  sig2 = sig2
  sig3 = sig3
  int = int
  Base = {base1, base2}
  NoBase = NoBase
  Signal = {int}
  SignalEvent = {sig1, sig2, sig3}
  BaseOf <- MCBaseOf
  SignalOf <- MCSignalOf
  Handler = {h1, h2}
  OneAtATime = TRUE
  MaxCaught = 2
INVARIANTS
  BackendOK
  SignalHandlingOK
PROPERTIES
  ImplementsCondVar
  BroadcastWakes
  ReadyIsReported
  SignalReaches
