\* Six events: the smallest heap in which erase has to shift the last element up.
SPECIFICATION Spec
CONSTANTS
  Event = {e1, e2, e3, e4, e5, e6}
  NoEvent = NoEvent
  MaxTimeout = 2
SYMMETRY Symmetry
INVARIANTS
  HeapOK
PROPERTY
  ImplementsTimeoutQueue
