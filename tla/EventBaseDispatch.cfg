\* When the loop is to return, and in which order it runs callbacks: virtual events, loopexit, the
\* flags of event_base_loop, two priorities, and limits of a dispatch after priority 0.
SPECIFICATION Spec
CONSTANTS
  Event = {io, io2, notify, exit}
  Deferred = {}
  Internal = {notify}
  NPriorities = 2
  Priority <- MCPriority
  Thread = {t1}
  LoopThread = t0
  NoThread = NoThread
  NoCallback = NoCallback
  Kind <- MCKind
  IoEvent = {io, io2, notify}
  SignalEvent = {}
  Low = {io2, exit}
  Persist = {notify}
  EvFinalize = {}
  NotifyEv = notify
  ExitEv = exit
  Delays = {}
  ThreadApi = {"event_add", "event_active", "event_active_later_", "event_base_loopexit", "event_base_add_virtual_", "event_base_del_virtual_"}
  CallbackApi = {"event_active", "event_base_loopcontinue", "event_del_block", "event_base_loopexit"}
  LoopFlags = {{}, {"ONCE"}, {"NONBLOCK"}, {"NO_EXIT_ON_EMPTY"}}
  MAX_DEFERREDS_QUEUED = 1
  MaxDispatchCallbacks = 2
  MaxDispatchTime = 1
  LimitCallbacksAfterPrio = 1
  NoCacheTime = FALSE
  MaxTime = 1
  MaxCalls = 1
  MaxVirtual = 1
INVARIANTS
  EmptyLoopWakes
PROPERTIES
  PriorityOrder
