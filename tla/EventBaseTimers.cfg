\* A persistent fd event with a timeout and a one-shot timer, on a base that caches
\* no time.  The clock goes to 2.
SPECIFICATION Spec
CONSTANTS
  Event = {io, tm, notify, exit}
  Deferred = {}
  Internal = {notify}
  NPriorities = 1
  Priority <- MCPriority
  Thread = {t1}
  LoopThread = t0
  NoThread = NoThread
  NoCallback = NoCallback
  Kind <- MCKind
  IoEvent = {io, notify}
  SignalEvent = {}
  Low = {}
  Persist = {io, notify}
  EvFinalize = {}
  NotifyEv = notify
  ExitEv = exit
  Delays = {1, 2}
  ThreadApi = {"event_add", "event_del", "event_remove_timer"}
  CallbackApi = {"event_del"}
  LoopFlags = {{}}
  MAX_DEFERREDS_QUEUED = 1
  MaxDispatchCallbacks = 1
  MaxDispatchTime <- MCUnlimited
  LimitCallbacksAfterPrio = 2
  NoCacheTime = TRUE
  MaxTime = 2
  MaxCalls = 1
  MaxVirtual = 0
INVARIANTS
  NoOversleep
  PendingOnlyIfAdded
