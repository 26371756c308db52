\* A persistent event with a timeout is deleted and added again without one.
SPECIFICATION Spec
CONSTANTS
  Event = {io, notify, exit}
  Deferred = {}
  Internal = {notify}
  NPriorities = 1
  Priority <- MCPriority
  Thread = {t1}
  LoopThread = t0
  NoThread = NoThread
  NoCallback = NoCallback
  Kind <- MCKind
  IoEvent = {io, notify}
  SignalEvent = {}
  Low = {}
  Persist = {io, notify}
  EvFinalize = {}
  NotifyEv = notify
  ExitEv = exit
  Delays = {1}
  ThreadApi = {"event_add", "event_del"}
  CallbackApi = {}
  LoopFlags = {{}}
  MAX_DEFERREDS_QUEUED = 1
  MaxDispatchCallbacks = 1
  MaxDispatchTime <- MCUnlimited
  LimitCallbacksAfterPrio = 2
  NoCacheTime = FALSE
  MaxTime = 2
  MaxCalls = 1
  MaxVirtual = 0
INVARIANTS
  TimeoutOnlyIfAsked
