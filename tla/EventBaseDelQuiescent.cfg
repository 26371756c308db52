\* A callback activates its own event while a thread waits in event_del.
SPECIFICATION Spec
CONSTANTS
  Event = {io, notify, exit}
  Deferred = {}
  Internal = {notify}
  NPriorities = 1
  Priority <- MCPriority
  Thread = {t1}
  LoopThread = t0
  NoThread = NoThread
  NoCallback = NoCallback
  Kind <- MCKind
  IoEvent = {io, notify}
  SignalEvent = {}
  Low = {}
  Persist = {io, notify}
  EvFinalize = {}
  NotifyEv = notify
  ExitEv = exit
  Delays = {}
  ThreadApi = {"event_add", "event_del"}
  CallbackApi = {"event_active"}
  LoopFlags = {{}}
  MAX_DEFERREDS_QUEUED = 1
  MaxDispatchCallbacks = 1
  MaxDispatchTime <- MCUnlimited
  LimitCallbacksAfterPrio = 2
  NoCacheTime = FALSE
  MaxTime = 0
  MaxCalls = 1
  MaxVirtual = 0
INVARIANTS
  DelQuiescent
