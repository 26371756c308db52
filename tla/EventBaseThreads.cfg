\* Two threads and the callbacks add, delete and activate a persistent and a
\* one-shot fd event; a thread or a callback breaks the loop.
SPECIFICATION Spec
CONSTANTS
  Event = {io, io2, notify, exit}
  Deferred = {}
  Internal = {notify}
  NPriorities = 1
  Priority <- MCPriority
  Thread = {t1, t2}
  LoopThread = t0
  NoThread = NoThread
  NoCallback = NoCallback
  Kind <- MCKind
  IoEvent = {io, io2, notify}
  SignalEvent = {}
  Low = {}
  Persist = {io, notify}
  EvFinalize = {}
  NotifyEv = notify
  ExitEv = exit
  Delays = {}
  ThreadApi = {"event_add", "event_del", "event_active", "event_base_loopbreak"}
  CallbackApi = {"event_add", "event_del", "event_active"}
  LoopFlags = {{}}
  MAX_DEFERREDS_QUEUED = 1
  MaxDispatchCallbacks = 1
  MaxDispatchTime <- MCUnlimited
  LimitCallbacksAfterPrio = 2
  NoCacheTime = FALSE
  MaxTime = 0
  MaxCalls = 1
  MaxVirtual = 0
INVARIANTS
  QueuesAlwaysOK
  WaitersServed
  NoLostWakeup
  BreakAfterOneEvent
PROPERTIES
  RunsOnlyIfArmed
