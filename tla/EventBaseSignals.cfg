\* A persistent signal event that is activated with several calls, deferred callbacks that
\* schedule one another, and breaks, under the fairness of the loop thread and of the lock.
SPECIFICATION FairSpec
CONSTANTS
  Event = {sig, notify, exit}
  Deferred = {d1, d2}
  Internal = {notify}
  NPriorities = 1
  Priority <- MCPriority
  Thread = {t1}
  LoopThread = t0
  NoThread = NoThread
  NoCallback = NoCallback
  Kind <- MCKind
  IoEvent = {notify}
  SignalEvent = {sig}
  Low = {}
  Persist = {sig, notify}
  EvFinalize = {}
  NotifyEv = notify
  ExitEv = exit
  Delays = {}
  ThreadApi = {"event_add", "event_del", "event_active", "event_finalize", "event_base_loopbreak", "event_deferred_cb_cancel_"}
  CallbackApi = {"event_del", "event_deferred_cb_schedule_"}
  LoopFlags = {{}}
  MAX_DEFERREDS_QUEUED = 1
  MaxDispatchCallbacks = 1
  MaxDispatchTime <- MCUnlimited
  LimitCallbacksAfterPrio = 2
  NoCacheTime = FALSE
  MaxTime = 0
  MaxCalls = 2
  MaxVirtual = 0
INVARIANTS
  TypeOK
  SignalCallsOK
PROPERTIES
  DeferredsDoNotStarve
  WaitersReturn
  ActiveRuns
  LoopStops
