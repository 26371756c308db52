\* An event with EV_FINALIZE and a deferred callback are torn down by a thread or a
\* callback, while they are added, activated and deleted.
SPECIFICATION Spec
CONSTANTS
  Event = {io, io2, notify, exit}
  Deferred = {d1}
  Internal = {notify}
  NPriorities = 1
  Priority <- MCPriority
  Thread = {t1}
  LoopThread = t0
  NoThread = NoThread
  NoCallback = NoCallback
  Kind <- MCKind
  IoEvent = {io, io2, notify}
  SignalEvent = {}
  Low = {}
  Persist = {io, notify}
  EvFinalize = {io, io2}
  NotifyEv = notify
  ExitEv = exit
  Delays = {}
  ThreadApi = {"event_add", "event_del", "event_active", "event_finalize", "event_callback_finalize_"}
  CallbackApi = {"event_add", "event_del", "event_finalize", "event_deferred_cb_schedule_", "event_callback_finalize_", "event_deferred_cb_cancel_"}
  LoopFlags = {{}}
  MAX_DEFERREDS_QUEUED = 1
  MaxDispatchCallbacks = 1
  MaxDispatchTime <- MCUnlimited
  LimitCallbacksAfterPrio = 2
  NoCacheTime = FALSE
  MaxTime = 0
  MaxCalls = 1
  MaxVirtual = 0
INVARIANTS
  FinalizerWillRun
  FinalizedIsGone
