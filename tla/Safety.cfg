\* The safety of the components that are checked without fairness, one after the other.
SPECIFICATION Spec
CHECK_DEADLOCK FALSE
CONSTANTS
  Event = {e1, e2}
  Persist = {e1}
  Duration = {1, 2}
  MAX_COMMON_TIMEOUTS = 1
  Never = Never
  Awake = Awake
  Forever = Forever
  MaxTime = 3
  Buf = {buf1, buf2}
  byte1 = byte1
  byte2 = byte2
  Junk = junk
  Block = {1, 2, 3, 4, 5, 6, 7, 8, 9}
  buffer_MaxData = 2
  MaxLen = 3
  EVBUFFER_CHAIN_SIZE = 2
  MIN_BUFFER_SIZE = 4
  EVBUFFER_CHAIN_MAX_AUTO_SIZE = 4
  Thread = {t1}
  Loop = Loop
  Mode = {"direct", "deferred", "unlocked"}
  bev_MaxData = 1
  Cfg = {1, 2}
  Rate <- MCRate
  Maximum <- MCMaximum
  Len <- MCLen
  NoCfg = NoCfg
  buckets_MaxTime = 3
  MaxDebt = 2
  User = {u1}
  Searching = {}
  Server = {s1, s2}
  None = None
  UserApi = {"cancel", "suspend"}
  Sends = {"sent", "blocked", "error"}
  Answers = {"ok", "refused", "servfail"}
  global_max_requests_inflight = 2
  global_max_reissues = 1
  global_max_retransmits = 1
  global_max_nameserver_timeout = 0
  disable_when_inactive = FALSE
INVARIANTS
  CommonTimeoutsOK
  ChainsOK
  BuffereventOK
  BucketsOK
  RequestsOK
PROPERTIES
  ImplementsTimers
  ImplementsByteQueues
  NoCallbackAfterFree
  UpdateAddsBandwidth
