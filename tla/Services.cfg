\* The listener, a group of rate limits, a bufferevent, the resolver and a connection of HTTP.
SPECIFICATION FairSpec
CHECK_DEADLOCK FALSE
CONSTANTS
  ListenerThread = {t1, t2}
  Loop = Loop
  Nobody = Nobody
  MaxBacklog = 2
  Bev = {b1, b2}
  Rate = 1
  Maximum = 2
  configured_min_share = 2
  MaxDebt = 1
  MaxCalls = 4
  Thread = {t1}
  Mode = {"direct", "deferred", "unlocked"}
  MaxData = 1
  User = {u1, u2}
  Searching = {u1}
  Server = {s1}
  None = None
  UserApi = {"cancel"}
  Sends = {"sent", "blocked", "error"}
  Answers = {"ok", "refused", "servfail", "notexist"}
  global_max_requests_inflight = 2
  global_max_reissues = 1
  global_max_retransmits = 1
  global_max_nameserver_timeout = 1
  disable_when_inactive = FALSE
  HttpRequest = {h1, h2, h3}
  retry_max = 1
  read_on_write_error = TRUE
  Beyond = {}
INVARIANTS
  ConnectionsOK
  GroupOK
PROPERTIES
  MembersResume
  CallbacksCome
  FreeReleases
  RequestsAnswered
