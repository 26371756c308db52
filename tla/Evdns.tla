------------------------------- MODULE Evdns -------------------------------
(***************************************************************************)
(* evdns.c: the requests of a DNS client and its nameservers.              *)
(*                                                                         *)
(* Every function runs under the lock of the evdns_base, so a callback of  *)
(* the loop or a call of the user is one step.  The functions below take a *)
(* state and give the set of the states they may leave: sendto() succeeds, *)
(* would block or fails, and nameserver_pick, whose position in the list   *)
(* of servers is left out, gives any of those it may give.  Packets are    *)
(* lost, late or repeated: a server that a request was sent to may answer  *)
(* it at any time, as often as it likes, or never.                         *)
(***************************************************************************)
EXTENDS Naturals, Sequences, SequencesExt, FiniteSets

CONSTANTS
  User,                    \* the requests of the user
  Searching,               \* those that go on to another name of a search list
  Server, None,
  UserApi,                 \* what the user calls besides resolve: "cancel", "suspend"
  Sends,                   \* what may become of sendto(): "sent", "blocked", "error"
  Answers,                 \* what servers answer
  global_max_requests_inflight, global_max_reissues, global_max_retransmits,
  global_max_nameserver_timeout,
  disable_when_inactive

EvdnsAssumption ==
  /\ Searching \subseteq User /\ User \cap Server = {} /\ None \notin Server
  /\ UserApi \subseteq {"cancel", "suspend"} /\ Sends \subseteq {"sent", "blocked", "error"}
  /\ Answers \subseteq {"ok", "notexist", "refused", "servfail"}
  /\ {global_max_requests_inflight, global_max_reissues, global_max_retransmits,
      global_max_nameserver_timeout} \subseteq Nat
  /\ disable_when_inactive \in BOOLEAN

\* The probe of a nameserver bears its name.
Request == User \cup Server

VARIABLES
  base,        \* the list of servers, the counters and the waiting queue
  ns,          \* struct nameserver of each server
  req,         \* struct request of each request
  due,         \* the results of the deferred callbacks that are scheduled
  answered,    \* how often the callback of a request has been called
  suspended    \* evdns_base_resume has to be called (not in the code)

vars == <<base, ns, req, due, answered, suspended>>

NewServer == [up |-> TRUE, timer |-> FALSE, timedout |-> 0, choked |-> FALSE,
              write_waiting |-> FALSE, added |-> ~disable_when_inactive,
              probe_request |-> FALSE, requests_inflight |-> 0]

\* asked: the servers that may answer this request, by its transaction id.
NoRequest == [place |-> "none", ns |-> None, tx_count |-> 0, reissue_count |-> 0,
              transmit_me |-> FALSE, timer |-> FALSE, asked |-> {}, names |-> 0]

Init ==
  /\ base = [servers |-> Server, good |-> Cardinality(Server), inflight |-> 0, waiting |-> <<>>]
  /\ ns = [s \in Server |-> NewServer]
  /\ req = [r \in Request |-> NoRequest]
  /\ due = [r \in Request |-> <<>>]
  /\ answered = [r \in User |-> 0]
  /\ suspended = FALSE

State == [base |-> base, ns |-> ns, req |-> req, due |-> due]

\* The step to one of the states.
Become(states) ==
  \E S \in states : base' = S.base /\ ns' = S.ns /\ req' = S.req /\ due' = S.due

Inflight(S) == {r \in Request : S.req[r].place = "inflight"}

\* F on every member of the set, one after the other.
Each(F(_, _), set, states) ==
  FoldSet(LAMBDA x, acc : UNION {F(S, x) : S \in acc}, states, set)

-----------------------------------------------------------------------------
(* Nameservers                                                             *)

\* A server that is thought to be up, or any if none is.
nameserver_pick(S) ==
  IF S.base.servers = {} THEN {None}
  ELSE IF S.base.good = 0 THEN S.base.servers
  ELSE {s \in S.base.servers : S.ns[s].up}

\* Fault: the counts of the two servers are left.
SwapUncounted(S, r, n) ==
  IF n = None \/ S.req[r].ns = n THEN S ELSE [S EXCEPT !.req[r].ns = n]

request_swap_ns(S, r, n) ==
  IF n = None \/ S.req[r].ns = n THEN S
  ELSE [S EXCEPT !.ns[S.req[r].ns].requests_inflight = @ - 1,
                 !.ns[n].requests_inflight = @ + 1,
                 !.req[r].ns = n]

\* The requests that wait to be sent to the server go to others.
nameserver_failed(S, s) ==
  LET T == [S EXCEPT !.base.good = @ - 1, !.ns[s].up = FALSE, !.ns[s].timer = TRUE]
      Move(U, r) == {request_swap_ns(U, r, n) : n \in nameserver_pick(U)}
  IN  IF ~S.ns[s].up THEN {S}
      ELSE IF T.base.good = 0 THEN {T}
      ELSE Each(Move, {r \in Inflight(T) : T.req[r].tx_count = 0 /\ T.req[r].ns = s}, {T})

-----------------------------------------------------------------------------
(* Sending                                                                 *)

evdns_request_transmit(S, r) ==
  LET n == S.req[r].ns
      T == [S EXCEPT !.req[r].transmit_me = TRUE]
      U == IF disable_when_inactive /\ T.ns[n].requests_inflight = 1
           THEN [T EXCEPT !.ns[n].added = TRUE] ELSE T
      Timed(V) == [V EXCEPT !.req[r].timer = TRUE, !.req[r].tx_count = @ + 1,
                            !.req[r].transmit_me = FALSE]
      sent == [Timed(U) EXCEPT !.req[r].asked = @ \cup {n}]
      blocked == [U EXCEPT !.ns[n].choked = TRUE, !.ns[n].write_waiting = TRUE,
                           !.ns[n].added = @ \/ ~U.ns[n].write_waiting]
  IN  IF n = None \/ S.ns[n].choked THEN {T}
      ELSE UNION {CASE result = "sent" -> {sent}
                    [] result = "blocked" -> {blocked}
                    [] result = "error" -> {Timed(V) : V \in nameserver_failed(U, n)} :
                  result \in Sends}

ToTransmit(S) == {r \in Inflight(S) : S.req[r].transmit_me}

evdns_transmit(S) == Each(evdns_request_transmit, ToTransmit(S), {S})

\* A waiting request goes to the inflight queue under a new transaction id.
Promote(S, i) ==
  LET r == Head(S.base.waiting)
      Go(n) == [S EXCEPT !.base.waiting = Tail(@), !.base.inflight = @ + 1,
                         !.ns[n].requests_inflight = @ + 1,
                         !.req[r].place = "inflight", !.req[r].ns = n, !.req[r].asked = {}]
  IN  IF S.base.inflight >= global_max_requests_inflight \/ S.base.waiting = <<>>
      THEN {S}
      ELSE UNION {IF n = None THEN {S}
                  ELSE UNION {evdns_transmit(T) : T \in evdns_request_transmit(Go(n), r)} :
                  n \in nameserver_pick(S)}

evdns_requests_pump_waiting_queue(S) == Each(Promote, 1..Len(S.base.waiting), {S})

\* The server that request_new gives a request, None to let it wait.
NewRequestServer(S) ==
  IF S.base.inflight < global_max_requests_inflight THEN nameserver_pick(S) ELSE {None}

request_submit(S, r, n, names) ==
  IF n = None
  THEN {[S EXCEPT !.req[r] = [NoRequest EXCEPT !.place = "waiting", !.names = names],
                  !.base.waiting = Append(@, r)]}
  ELSE evdns_request_transmit(
         [S EXCEPT !.req[r] = [NoRequest EXCEPT !.place = "inflight", !.ns = n, !.names = names],
                   !.base.inflight = @ + 1, !.ns[n].requests_inflight = @ + 1], r)

-----------------------------------------------------------------------------
(* The end of a request                                                    *)

\* The callback of a cancelled probe does nothing and is left out.
reply_schedule_callback(S, r, result) ==
  IF r \in Server /\ result = "cancel" THEN S ELSE [S EXCEPT !.due[r] = Append(@, result)]

Removed(S, r) ==
  LET n == S.req[r].ns
      T == IF S.req[r].place = "inflight"
           THEN [S EXCEPT !.base.inflight = @ - 1, !.ns[n].requests_inflight = @ - 1]
           ELSE [S EXCEPT !.base.waiting = SelectSeq(@, LAMBDA q : q # r)]
      U == IF n # None /\ disable_when_inactive /\ T.ns[n].requests_inflight = 0
           THEN [T EXCEPT !.ns[n].added = FALSE, !.ns[n].timer = FALSE] ELSE T
  IN  [U EXCEPT !.req[r] = NoRequest]

\* Fault: the place that has become free is given to nobody.
FinishedOnly(S, r) == {Removed(S, r)}

request_finished(S, r) == evdns_requests_pump_waiting_queue(Removed(S, r))

\* Fault: it is not tested whether the callback is scheduled already.
CancelAnyway(S, r) ==
  LET T == reply_schedule_callback(S, r, "cancel")
  IN  IF S.req[r].place = "none" THEN {T} ELSE request_finished(T, r)

evdns_cancel_request(S, r) ==
  IF S.req[r].place = "none" THEN {S}
  ELSE request_finished(reply_schedule_callback(S, r, "cancel"), r)

\* A server that is up again needs no probe.
nameserver_up(S, s) ==
  LET T == [S EXCEPT !.ns[s].timer = FALSE, !.ns[s].probe_request = FALSE]
  IN  IF S.ns[s].up THEN {S}
      ELSE {[U EXCEPT !.ns[s].up = TRUE, !.ns[s].timedout = 0, !.base.good = @ + 1] :
            U \in IF S.ns[s].probe_request THEN evdns_cancel_request(T, s) ELSE {T}}

Give(S, r, result) == request_finished(reply_schedule_callback(S, r, result), r)

\* The next name of the search: the new request is made before the old one is finished.
search_try_next(S, r) ==
  UNION {request_submit(T, r, n, S.req[r].names - 1) :
         n \in NewRequestServer(S), T \in request_finished(S, r)}

FailureOrNextName(S, r, result) ==
  IF S.req[r].names > 0 THEN search_try_next(S, r) ELSE Give(S, r, result)

-----------------------------------------------------------------------------
(* Timeouts and answers                                                    *)

TimedOut(S, n) ==
  IF S.ns[n].timedout + 1 > global_max_nameserver_timeout
  THEN nameserver_failed([S EXCEPT !.ns[n].timedout = 0], n)
  ELSE {[S EXCEPT !.ns[n].timedout = @ + 1]}

\* Fault: a request that is given up is not reported.
GivenUpSilently(S, r) ==
  LET T == [S EXCEPT !.req[r].timer = FALSE]
  IN  IF S.req[r].tx_count >= global_max_retransmits
      THEN UNION {nameserver_failed(U, S.req[r].ns) : U \in request_finished(T, r)}
      ELSE UNION {evdns_request_transmit(request_swap_ns(T, r, n), r) : n \in nameserver_pick(T)}

\* evdns_request_timeout_callback: another server is tried, or the request is given up.
Timeout(S, r) ==
  LET T == [S EXCEPT !.req[r].timer = FALSE]
  IN  IF S.req[r].tx_count >= global_max_retransmits
      THEN UNION {nameserver_failed(U, S.req[r].ns) : U \in Give(T, r, "timeout")}
      ELSE UNION {UNION {TimedOut(V, V.req[r].ns) :
                         V \in evdns_request_transmit(request_swap_ns(T, r, n), r)} :
                  n \in nameserver_pick(T)}

\* An answer that speaks against the server: it has failed, and the request is sent to
\* another one, when something else makes evdns_transmit run or the timer fires.
request_reissue(S, r) ==
  UNION {{IF n = T.req[r].ns THEN [again |-> FALSE, state |-> T]
          ELSE [again |-> TRUE,
                state |-> [request_swap_ns(T, r, n) EXCEPT
                             !.req[r].reissue_count = @ + 1, !.req[r].tx_count = 0,
                             !.req[r].transmit_me = TRUE]] : n \in nameserver_pick(T)} :
         T \in nameserver_failed(S, S.req[r].ns)}

\* The server that the request belongs to now is up, whoever answered.
ServerUp(S, r) ==
  LET n == S.req[r].ns
  IN  nameserver_up(IF r = n THEN [S EXCEPT !.ns[n].probe_request = FALSE] ELSE S, n)

reply_handle(S, r, answer) ==
  CASE answer = "refused" ->
         IF S.req[r].reissue_count >= global_max_reissues THEN FailureOrNextName(S, r, "failed")
         ELSE UNION {IF x.again THEN {x.state} ELSE FailureOrNextName(x.state, r, "failed") :
                     x \in request_reissue(S, r)}
    [] answer = "servfail" -> Timeout(S, r)
    [] answer = "notexist" ->
         UNION {FailureOrNextName(T, r, "notexist") : T \in ServerUp(S, r)}
    [] answer = "ok" ->
         LET T == reply_schedule_callback(S, r, "ok")
         IN  UNION {request_finished(U, r) : U \in ServerUp(T, r)}

-----------------------------------------------------------------------------
(* Actions                                                                 *)

Resolve(r) ==
  /\ req[r].place = "none" /\ due[r] = <<>> /\ answered[r] = 0
  /\ Become(UNION {request_submit(State, r, n, IF r \in Searching THEN 1 ELSE 0) :
                   n \in NewRequestServer(State)})
  /\ UNCHANGED <<answered, suspended>>

Cancel(r) ==
  /\ "cancel" \in UserApi /\ (req[r].place # "none" \/ due[r] # <<>>)
  /\ Become(evdns_cancel_request(State, r))
  /\ UNCHANGED <<answered, suspended>>

evdns_request_timeout_callback(r) ==
  /\ req[r].timer
  /\ Become(Timeout(State, r))
  /\ UNCHANGED <<answered, suspended>>

\* nameserver_ready_callback for writing.
WriteReady(s) ==
  /\ s \in base.servers /\ ns[s].added /\ ns[s].write_waiting
  /\ LET S == [State EXCEPT !.ns[s].choked = FALSE]
     IN  Become(IF ToTransmit(S) = {} THEN {[S EXCEPT !.ns[s].write_waiting = FALSE]}
                ELSE evdns_transmit(S))
  /\ UNCHANGED <<answered, suspended>>

\* nameserver_read: an answer to a request, one that nobody waits for, or an error.
Answer(s, r, answer) ==
  /\ s \in base.servers /\ ns[s].added
  /\ req[r].place = "inflight" /\ s \in req[r].asked
  /\ Become(reply_handle([State EXCEPT !.ns[s].timedout = 0], r, answer))
  /\ UNCHANGED <<answered, suspended>>

LateAnswer(s) ==
  /\ s \in base.servers /\ ns[s].added
  /\ Become({[State EXCEPT !.ns[s].timedout = 0]})
  /\ UNCHANGED <<answered, suspended>>

ReadError(s) ==
  /\ s \in base.servers /\ ns[s].added
  /\ Become(nameserver_failed(State, s))
  /\ UNCHANGED <<answered, suspended>>

\* nameserver_send_probe, whatever the number of requests.  The timer is seconds long, so
\* that the callback of an earlier probe has been called.
nameserver_prod_callback(s) ==
  /\ s \in base.servers /\ ns[s].timer /\ due[s] = <<>>
  /\ Become(request_submit([State EXCEPT !.ns[s].timer = FALSE, !.ns[s].probe_request = TRUE],
                           s, s, 0))
  /\ UNCHANGED <<answered, suspended>>

\* Fault: the next probe is not scheduled.
ProbeGivesUp(s) ==
  LET S == [State EXCEPT !.due[s] = Tail(@), !.ns[s].probe_request = FALSE]
  IN  /\ due[s] # <<>>
      /\ Become(IF Head(due[s]) \in {"ok", "notexist"} THEN nameserver_up(S, s) ELSE {S})
      /\ UNCHANGED <<answered, suspended>>

\* nameserver_probe_callback and nameserver_probe_failed.
nameserver_probe_callback(s) ==
  LET S == [State EXCEPT !.due[s] = Tail(@), !.ns[s].probe_request = FALSE]
  IN  /\ due[s] # <<>>
      /\ Become(IF Head(due[s]) \in {"ok", "notexist"} THEN nameserver_up(S, s)
                ELSE {[S EXCEPT !.ns[s].timer = ~S.ns[s].up]})
      /\ UNCHANGED <<answered, suspended>>

reply_run_callback(r) ==
  /\ due[r] # <<>>
  /\ due' = [due EXCEPT ![r] = Tail(@)]
  /\ answered' = [answered EXCEPT ![r] = @ + 1]
  /\ UNCHANGED <<base, ns, req, suspended>>

\* One server: its events are deleted, its probe is cancelled, which may give its place to a
\* request that waits, and it is freed.  The end is undefined, and left out, where that uses a
\* server that is freed already or adds an event of this one again.
clear_nameserver(S, s) ==
  LET T == [S EXCEPT !.ns[s].added = FALSE, !.ns[s].timer = FALSE]
      OnFreed(r) == T.req[r].ns \notin T.base.servers \cup {None}
      ends == IF ~T.ns[s].probe_request THEN {T}
              ELSE IF \E r \in ToTransmit(T) \cup {s} : OnFreed(r) THEN {}
              ELSE evdns_cancel_request(T, s)
  IN  {[U EXCEPT !.base.servers = @ \ {s}] :
       U \in {U \in ends : ~U.ns[s].added /\ ~U.ns[s].timer}}

\* The servers are freed one after the other, from any one on, and the requests wait.  While the
\* callback of a probe is due, which would use its server then, it is left out.
evdns_base_clear_nameservers_and_suspend ==
  /\ "suspend" \in UserApi /\ base.servers # {}
  /\ \A s \in base.servers : due[s] = <<>>
  /\ \E order \in SetToSeqs(base.servers) :
     \E S \in FoldLeft(LAMBDA states, s : UNION {clear_nameserver(T, s) : T \in states},
                       {State}, order) :
       LET back == Inflight(S)
       IN  /\ base' = [servers |-> {}, good |-> 0, inflight |-> 0,
                       waiting |-> SetToSeq(back) \o S.base.waiting]
           /\ req' = [r \in Request |-> IF r \in back
                        THEN [NoRequest EXCEPT !.place = "waiting", !.names = S.req[r].names]
                        ELSE S.req[r]]
           /\ due' = S.due
  /\ ns' = [s \in Server |-> NewServer]
  /\ suspended' = TRUE
  /\ UNCHANGED answered

evdns_nameserver_add_impl_(s) ==
  /\ s \notin base.servers
  /\ base' = [base EXCEPT !.servers = @ \cup {s}, !.good = @ + 1]
  /\ ns' = [ns EXCEPT ![s] = NewServer]
  /\ UNCHANGED <<req, due, answered, suspended>>

evdns_base_resume ==
  /\ suspended /\ base.servers # {}
  /\ Become(evdns_requests_pump_waiting_queue(State))
  /\ suspended' = FALSE
  /\ UNCHANGED answered

Next ==
  \/ \E r \in User : Resolve(r) \/ Cancel(r) \/ reply_run_callback(r)
  \/ \E r \in Request : evdns_request_timeout_callback(r)
  \/ \E s \in Server :
       \/ WriteReady(s) \/ LateAnswer(s) \/ ReadError(s)
       \/ \E r \in Request, answer \in Answers :
            Answer(s, r, answer)
       \/ nameserver_prod_callback(s) \/ nameserver_probe_callback(s)
       \/ evdns_nameserver_add_impl_(s)
  \/ evdns_base_clear_nameservers_and_suspend \/ evdns_base_resume

Spec == Init /\ [][Next]_vars

\* Timers fire and deferred callbacks run; a socket that is ready for writing takes a
\* packet some time.
FairSpec ==
  /\ Spec
  /\ \A r \in Request : WF_vars(evdns_request_timeout_callback(r))
  /\ \A r \in User : WF_vars(reply_run_callback(r))
  /\ \A s \in Server : SF_vars(WriteReady(s) /\ ~ns'[s].choked)

-----------------------------------------------------------------------------
TypeOK ==
  /\ base.servers \subseteq Server
  /\ {base.good, base.inflight} \subseteq Nat
  /\ ToSet(base.waiting) = {r \in Request : req[r].place = "waiting"}
  /\ IsInjective(base.waiting)
  /\ \A s \in Server :
       /\ {ns[s].up, ns[s].timer, ns[s].choked, ns[s].write_waiting, ns[s].added,
           ns[s].probe_request} \subseteq BOOLEAN
       /\ ns[s].timedout \in 0..global_max_nameserver_timeout
       /\ ns[s].requests_inflight \in Nat
  /\ \A r \in Request :
       /\ req[r].place \in {"none", "waiting", "inflight"}
       /\ req[r].ns \in base.servers \cup {None}
       /\ req[r].tx_count \in 0..global_max_retransmits
       /\ req[r].reissue_count \in 0..global_max_reissues
       /\ req[r].asked \subseteq Server

\* The counters of the base and of the servers agree with the queues, through swaps,
\* failures, cancelled probes and suspensions.
CountsAgree ==
  /\ base.inflight = Cardinality(Inflight(State))
  /\ base.good = Cardinality({s \in base.servers : ns[s].up})
  /\ \A s \in base.servers :
       ns[s].requests_inflight = Cardinality({r \in Inflight(State) : req[r].ns = s})

\* Nothing is forgotten: a request that is in flight has its timer, or waits for a server
\* to accept packets; the loop will send it then, on whatever server it is by that time.
NothingForgotten ==
  \A r \in Inflight(State) :
    \/ req[r].timer
    \/ req[r].transmit_me /\ \E s \in base.servers : ns[s].write_waiting /\ ns[s].added

\* A request that waits is seen to by the end of another one, which looks at the waiting
\* queue: there is one in flight.
WaitersArePumped == base.waiting # <<>> /\ ~suspended => base.inflight > 0

\* A server that is thought to be down will be probed, by one probe at a time, and one
\* that is up is not.
DownIsProbed ==
  \A s \in base.servers :
    /\ ns[s].timer => ~ns[s].up /\ req[s].place = "none"
    /\ ns[s].up => req[s].place = "none"
    /\ ns[s].timer \/ ns[s].up \/ req[s].place = "inflight" \/ due[s] # <<>>

\* The callback of a request comes exactly once, and not before the request has left the
\* queues.
OneAnswer ==
  \A r \in User :
    answered[r] + Len(due[r]) + (IF req[r].place = "none" THEN 0 ELSE 1) <= 1

\* The requests, the servers and their counters are right together.
RequestsOK ==
  TypeOK /\ CountsAgree /\ NothingForgotten /\ WaitersArePumped /\ DownIsProbed /\ OneAnswer

\* Every request is answered: by a server, by the next one, or by a timeout.
RequestsAnswered == \A r \in User : req[r].place # "none" ~> answered[r] = 1
=============================================================================
