----------------------------- MODULE ServicesMC -----------------------------
(***************************************************************************)
(* What uses the loop and has liveness: the listener, a group of rate      *)
(* limits, a bufferevent, the resolver and a connection of HTTP.  A        *)
(* behaviour chooses one part and runs it under the fairness of its        *)
(* module, while the others stay in an initial state.  They share no       *)
(* state, so their product would show nothing more; an invariant is        *)
(* evaluated only where its part runs, since it holds initially.           *)
(*                                                                         *)
(* Constants and variables that bear the same name in several modules have *)
(* the name of the part in front; the others are bound by their names.     *)
(***************************************************************************)
EXTENDS Integers

\* Two threads and the callbacks use a listener, which only callbacks free.
CONSTANTS ListenerThread, Loop, Nobody, MaxBacklog

VARIABLES
  listener_cb, errorcb, listener_enabled, listener_refcnt, listener_freed, listener_owned,
  lock, listener_added, listener_active, loop, waits, backlog

Lev == INSTANCE Listener WITH
  Thread <- ListenerThread,
  ThreadApi <- {"enable", "disable", "set_cb", "unset_cb", "set_error_cb"},
  CallbackApi <- {"free", "enable", "disable", "set_cb", "unset_cb", "set_error_cb"},
  cb <- listener_cb, enabled <- listener_enabled, refcnt <- listener_refcnt,
  freed <- listener_freed, owned <- listener_owned, added <- listener_added,
  active <- listener_active

\* Two bufferevents that join and leave a group.
CONSTANTS Bev, Rate, Maximum, configured_min_share, MaxDebt, MaxCalls

VARIABLES
  read_limit, read_suspended, pending_unsuspend_read, members, group_suspended, group_op,
  saved, calls

Group == INSTANCE RateLimitGroup WITH suspended <- group_suspended, op <- group_op

\* The references of threads, and the callbacks of a bufferevent.
CONSTANTS Thread, Mode, MaxData

VARIABLES
  mode, enabled, suspended, connecting, failed, input, output, high, cb, pending, refcnt,
  owned, held, added, active, deferred, finalizing, freed, current, result, at, calling, chosen

Bufferevents == INSTANCE Bufferevent WITH
  ThreadApi <- {"disable", "trigger", "incref", "decref", "free"},
  CallbackApi <- {"write"}

\* Two requests and a server that may be silent, refuse, or not accept packets.
CONSTANTS User, Searching, Server, None, UserApi, Sends, Answers,
          global_max_requests_inflight, global_max_reissues, global_max_retransmits,
          global_max_nameserver_timeout, disable_when_inactive

VARIABLES base, ns, req, due, answered, dns_suspended

Resolver == INSTANCE Evdns WITH suspended <- dns_suspended

\* Three requests, so that one may be cancelled between others that are about to fail, a retry,
\* and a server that answers at most once and closes when it likes.
CONSTANTS HttpRequest, retry_max, read_on_write_error, Beyond

VARIABLES evcon, requests, outcome, http_calling, free_evcon, evcon_freed, exited

Http == INSTANCE HttpConnection WITH
  Request <- HttpRequest, calling <- http_calling, freed <- evcon_freed

ASSUME ServicesAssumption ==
  /\ Lev!ListenerAssumption
  /\ Group!RateLimitGroupAssumption
  /\ Bufferevents!BuffereventAssumption
  /\ Resolver!EvdnsAssumption
  /\ Http!HttpAssumption

VARIABLE part

listenerVars == <<
  listener_cb, errorcb, listener_enabled, listener_refcnt, listener_freed, listener_owned,
  lock, listener_added, listener_active, loop, waits, backlog>>
groupVars == <<
  read_limit, read_suspended, pending_unsuspend_read, members, group_suspended, group_op,
  saved, calls>>
buffereventVars == <<
  mode, enabled, suspended, connecting, failed, input, output, high, cb, pending, refcnt,
  owned, held, added, active, deferred, finalizing, freed, current, result, at, calling, chosen>>
resolverVars == <<base, ns, req, due, answered, dns_suspended>>
httpVars == <<evcon, requests, outcome, http_calling, free_evcon, evcon_freed, exited>>

vars == <<part, listenerVars, groupVars, buffereventVars, resolverVars, httpVars>>

Parts == {"listener", "group", "bufferevent", "resolver", "http"}

Init ==
  /\ part \in Parts
  /\ Lev!Init
  /\ part # "listener" => listener_enabled
  /\ Group!Init
  /\ Bufferevents!Init
  /\ part # "bufferevent" => mode = "direct" /\ ~connecting
  /\ Resolver!Init
  /\ Http!Init

ListenerNext ==
  /\ part = "listener" /\ Lev!Next
  /\ UNCHANGED <<groupVars, buffereventVars, resolverVars, httpVars>>

GroupNext ==
  /\ part = "group" /\ Group!Next
  /\ UNCHANGED <<listenerVars, buffereventVars, resolverVars, httpVars>>

BuffereventsNext ==
  /\ part = "bufferevent" /\ Bufferevents!Next
  /\ UNCHANGED <<listenerVars, groupVars, resolverVars, httpVars>>

ResolverNext ==
  /\ part = "resolver" /\ Resolver!Next
  /\ UNCHANGED <<listenerVars, groupVars, buffereventVars, httpVars>>

HttpNext ==
  /\ part = "http" /\ Http!Next
  /\ UNCHANGED <<listenerVars, groupVars, buffereventVars, resolverVars>>

Next ==
  /\ \/ ListenerNext \/ GroupNext \/ BuffereventsNext \/ ResolverNext \/ HttpNext
  /\ UNCHANGED part

Spec == Init /\ [][Next]_vars

\* The fairness of the modules, each of which explains its own, where their parts run.
FairSpec ==
  /\ Spec
  /\ WF_listenerVars(part = "listener" /\ Lev!LoopStep)
  /\ SF_listenerVars(part = "listener" /\ Lev!ReadCbLocks)
  /\ SF_listenerVars(part = "listener" /\ Lev!CallbackReturns)
  /\ SF_listenerVars(part = "listener" /\ Lev!ErrorCallbackReturns)
  /\ \A t \in ListenerThread : WF_listenerVars(part = "listener" /\ Lev!EventDelResumes(t))
  /\ WF_groupVars(part = "group" /\ Group!bev_group_refill_callback_)
  /\ \A b \in Bev : WF_groupVars(part = "group" /\ Group!Finish(b))
  /\ WF_buffereventVars(part = "bufferevent" /\ Bufferevents!Handler)
  /\ WF_buffereventVars(part = "bufferevent" /\ Bufferevents!CallbackReturns)
  /\ SF_buffereventVars(part = "bufferevent" /\ Bufferevents!Pick("deferred"))
  /\ SF_buffereventVars(part = "bufferevent" /\ Bufferevents!bufferevent_finalize_cb_)
  /\ \A r \in User \cup Server :
       WF_resolverVars(part = "resolver" /\ Resolver!evdns_request_timeout_callback(r))
  /\ \A r \in User : WF_resolverVars(part = "resolver" /\ Resolver!reply_run_callback(r))
  /\ \A s \in Server :
       SF_resolverVars(part = "resolver" /\ Resolver!WriteReady(s) /\ ~ns'[s].choked)
  /\ WF_httpVars(part = "http" /\ Http!TimeLimit)
  /\ WF_httpVars(part = "http" /\ Http!evhttp_connection_retry)
  /\ WF_httpVars(part = "http" /\ Http!evhttp_deferred_read_cb)
  /\ WF_httpVars(part = "http" /\ Http!CallbackReturns)

-----------------------------------------------------------------------------
(* The properties are those of the modules, where they are explained.      *)

\* listener.c and http.c, for the connections that a listener accepts and those a client
\* makes.  The last reference to a listener is dropped when nothing uses it any more, and its
\* event is pending exactly if the listener is enabled and has a callback.  The assertions of
\* an evhttp_connection hold, and its first request is always worked on.
ConnectionsOK ==
  /\ part = "listener" => Lev!ListenerOK
  /\ part = "http" => Http!ConnectionOK

\* bufferevent_ratelim.c: an exhausted group is suspended, and a suspended member is one that
\* the group will resume.
GroupOK == part = "group" => Group!GroupOK

\* bufferevent_ratelim.c: no member stays suspended.
MembersResume == Group!MembersResume

\* bufferevent.c: a callback that is due is called.
CallbacksCome == Bufferevents!CallbacksCome

\* listener.c and bufferevent.c: a listener that has been freed, and a bufferevent that nobody
\* holds, are released.
FreeReleases ==
  /\ ~listener_owned ~> listener_freed
  /\ part = "bufferevent" /\ ~owned /\ held = {} ~> freed

\* evdns.c and http.c: every request is answered, unless it is cancelled.
RequestsAnswered == Resolver!RequestsAnswered /\ Http!RequestsEnd
=============================================================================
