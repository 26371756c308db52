--------------------------- MODULE HttpConnection ---------------------------
(***************************************************************************)
(* http.c: an evhttp_connection to a server, the requests that are queued  *)
(* on it, and the callbacks of its bufferevent.                            *)
(*                                                                         *)
(* The loop, the callbacks of the requests and the owner of the connection *)
(* are one thread: a handler is one step up to the callbacks, which it     *)
(* calls last, and they are the steps up to CallbackReturns.  Functions on *)
(* the record evcon stand for those that change only the connection.  Of   *)
(* the messages there is only where in a response the bytes that have come *)
(* end, which the server decides.  Left out: connection attempts that fail *)
(* at once, chunk, header, error and close callbacks, limits, and bytes    *)
(* that are still to be written.                                           *)
(***************************************************************************)
EXTENDS Naturals, Sequences, SequencesExt

CONSTANTS
  Request,
  retry_max,
  read_on_write_error,     \* EVHTTP_CON_READ_ON_WRITE_ERROR
  Beyond                   \* what server and user do that the code is not ready for

\* "idle_data": the server sends on an idle connection, or more than a response;
\* "calls_during_retry": the user calls while the connection waits for its next attempt;
\* "late_deferred": something happens before the deferred callback of evhttp_start_read_;
\* "cancel_in_cleanup": a callback of evhttp_connection_cb_cleanup cancels the last request
\* that this is to call.
HttpAssumption ==
  /\ retry_max \in Nat
  /\ read_on_write_error \in BOOLEAN
  /\ Beyond \subseteq {"idle_data", "calls_during_retry", "late_deferred", "cancel_in_cleanup"}

VARIABLES
  evcon,        \* struct evhttp_connection, and what its bufferevent reads
  requests,     \* evcon->requests
  outcome,      \* what has become of each request
  calling,      \* the request whose callback runs, and those whose callbacks come next
  free_evcon,   \* of evhttp_connection_done, while the callback runs
  freed,        \* the connection has been freed
  exited        \* a failed assertion, or event_errx, has ended the program

vars == <<evcon, requests, outcome, calling, free_evcon, freed, exited>>

Reading == {"reading_firstline", "reading_headers", "reading_body", "reading_trailer"}
States == {"disconnected", "connecting", "idle", "writing"} \cup Reading
Bodies == {"length", "chunked", "until_close"}

New == [state |-> "disconnected", closedetect |-> FALSE, reading_error |-> FALSE,
        autofree |-> FALSE, retry_cnt |-> 0, retry_ev |-> FALSE, read_more |-> FALSE,
        read |-> FALSE, input |-> FALSE, body |-> "unknown", continued |-> FALSE,
        losing |-> FALSE]

Init ==
  /\ evcon = New
  /\ requests = <<>>
  /\ outcome = [r \in Request |-> "new"]
  /\ calling = <<>>
  /\ free_evcon = FALSE
  /\ freed = FALSE
  /\ exited = FALSE

-----------------------------------------------------------------------------
(* The connection                                                          *)

evhttp_connected(c) == c.state \notin {"disconnected", "connecting"}

\* Neither closedetect nor read_more is touched.
evhttp_connection_reset_(c) ==
  [c EXCEPT !.state = "disconnected", !.reading_error = FALSE, !.read = FALSE, !.input = FALSE]

evhttp_connection_connect_(c) ==
  IF c.state = "connecting" THEN c
  ELSE [evhttp_connection_reset_(c) EXCEPT !.state = "connecting"]

evhttp_connection_start_detectclose(c) == [c EXCEPT !.closedetect = TRUE, !.read = TRUE]
evhttp_connection_stop_detectclose(c) == [c EXCEPT !.closedetect = FALSE, !.read = FALSE]

\* Fault: the close of the other side is still taken for one of an idle connection.
DispatchKeepsDetecting(c, queue) ==
  IF queue = <<>> THEN c
  ELSE [c EXCEPT !.state = "writing", !.body = "unknown", !.continued = FALSE, !.read = FALSE]

\* continued bounds the answers "100 Continue" to a request by one.
evhttp_request_dispatch(c, queue) ==
  IF queue = <<>> THEN c
  ELSE [evhttp_connection_stop_detectclose(c) EXCEPT
          !.state = "writing", !.body = "unknown", !.continued = FALSE]

evhttp_start_read_(c) ==
  [c EXCEPT !.read = TRUE, !.state = "reading_firstline", !.read_more = @ \/ c.input]

\* Reading stays enabled, but nothing is called for what is read.
evhttp_start_write_(c) ==
  [c EXCEPT !.read = TRUE, !.state = "writing", !.body = "unknown", !.continued = TRUE]

-----------------------------------------------------------------------------
(* The end of requests.  c is the connection so far.                       *)

\* The callbacks of the requests, one after the other.
Call(list) ==
  /\ calling' = list
  /\ outcome' = IF list = <<>> THEN outcome ELSE [outcome EXCEPT ![Head(list)] = "answered"]

Exit == exited' = TRUE /\ UNCHANGED <<evcon, requests, outcome, calling, free_evcon, freed>>

\* The requests that are left are freed without a callback.
evhttp_connection_free ==
  /\ freed' = TRUE
  /\ evcon' = New
  /\ requests' = <<>>
  /\ UNCHANGED exited

\* No request to fail: the assertion does not hold.
FailNothing == requests = <<>> /\ Exit

\* The first request fails; the others go on with a new connection.
FailFirst(c) ==
  LET rest == Tail(requests)
      reset == evhttp_connection_reset_(c)
  IN  /\ requests # <<>>
      /\ requests' = rest
      /\ evcon' = IF rest = <<>> THEN reset ELSE evhttp_connection_connect_(reset)
      /\ UNCHANGED <<free_evcon, freed, exited>>

evhttp_connection_fail_(c) ==
  \/ FailNothing
  \/ FailFirst(c) /\ Call(<<Head(requests)>>)

\* The response has been read; the connection is kept for the next request, or closed.
evhttp_connection_done(c) ==
  \E need_close \in BOOLEAN :
    LET rest == Tail(requests)
        closed == evhttp_connection_reset_(c)
        idle == [c EXCEPT !.state = "idle"]
    IN  /\ requests' = rest
        /\ evcon' = CASE rest # <<>> /\ need_close -> evhttp_connection_connect_(closed)
                      [] rest # <<>> /\ ~need_close -> evhttp_request_dispatch(idle, rest)
                      [] rest = <<>> /\ need_close -> closed
                      [] rest = <<>> /\ ~need_close -> evhttp_connection_start_detectclose(idle)
        /\ free_evcon' = (rest = <<>> /\ need_close /\ c.autofree)
        /\ Call(<<Head(requests)>>)
        /\ UNCHANGED <<freed, exited>>

\* Fault: no timer is set for the next attempt.
CleanupForgetsTimer(c) ==
  LET closed == evhttp_connection_reset_(c)
  IN  /\ \/ /\ c.retry_cnt < retry_max
            /\ evcon' = [closed EXCEPT !.retry_cnt = @ + 1]
            /\ UNCHANGED <<requests, outcome, calling>>
         \/ /\ c.retry_cnt >= retry_max
            /\ evcon' = closed
            /\ requests' = <<>>
            /\ Call(requests)
      /\ UNCHANGED <<free_evcon, freed, exited>>

\* Another attempt to connect, or the end of all requests.
evhttp_connection_cb_cleanup(c) ==
  LET closed == evhttp_connection_reset_(c)
  IN  /\ \/ /\ c.retry_cnt < retry_max
            /\ evcon' = [closed EXCEPT !.retry_ev = TRUE, !.retry_cnt = @ + 1]
            /\ UNCHANGED <<requests, outcome, calling>>
         \/ /\ c.retry_cnt >= retry_max
            /\ evcon' = closed
            /\ requests' = <<>>
            /\ Call(requests)
      /\ UNCHANGED <<free_evcon, freed, exited>>

-----------------------------------------------------------------------------
(* Handlers of the loop                                                    *)

Running == calling = <<>> /\ ~freed /\ ~exited

\* A deferred callback is due in this iteration or the next.
Waiting == Running /\ (evcon.read_more => "late_deferred" \in Beyond)

Only(c) ==
  /\ evcon' = c
  /\ UNCHANGED <<requests, outcome, calling, free_evcon, freed, exited>>

\* evhttp_connection_cb, without an error.
ConnectionMade ==
  /\ Waiting /\ evcon.state = "connecting"
  /\ Only(evhttp_request_dispatch([evcon EXCEPT !.state = "idle", !.retry_cnt = 0], requests))

evhttp_connection_retry ==
  /\ Waiting /\ evcon.retry_ev
  /\ Only(evhttp_connection_connect_([evcon EXCEPT !.retry_ev = FALSE,
                                                   !.state = "disconnected"]))

\* The request, or what a "100 Continue" asked for, has been written.
evhttp_write_connectioncb ==
  /\ Waiting /\ evcon.state = "writing"
  /\ Only(evhttp_start_read_(evcon))

\* Where in the response the bytes that have come may end.
ReadUpTo(c, d) ==
  /\ c.state = "reading_headers" => d.state # "reading_firstline"
  /\ c.state = "reading_body" => d.state \in {"reading_body", "reading_trailer"}
  /\ c.state = "reading_trailer" => d.state = "reading_trailer"
  /\ c.body # "unknown" => d.body = c.body
  /\ d.body = "unknown" <=> d.state \in {"reading_firstline", "reading_headers"}
  /\ d.state = "reading_trailer" => d.body = "chunked"

\* The response ends there: without a body, after its last byte, or after the trailer.
Complete(d) ==
  /\ d.state \in {"reading_headers", "reading_trailer"} \/ d.body = "length"
  /\ d.state # "reading_firstline"
  /\ d.input => "idle_data" \in Beyond

\* evhttp_read_firstline, evhttp_read_header, evhttp_get_body, evhttp_read_body and
\* evhttp_read_trailer, each of which goes on with the next one.
ReadResponse(c) ==
  \E state \in Reading, body \in Bodies \cup {"unknown"}, left \in BOOLEAN :
    LET d == [c EXCEPT !.state = state, !.body = body, !.input = left]
    IN  /\ ReadUpTo(c, d)
        /\ \/ Only(d)
           \/ evhttp_connection_fail_(d)
           \/ d.state = "reading_headers" /\ ~d.continued /\ Only(evhttp_start_write_(d))
           \/ Complete(d) /\ evhttp_connection_done(d)

evhttp_read_cb(c) ==
  \/ c.state \in Reading /\ ReadResponse(c)
  \/ c.state = "idle" /\ Only(evhttp_connection_reset_(c))
  \/ c.state \in {"disconnected", "connecting", "writing"} /\ Exit

\* The bufferevent reads; while a request is written it has no callback for that.
DataArrives ==
  /\ Waiting /\ evcon.read
  /\ evcon.state = "idle" => "idle_data" \in Beyond
  /\ \/ evcon.state = "writing" /\ Only([evcon EXCEPT !.input = TRUE])
     \/ /\ evcon.state # "writing"
        /\ evhttp_read_cb([evcon EXCEPT !.input = TRUE, !.read_more = FALSE])

evhttp_deferred_read_cb ==
  /\ Running /\ evcon.read_more
  /\ evhttp_read_cb([evcon EXCEPT !.read_more = FALSE])

\* The second time that nothing can be written, there is nothing to read either.
evhttp_connection_read_on_write_error(c) ==
  \/ c.reading_error /\ evhttp_connection_fail_([c EXCEPT !.reading_error = FALSE])
  \/ ~c.reading_error /\ Only([evhttp_start_read_(c) EXCEPT !.reading_error = TRUE])

\* The other side has closed an idle connection.
CloseDetected(c) ==
  \/ c.state # "idle" /\ Exit
  \/ /\ c.state = "idle"
     /\ IF requests = <<>> /\ c.autofree
          THEN evhttp_connection_free /\ UNCHANGED <<outcome, calling, free_evcon>>
          ELSE Only([evhttp_connection_reset_(c) EXCEPT !.closedetect = FALSE])

\* What may be reported: reads end or fail, writes fail, and either may take too long.
Reported(c) ==
  (IF c.state = "connecting" THEN {"error", "timeout"} ELSE {})
  \cup (IF c.state = "writing" THEN {"write_error", "timeout"} ELSE {})
  \cup (IF c.read THEN {"eof", "error", "timeout"} ELSE {})

EndOfBody(c, what) ==
  c.state = "reading_body" /\ c.body = "until_close" /\ what = "eof"

evhttp_error_cb(c, what) ==
  IF c.state = "connecting" /\ what = "timeout" THEN evhttp_connection_cb_cleanup(c)
  ELSE IF EndOfBody(c, what) THEN evhttp_connection_done(c)
  ELSE IF c.closedetect THEN CloseDetected(c)
  ELSE IF what = "write_error" /\ read_on_write_error
    THEN evhttp_connection_read_on_write_error(c)
  ELSE evhttp_connection_fail_(c)

\* evhttp_error_cb, and evhttp_connection_cb with an error.
ErrorReported ==
  /\ Waiting
  /\ \E what \in Reported(evcon) \ {"timeout"} : evhttp_error_cb(evcon, what)

TimeLimit ==
  /\ Waiting
  /\ "timeout" \in Reported(evcon) /\ evhttp_error_cb(evcon, "timeout")

\* The connection may be freed after the callback of its last request.
CallbackReturns ==
  /\ calling # <<>>
  /\ Call(Tail(calling))
  /\ free_evcon' = FALSE
  /\ IF free_evcon /\ requests = <<>>
       THEN evhttp_connection_free
       ELSE UNCHANGED <<evcon, requests, freed, exited>>

-----------------------------------------------------------------------------
(* The user, in callbacks and elsewhere                                    *)

MayCall ==
  /\ ~freed /\ ~exited
  /\ evcon.retry_ev => "calls_during_retry" \in Beyond
  /\ evcon.read_more => "late_deferred" \in Beyond

\* A connection that frees itself is known to exist while it has something to do.
evhttp_make_request(r) ==
  /\ MayCall /\ outcome[r] = "new"
  /\ evcon.autofree => requests # <<>> \/ calling # <<>>
  /\ outcome' = [outcome EXCEPT ![r] = "made"]
  /\ requests' = IF evcon.losing THEN requests ELSE Append(requests, r)
  /\ IF evhttp_connected(evcon)
       THEN /\ evcon' = IF requests = <<>> THEN evhttp_request_dispatch(evcon, requests')
                        ELSE evcon
            /\ exited' = (requests = <<>> /\ ~evcon.losing /\ evcon.state # "idle")
       ELSE /\ evcon' = evhttp_connection_connect_(evcon)
            /\ UNCHANGED exited
  /\ UNCHANGED <<calling, free_evcon, freed>>

\* A request that is still in the queue; the callback of a first one is not called.
evhttp_cancel_request(i) ==
  /\ MayCall /\ i \in DOMAIN requests
  /\ outcome' = [outcome EXCEPT ![requests[i]] = "cancelled"]
  /\ UNCHANGED calling
  /\ \/ i = 1 /\ FailFirst(evcon)
     \/ /\ i # 1
        /\ requests' = RemoveAt(requests, i)
        /\ UNCHANGED <<evcon, free_evcon, freed, exited>>

\* One that evhttp_connection_cb_cleanup has put into a list of its own, from which it is
\* removed as if it stood in evcon->requests.  The last one takes the end of that queue along:
\* what is added to it later is lost.
CancelInCleanup(i) ==
  /\ MayCall /\ i \in 2 .. Len(calling)
  /\ i = Len(calling) => "cancel_in_cleanup" \in Beyond
  /\ outcome' = [outcome EXCEPT ![calling[i]] = "cancelled"]
  /\ calling' = RemoveAt(calling, i)
  /\ evcon' = [evcon EXCEPT !.losing = @ \/ i = Len(calling)]
  /\ UNCHANGED <<requests, free_evcon, freed, exited>>

user_connection_free ==
  /\ MayCall /\ ~evcon.autofree
  /\ outcome' = [r \in Request |-> IF Contains(requests, r) THEN "cancelled" ELSE outcome[r]]
  /\ evhttp_connection_free
  /\ UNCHANGED <<calling, free_evcon>>

evhttp_connection_free_on_completion ==
  /\ MayCall /\ ~evcon.autofree
  /\ Only([evcon EXCEPT !.autofree = TRUE])

-----------------------------------------------------------------------------
UserCalls ==
  \/ \E r \in Request : evhttp_make_request(r)
  \/ \E i \in DOMAIN requests : evhttp_cancel_request(i)
  \/ \E i \in DOMAIN calling : CancelInCleanup(i)
  \/ user_connection_free
  \/ evhttp_connection_free_on_completion

Handlers ==
  \/ ConnectionMade
  \/ evhttp_connection_retry
  \/ evhttp_write_connectioncb
  \/ DataArrives
  \/ evhttp_deferred_read_cb
  \/ ErrorReported
  \/ TimeLimit

Next == UserCalls \/ Handlers \/ CallbackReturns

Spec == Init /\ [][Next]_vars

\* Timers expire, deferred callbacks run, and callbacks return.  A time limit starts again with
\* every byte: a server does not send a response byte by byte for ever.
Fairness ==
  /\ WF_vars(TimeLimit)
  /\ WF_vars(evhttp_connection_retry)
  /\ WF_vars(evhttp_deferred_read_cb)
  /\ WF_vars(CallbackReturns)

FairSpec == Spec /\ Fairness

-----------------------------------------------------------------------------
(* Properties                                                              *)

TypeOK ==
  /\ evcon \in [state : States, closedetect : BOOLEAN, reading_error : BOOLEAN,
                autofree : BOOLEAN, retry_cnt : 0 .. retry_max, retry_ev : BOOLEAN,
                read_more : BOOLEAN, read : BOOLEAN, input : BOOLEAN,
                body : Bodies \cup {"unknown"}, continued : BOOLEAN, losing : BOOLEAN]
  /\ evcon.losing => "cancel_in_cleanup" \in Beyond
  /\ requests \in Seq(Request)
  /\ outcome \in [Request -> {"new", "made", "answered", "cancelled"}]
  /\ calling \in Seq(Request)
  /\ free_evcon \in BOOLEAN
  /\ freed \in BOOLEAN
  /\ exited \in BOOLEAN

\* A request is worked on, or a timer will start the next attempt, exactly if there is one.
NoForgottenRequest ==
  requests # <<>> <=> evcon.state \notin {"disconnected", "idle"} \/ evcon.retry_ev

\* What is left from an earlier state of the connection.
NothingStale ==
  /\ evcon.closedetect => evcon.state = "idle"
  /\ evcon.retry_ev => evcon.state = "disconnected"
  /\ evcon.read_more => evcon.state = "reading_firstline"

\* Every request that was made stands in one queue, once, until its callback starts.
MadeOnce ==
  LET due == requests \o (IF calling = <<>> THEN <<>> ELSE Tail(calling))
  IN  /\ IsInjective(due)
      /\ \A r \in Request : outcome[r] = "made" <=> Contains(due, r)

\* http.c 690, 1160-1165, 1294, 1504: the assertions hold and no callback of the bufferevent
\* comes in a state that it is not meant for; a request is always worked on, and its callback
\* comes at most once.
ConnectionOK ==
  /\ ~exited
  /\ NoForgottenRequest
  /\ NothingStale
  /\ MadeOnce

\* The user hears of every request that it does not cancel.
RequestsEnd == \A r \in Request : outcome[r] = "made" ~> outcome[r] # "made"
=============================================================================
