------------------------------ MODULE UiServer -----------------------------
(***************************************************************************)
(* One puma process of the ui: its threads, and the two things they share  *)
(* without a lock.  The Metrics middleware is one object for all requests  *)
(* and keeps the response it is about to return in instance variables      *)
(* (src/ui/middleware.rb:22).  All upstream calls go through one Faraday   *)
(* connection, whose Request-Id header http_request sets just before the   *)
(* call (src/ui/helpers.rb:34).                                            *)
(*                                                                         *)
(* MRI switches threads at method calls and while it waits for I/O: the    *)
(* multiple assignment of the response and the array that returns it are   *)
(* one step each, everything between them may interleave.                  *)
(***************************************************************************)
EXTENDS Naturals, FiniteSets

CONSTANTS
    Threads,    \* puma's threads
    Requests,   \* requests browsers make, each with an id of its own
    NoRequest,  \* no request; also the Request-Id header before the first
    KindOf      \* the route each request takes

Kinds == {"index", "new", "create", "reject", "vote", "show", "comment",
          "health", "missing"}

ASSUME NoRequestFresh == NoRequest \notin Requests
ASSUME KindsKnown == KindOf \in [Requests -> Kinds]

VARIABLES
    thread,     \* what each thread does
    header,     \* settings.http_client.headers[:request_id]
    ivars,      \* @status and @response of the Metrics object, with the
                \* request they belong to
    sent,       \* observer: upstream calls, with the id they carried
    counted,    \* ui_request_count: requests counted, with their http_status
    delivered,  \* observer: the response each browser received
    overlap     \* observer: pairs of requests served at the same time

vars == <<thread, header, ivars, sent, counted, delivered, overlap>>

Steps == {"idle", "handle", "call", "count", "reply"}
Statuses == {200, 303, 404, 500}

IdleThread == [step |-> "idle", req |-> NoRequest, calls |-> 0, status |-> 200]
NoResponse == [of |-> NoRequest, status |-> 200]

Init ==
    /\ thread = [t \in Threads |-> IdleThread]
    /\ header = NoRequest
    /\ ivars = NoResponse
    /\ sent = {}
    /\ counted = {}
    /\ delivered = [q \in Requests |-> NoResponse]
    /\ overlap = {}

-----------------------------------------------------------------------------
(* Routes: how many upstream calls each makes, and the status it answers.  *)

\* Faulty variant: the post page asks once more for the post.
OneCallMore(kind) == IF kind = "show" THEN 3 ELSE
    IF kind \in {"new", "reject", "missing"} THEN 0 ELSE 1

Calls(kind) == CASE kind \in {"new", "reject", "missing"} -> 0
                 [] kind \in {"index", "create", "vote", "comment"} -> 1
                 [] kind \in {"show", "health"} -> 2

\* redirect answers 303 to a POST.
StatusOf(kind) == CASE kind \in {"index", "new", "show", "health"} -> 200
                    [] kind \in {"create", "reject", "vote", "comment"} -> 303
                    [] kind = "missing" -> 404

Busy(t) == thread[t].step # "idle"
Started == {q \in Requests : \/ delivered[q] # NoResponse
                             \/ \E t \in Threads : thread[t].req = q}

\* A thread takes a request off the backlog; the middleware gives it its id.
Accept(t) ==
    /\ ~Busy(t)
    /\ \E q \in Requests \ Started :
        /\ thread' = [thread EXCEPT ![t] =
                [step |-> "handle", req |-> q, calls |-> Calls(KindOf[q]),
                 status |-> StatusOf(KindOf[q])]]
        /\ LET others == {thread[s].req : s \in {u \in Threads : Busy(u)}}
           IN  overlap' = overlap \cup ({q} \X others) \cup (others \X {q})
    /\ UNCHANGED <<header, ivars, sent, counted, delivered>>

Goto(t, step) == thread' = [thread EXCEPT ![t].step = step]

\* http_request names the request in the header all threads share.
SetHeader(t) ==
    /\ thread[t].step = "handle" /\ thread[t].calls > 0
    /\ header' = thread[t].req
    /\ Goto(t, "call")
    /\ UNCHANGED <<ivars, sent, counted, delivered, overlap>>

\* Faulty variant: a call that fails is repeated until it succeeds.
CallAgain(t) == thread[t].calls

CallsLeft(t) == thread[t].calls - 1

\* Faraday copies the headers into the call, sends it and waits.  A post that
\* cannot be read halts with 404; one that is null breaks the template.
CallService(t) ==
    /\ thread[t].step = "call"
    /\ sent' = sent \cup {[by |-> thread[t].req, id |-> header]}
    /\ \/ thread' = [thread EXCEPT ![t] = [step |-> "handle", req |-> @.req,
                        calls |-> CallsLeft(t), status |-> @.status]]
       \/ /\ KindOf[thread[t].req] = "show" /\ thread[t].calls = 2
          /\ thread' = [thread EXCEPT ![t] = [step |-> "handle", req |-> @.req,
                            calls |-> 0, status |-> 404]]
       \/ /\ KindOf[thread[t].req] = "show" /\ thread[t].calls = 2
          /\ thread' = [thread EXCEPT ![t] = [step |-> "handle", req |-> @.req,
                            calls |-> 1, status |-> 500]]
    /\ UNCHANGED <<header, ivars, counted, delivered, overlap>>

\* Faulty variant: @status ||= ...
FirstResponse(t) == IF ivars # NoResponse THEN ivars
                    ELSE [of |-> thread[t].req, status |-> thread[t].status]

Response(t) == [of |-> thread[t].req, status |-> thread[t].status]

\* @status, @headers, @response = @app.call(env)
StoreResponse(t) ==
    /\ thread[t].step = "handle" /\ thread[t].calls = 0
    /\ ivars' = Response(t)
    /\ Goto(t, "count")
    /\ UNCHANGED <<header, sent, counted, delivered, overlap>>

\* Faulty variant: the status a route answers when all goes well is counted.
ExpectedStatus(t) == StatusOf(KindOf[thread[t].req])

CountedStatus(t) == ivars.status

\* @request_count.increment(..., http_status: @status)
CountRequest(t) ==
    /\ thread[t].step = "count"
    /\ counted' = counted \cup
            {[req |-> thread[t].req, of |-> ivars.of, status |-> CountedStatus(t)]}
    /\ Goto(t, "reply")
    /\ UNCHANGED <<header, ivars, sent, delivered, overlap>>

\* [@status, @headers, @response]
Reply(t) ==
    /\ thread[t].step = "reply"
    /\ delivered' = [delivered EXCEPT ![thread[t].req] = ivars]
    /\ thread' = [thread EXCEPT ![t] = IdleThread]
    /\ UNCHANGED <<header, ivars, sent, counted, overlap>>

\* The scheduler's health check has no request, so it leaves the header alone.
Probe ==
    /\ sent' = sent \cup {[by |-> NoRequest, id |-> header]}
    /\ UNCHANGED <<thread, header, ivars, counted, delivered, overlap>>

Serve(t) == SetHeader(t) \/ CallService(t) \/ StoreResponse(t)
            \/ CountRequest(t) \/ Reply(t)

Next ==
    \/ \E t \in Threads : Accept(t) \/ Serve(t)
    \/ Probe

Spec == Init /\ [][Next]_vars

\* Threads run, and Faraday gives up on a call after its timeout.
FairSpec == Spec /\ \A t \in Threads : WF_vars(Serve(t))

-----------------------------------------------------------------------------
(* Properties.                                                             *)

Jobs == [step : Steps, req : Requests \cup {NoRequest}, calls : 0..2,
         status : Statuses]
Responses == [of : Requests \cup {NoRequest}, status : Statuses]

\* Every variable keeps its type (Metrics#initialize, middleware.rb:4).
TypeOK ==
    /\ thread \in [Threads -> Jobs]
    /\ header \in Requests \cup {NoRequest}
    /\ ivars \in Responses
    /\ sent \subseteq [by : Requests \cup {NoRequest}, id : Requests \cup {NoRequest}]
    /\ counted \subseteq [req : Requests, of : Requests \cup {NoRequest},
                          status : Statuses]
    /\ delivered \in [Requests -> Responses]
    /\ overlap \subseteq Requests \X Requests

Near(q, p) == p = q \/ <<q, p>> \in overlap

\* The shared instance variables and the shared header can only mix up
\* requests that were being served at the same time: a browser receives its
\* own response or one of an overlapping request, the counter takes its status
\* from there too, and a call carries the id of such a request.
MixupsNeedOverlap ==
    /\ \A q \in Requests : delivered[q] # NoResponse => Near(q, delivered[q].of)
    /\ \A c \in counted : Near(c.req, c.of)
    /\ \A s \in sent : s.by # NoRequest => Near(s.by, s.id)

\* The status label of ui_request_count is the status the browser received
\* unless another request overlapped (the error-rate panel of Grafana's
\* UI_Service_Monitoring dashboard is computed from it).
CountedAsAnswered ==
    \A c \in counted :
        \/ delivered[c.req] = NoResponse
        \/ delivered[c.req].status = c.status
        \/ \E q \in Requests : <<c.req, q>> \in overlap

\* The Grafana panel 'Rate of UI HTTP requests with error' reads http_status
\* as the status of the requests on that path.
CountedWithOwnStatus == \A c \in counted : c.of = c.req

\* 'add unique ID to each request': calls made for a request carry its id.
CallsCarryOwnId == \A s \in sent : s.by # NoRequest => s.id = s.by

\* Every accepted request is answered.
Answered == \A q \in Requests :
    (\E t \in Threads : thread[t].req = q) ~> (delivered[q] # NoResponse)

=============================================================================
