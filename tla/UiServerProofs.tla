--------------------------- MODULE UiServerProofs --------------------------
(***************************************************************************)
(* Proofs about UiServer, for any number of threads and requests.          *)
(***************************************************************************)
EXTENDS UiServer, TLAPS

-----------------------------------------------------------------------------
(* Types; a busy thread has a request and an idle one has none, and a      *)
(* thread about to call a service has a call left.                         *)

WellFormed ==
    \A t \in Threads :
        /\ Busy(t) <=> thread[t].req \in Requests
        /\ thread[t].step = "call" => thread[t].calls > 0

Inv1 == TypeOK /\ WellFormed

USE DEF CallsLeft, Response, CountedStatus

LEMMA InitInv1 == Init => Inv1
  BY NoRequestFresh DEF Init, Inv1, TypeOK, WellFormed, Busy, IdleThread,
     NoResponse, Jobs, Responses, Steps, Statuses

LEMMA StepInv1 == Inv1 /\ [Next]_vars => Inv1'
  <1> SUFFICES ASSUME Inv1, [Next]_vars PROVE Inv1'
    OBVIOUS
  <1> USE DEF Inv1, TypeOK, WellFormed, Busy, Jobs, Responses, Steps, Statuses
  <1>1. ASSUME NEW t \in Threads, Accept(t) PROVE Inv1'
    <2>1. PICK q \in Requests :
            /\ thread' = [thread EXCEPT ![t] =
                    [step |-> "handle", req |-> q, calls |-> Calls(KindOf[q]),
                     status |-> StatusOf(KindOf[q])]]
            /\ LET others == {thread[s].req : s \in {u \in Threads : Busy(u)}}
               IN  overlap' = overlap \cup ({q} \X others) \cup (others \X {q})
      BY <1>1 DEF Accept, Started
    <2>2. KindOf[q] \in Kinds
      BY KindsKnown
    <2>3. Calls(KindOf[q]) \in 0..2 /\ StatusOf(KindOf[q]) \in Statuses
      BY <2>2 DEF Calls, StatusOf, Kinds
    <2>4. overlap' \subseteq Requests \X Requests
      BY <2>1
    <2>5. thread' \in [Threads -> Jobs] /\ WellFormed'
      BY <2>1, <2>3
    <2> QED
      BY <1>1, <2>4, <2>5 DEF Accept
  <1>2. ASSUME NEW t \in Threads, SetHeader(t) PROVE Inv1'
    BY <1>2 DEF SetHeader, Goto
  <1>3. ASSUME NEW t \in Threads, CallService(t) PROVE Inv1'
    <2>1. thread[t].req \in Requests
      BY <1>3 DEF CallService
    <2>2. PICK n \in 0..2, st \in Statuses :
            thread' = [thread EXCEPT ![t] = [step |-> "handle",
                          req |-> thread[t].req, calls |-> n, status |-> st]]
      <3>1. thread[t].calls - 1 \in 0..2 /\ thread[t].status \in Statuses
        BY <1>3 DEF CallService
      <3> QED
        BY <1>3, <3>1 DEF CallService
    <2> QED
      BY <1>3, <2>1, <2>2 DEF CallService
  <1>4. ASSUME NEW t \in Threads, StoreResponse(t) PROVE Inv1'
    BY <1>4 DEF StoreResponse, Goto
  <1>5. ASSUME NEW t \in Threads, CountRequest(t) PROVE Inv1'
    BY <1>5 DEF CountRequest, Goto
  <1>6. ASSUME NEW t \in Threads, Reply(t) PROVE Inv1'
    BY <1>6, NoRequestFresh DEF Reply, IdleThread
  <1>7. CASE Probe
    BY <1>7 DEF Probe
  <1>8. CASE UNCHANGED vars
    BY <1>8 DEF vars
  <1> QED
    BY <1>1, <1>2, <1>3, <1>4, <1>5, <1>6, <1>7, <1>8 DEF Next, Serve

-----------------------------------------------------------------------------
(* Mix-ups need overlap.  Busy threads overlap pairwise, so whoever last   *)
(* wrote the shared header or the shared response while a thread was       *)
(* between its write and its read overlaps that thread's request.          *)

BusyOverlap ==
    \A s, t \in Threads : s # t /\ Busy(s) /\ Busy(t) =>
        <<thread[s].req, thread[t].req>> \in overlap

SharedNear ==
    \A t \in Threads :
        /\ thread[t].step = "call" => Near(thread[t].req, header)
        /\ thread[t].step \in {"count", "reply"} => Near(thread[t].req, ivars.of)

Inv2 == Inv1 /\ BusyOverlap /\ SharedNear /\ MixupsNeedOverlap

LEMMA InitInv2 == Init => Inv2
  <1>1. Init => BusyOverlap /\ SharedNear /\ MixupsNeedOverlap
    BY DEF Init, BusyOverlap, SharedNear, MixupsNeedOverlap, Busy, IdleThread
  <1> QED
    BY <1>1, InitInv1 DEF Inv2

\* A busy thread that keeps its request changes who overlaps whom for nobody.
LEMMA KeepOverlap ==
  ASSUME Inv2, NEW t \in Threads, Busy(t),
         \A s \in Threads \ {t} : thread'[s] = thread[s],
         thread'[t].req = thread[t].req \/ thread'[t].step = "idle",
         UNCHANGED overlap
  PROVE  BusyOverlap'
  BY DEF Inv2, BusyOverlap, Busy

LEMMA StepInv2 == Inv2 /\ [Next]_vars => Inv2'
  <1> SUFFICES ASSUME Inv2, [Next]_vars PROVE Inv2'
    OBVIOUS
  <1>1. /\ Inv1' /\ thread \in [Threads -> Jobs] /\ delivered \in [Requests -> Responses]
        /\ WellFormed /\ BusyOverlap /\ SharedNear /\ MixupsNeedOverlap
    BY StepInv1 DEF Inv1, Inv2, TypeOK
  <1> USE DEF Near
  <1>2. ASSUME NEW t \in Threads, Accept(t) PROVE Inv2'
    <2>1. PICK q \in Requests :
            /\ thread' = [thread EXCEPT ![t] =
                    [step |-> "handle", req |-> q, calls |-> Calls(KindOf[q]),
                     status |-> StatusOf(KindOf[q])]]
            /\ LET others == {thread[s].req : s \in {u \in Threads : Busy(u)}}
               IN  overlap' = overlap \cup ({q} \X others) \cup (others \X {q})
      BY <1>2 DEF Accept
    <2>2. overlap \subseteq overlap'
      BY <2>1
    <2>3. \A s \in Threads \ {t} : Busy(s) =>
              <<q, thread[s].req>> \in overlap' /\ <<thread[s].req, q>> \in overlap'
      BY <2>1
    <2>4. /\ thread'[t].req = q /\ thread'[t].step = "handle"
          /\ \A s \in Threads \ {t} : thread'[s] = thread[s]
      BY <1>1, <2>1
    <2>5. BusyOverlap'
      BY <1>1, <2>2, <2>3, <2>4 DEF BusyOverlap, Busy
    <2>6. SharedNear' /\ MixupsNeedOverlap'
      BY <1>1, <1>2, <2>2, <2>4 DEF SharedNear, MixupsNeedOverlap, Accept
    <2> QED
      BY <1>1, <2>5, <2>6 DEF Inv2
  <1>3. ASSUME NEW t \in Threads, SetHeader(t) PROVE Inv2'
    <2>1. /\ Busy(t) /\ thread'[t].req = thread[t].req /\ thread'[t].step = "call"
          /\ \A s \in Threads \ {t} : thread'[s] = thread[s]
      BY <1>1, <1>3 DEF SetHeader, Goto, Busy, Jobs
    <2>2. BusyOverlap'
      BY <1>3, <2>1, KeepOverlap DEF SetHeader
    <2>3. SharedNear'
      BY <1>1, <1>3, <2>1, <2>2 DEF SharedNear, SetHeader, BusyOverlap, Busy
    <2>4. MixupsNeedOverlap'
      BY <1>1, <1>3 DEF MixupsNeedOverlap, SetHeader
    <2> QED
      BY <1>1, <2>2, <2>3, <2>4 DEF Inv2
  <1>4. ASSUME NEW t \in Threads, CallService(t) PROVE Inv2'
    <2>1. /\ Busy(t) /\ thread'[t].req = thread[t].req /\ thread'[t].step = "handle"
          /\ \A s \in Threads \ {t} : thread'[s] = thread[s]
      BY <1>1, <1>4 DEF CallService, Busy
    <2>2. BusyOverlap'
      BY <1>4, <2>1, KeepOverlap DEF CallService
    <2>3. SharedNear'
      BY <1>1, <1>4, <2>1 DEF SharedNear, CallService
    <2>4. MixupsNeedOverlap'
      <3>1. /\ sent' = sent \cup {[by |-> thread[t].req, id |-> header]}
            /\ Near(thread[t].req, header)
            /\ UNCHANGED <<counted, delivered, overlap>>
        BY <1>1, <1>4 DEF SharedNear, CallService
      <3>2. \A s \in sent' : s.by # NoRequest => Near(s.by, s.id)
        BY <1>1, <3>1 DEF MixupsNeedOverlap
      <3> QED
        BY <1>1, <3>1, <3>2 DEF MixupsNeedOverlap
    <2> QED
      BY <1>1, <2>2, <2>3, <2>4 DEF Inv2
  <1>5. ASSUME NEW t \in Threads, StoreResponse(t) PROVE Inv2'
    <2>1. /\ Busy(t) /\ thread'[t].req = thread[t].req /\ thread'[t].step = "count"
          /\ \A s \in Threads \ {t} : thread'[s] = thread[s]
          /\ ivars'.of = thread[t].req
      BY <1>1, <1>5 DEF StoreResponse, Goto, Busy, Jobs
    <2>2. BusyOverlap'
      BY <1>5, <2>1, KeepOverlap DEF StoreResponse
    <2>3. SharedNear'
      BY <1>1, <1>5, <2>1, <2>2 DEF SharedNear, StoreResponse, BusyOverlap, Busy
    <2>4. MixupsNeedOverlap'
      BY <1>1, <1>5 DEF MixupsNeedOverlap, StoreResponse
    <2> QED
      BY <1>1, <2>2, <2>3, <2>4 DEF Inv2
  <1>6. ASSUME NEW t \in Threads, CountRequest(t) PROVE Inv2'
    <2>1. /\ Busy(t) /\ thread'[t].req = thread[t].req /\ thread'[t].step = "reply"
          /\ \A s \in Threads \ {t} : thread'[s] = thread[s]
      BY <1>1, <1>6 DEF CountRequest, Goto, Busy, Jobs
    <2>2. BusyOverlap'
      BY <1>6, <2>1, KeepOverlap DEF CountRequest
    <2>3. SharedNear'
      BY <1>1, <1>6, <2>1 DEF SharedNear, CountRequest
    <2>4. MixupsNeedOverlap'
      <3>1. /\ counted' = counted \cup {[req |-> thread[t].req, of |-> ivars.of,
                                         status |-> ivars.status]}
            /\ Near(thread[t].req, ivars.of)
            /\ UNCHANGED <<sent, delivered, overlap>>
        BY <1>1, <1>6 DEF SharedNear, CountRequest
      <3>2. \A c \in counted : Near(c.req, c.of)
        BY <1>1 DEF MixupsNeedOverlap
      <3>3. \A c \in counted' : Near(c.req, c.of)
        <4> DEFINE new == [req |-> thread[t].req, of |-> ivars.of, status |-> ivars.status]
        <4>1. new.req = thread[t].req /\ new.of = ivars.of
          OBVIOUS
        <4>2. Near(new.req, new.of)
          BY <3>1, <4>1
        <4> HIDE DEF new
        <4>3. counted' = counted \cup {new}
          BY <3>1 DEF new
        <4> QED
          BY <3>2, <4>2, <4>3
      <3> QED
        BY <1>1, <3>1, <3>3 DEF MixupsNeedOverlap
    <2> QED
      BY <1>1, <2>2, <2>3, <2>4 DEF Inv2
  <1>7. ASSUME NEW t \in Threads, Reply(t) PROVE Inv2'
    <2>1. /\ Busy(t) /\ thread'[t].step = "idle"
          /\ \A s \in Threads \ {t} : thread'[s] = thread[s]
      BY <1>1, <1>7 DEF Reply, IdleThread, Busy
    <2>2. BusyOverlap'
      BY <1>7, <2>1, KeepOverlap DEF Reply
    <2>3. SharedNear'
      BY <1>1, <1>7, <2>1 DEF SharedNear, Reply
    <2>4. MixupsNeedOverlap'
      BY <1>1, <1>7 DEF MixupsNeedOverlap, SharedNear, Reply
    <2> QED
      BY <1>1, <2>2, <2>3, <2>4 DEF Inv2
  <1>8. CASE Probe
    BY <1>1, <1>8 DEF Probe, Inv2, BusyOverlap, SharedNear, MixupsNeedOverlap, Busy
  <1>9. CASE UNCHANGED vars
    BY <1>1, <1>9 DEF vars, Inv2, BusyOverlap, SharedNear, MixupsNeedOverlap, Busy
  <1> QED
    BY <1>2, <1>3, <1>4, <1>5, <1>6, <1>7, <1>8, <1>9 DEF Next, Serve

\* Every variable of a ui process keeps its type.
THEOREM TypeCorrect == Spec => []TypeOK
  <1>1. Inv1 => TypeOK
    BY DEF Inv1
  <1> QED
    BY InitInv1, StepInv1, <1>1, PTL DEF Spec

\* However many threads puma runs, the state they share without a lock mixes
\* up only requests that were served at the same time.
THEOREM MixupsAreBounded == Spec => []MixupsNeedOverlap
  <1>1. Inv2 => MixupsNeedOverlap
    BY DEF Inv2
  <1> QED
    BY InitInv2, StepInv2, <1>1, PTL DEF Spec

-----------------------------------------------------------------------------
(* Status labels.  A request is served once, so what a thread counted is   *)
(* what it delivers, unless another request overlapped it.                 *)

Alone(q) == \A p \in Requests : <<q, p>> \notin overlap

\* A request that is served has not been answered.
Once == \A t \in Threads : Busy(t) =>
    /\ delivered[thread[t].req] = NoResponse
    /\ \A s \in Threads : s # t => thread[s].req # thread[t].req

\* The shared response is that of the thread about to use it.
OwnResponse ==
    \A t \in Threads : thread[t].step \in {"count", "reply"} /\ Alone(thread[t].req) =>
        ivars.status = thread[t].status

\* A request is counted by the thread about to reply, or has been answered.
Counts ==
    \A c \in counted :
        \/ delivered[c.req] # NoResponse
        \/ \E t \in Threads :
            /\ thread[t].step = "reply" /\ thread[t].req = c.req
            /\ Alone(c.req) => c.status = thread[t].status

Inv3 == Inv2 /\ Once /\ OwnResponse /\ Counts /\ CountedAsAnswered

LEMMA InitInv3 == Init => Inv3
  <1>1. Init => Once /\ OwnResponse /\ Counts /\ CountedAsAnswered
    BY DEF Init, Once, OwnResponse, Counts, CountedAsAnswered, Busy, IdleThread
  <1> QED
    BY <1>1, InitInv2 DEF Inv3

\* A step that moves one thread on and answers nobody, and leaves the response
\* and the counter alone.
LEMMA MovesOn ==
  ASSUME Inv3, Inv2', NEW t \in Threads, Busy(t), thread[t].step # "reply",
         thread[t].step # "count", thread'[t].step \in {"handle", "call"},
         thread'[t].req = thread[t].req,
         \A s \in Threads \ {t} : thread'[s] = thread[s],
         UNCHANGED <<ivars, counted, delivered, overlap>>
  PROVE  Inv3'
  <1>1. Once'
    BY DEF Inv3, Once, Busy
  <1>2. OwnResponse' /\ Counts' /\ CountedAsAnswered'
    BY DEF Inv3, OwnResponse, Counts, CountedAsAnswered, Alone
  <1> QED
    BY <1>1, <1>2 DEF Inv3

LEMMA StepInv3 == Inv3 /\ [Next]_vars => Inv3'
  <1> SUFFICES ASSUME Inv3, [Next]_vars PROVE Inv3'
    OBVIOUS
  <1>1. /\ Inv2 /\ Inv2' /\ Once /\ OwnResponse /\ Counts /\ CountedAsAnswered
    BY StepInv2 DEF Inv3
  <1>2. /\ thread \in [Threads -> Jobs] /\ delivered \in [Requests -> Responses]
        /\ overlap \subseteq Requests \X Requests
        /\ \A c \in counted : c.req \in Requests
        /\ \A t \in Threads : Busy(t) <=> thread[t].req \in Requests
        /\ BusyOverlap /\ SharedNear
    BY <1>1 DEF Inv2, Inv1, TypeOK, WellFormed
  <1>3. ASSUME NEW t \in Threads, Accept(t) PROVE Inv3'
    <2>1. PICK q \in Requests \ Started :
            /\ thread' = [thread EXCEPT ![t] =
                    [step |-> "handle", req |-> q, calls |-> Calls(KindOf[q]),
                     status |-> StatusOf(KindOf[q])]]
            /\ LET others == {thread[s].req : s \in {u \in Threads : Busy(u)}}
               IN  overlap' = overlap \cup ({q} \X others) \cup (others \X {q})
      BY <1>3 DEF Accept
    <2>2. /\ overlap \subseteq overlap'
          /\ \A p \in Requests : Alone(p)' => Alone(p)
      BY <2>1 DEF Alone
    <2>3. /\ thread'[t].req = q /\ thread'[t].step = "handle" /\ ~Busy(t)
          /\ \A s \in Threads \ {t} : thread'[s] = thread[s]
          /\ delivered[q] = NoResponse /\ \A s \in Threads : thread[s].req # q
          /\ UNCHANGED <<ivars, counted, delivered>>
      BY <1>2, <1>3, <2>1 DEF Accept, Started
    <2>4. Once'
      BY <1>1, <2>3 DEF Once, Busy
    <2>5. OwnResponse'
      BY <1>1, <1>2, <2>2, <2>3 DEF OwnResponse, Busy
    <2>6. Counts'
      BY <1>1, <1>2, <2>2, <2>3 DEF Counts, Busy
    <2>7. CountedAsAnswered'
      BY <1>1, <2>2, <2>3 DEF CountedAsAnswered
    <2> QED
      BY <1>1, <2>4, <2>5, <2>6, <2>7 DEF Inv3
  <1>4. ASSUME NEW t \in Threads, SetHeader(t) PROVE Inv3'
    <2>1. /\ Busy(t) /\ thread[t].step = "handle" /\ thread'[t].step = "call"
          /\ thread'[t].req = thread[t].req
          /\ \A s \in Threads \ {t} : thread'[s] = thread[s]
          /\ UNCHANGED <<ivars, counted, delivered, overlap>>
      BY <1>2, <1>4 DEF SetHeader, Goto, Busy, Jobs
    <2> QED
      BY <1>1, <2>1, MovesOn
  <1>5. ASSUME NEW t \in Threads, CallService(t) PROVE Inv3'
    <2>1. /\ Busy(t) /\ thread[t].step = "call" /\ thread'[t].step = "handle"
          /\ thread'[t].req = thread[t].req
          /\ \A s \in Threads \ {t} : thread'[s] = thread[s]
          /\ UNCHANGED <<ivars, counted, delivered, overlap>>
      BY <1>2, <1>5 DEF CallService, Busy
    <2> QED
      BY <1>1, <2>1, MovesOn
  <1>6. ASSUME NEW t \in Threads, StoreResponse(t) PROVE Inv3'
    <2>1. /\ Busy(t) /\ thread[t].step = "handle" /\ thread'[t].step = "count"
          /\ thread'[t].req = thread[t].req /\ thread'[t].status = thread[t].status
          /\ \A s \in Threads \ {t} : thread'[s] = thread[s]
          /\ ivars'.status = thread[t].status
          /\ UNCHANGED <<counted, delivered, overlap>>
      BY <1>2, <1>6 DEF StoreResponse, Goto, Busy, Jobs
    <2>2. Once'
      BY <1>1, <2>1 DEF Once, Busy
    <2>3. \A s \in Threads \ {t} : Busy(s) => ~Alone(thread[s].req)
      BY <1>2, <2>1 DEF BusyOverlap, Alone
    <2>4. OwnResponse'
      BY <2>1, <2>3 DEF OwnResponse, Alone, Busy
    <2>5. Counts' /\ CountedAsAnswered'
      BY <1>1, <2>1 DEF Counts, CountedAsAnswered, Alone
    <2> QED
      BY <1>1, <2>2, <2>4, <2>5 DEF Inv3
  <1>7. ASSUME NEW t \in Threads, CountRequest(t) PROVE Inv3'
    <2> DEFINE new == [req |-> thread[t].req, of |-> ivars.of, status |-> ivars.status]
    <2>1. /\ Busy(t) /\ thread[t].step = "count" /\ thread'[t].step = "reply"
          /\ thread'[t].req = thread[t].req /\ thread'[t].status = thread[t].status
          /\ \A s \in Threads \ {t} : thread'[s] = thread[s]
          /\ counted' = counted \cup {new}
          /\ UNCHANGED <<ivars, delivered, overlap>>
      BY <1>2, <1>7 DEF CountRequest, Goto, Busy, Jobs
    <2>2. new.req = thread[t].req /\ new.status = ivars.status
      OBVIOUS
    <2> HIDE DEF new
    <2>3. Once'
      BY <1>1, <2>1 DEF Once, Busy
    <2>4. OwnResponse'
      BY <1>1, <2>1 DEF OwnResponse, Alone
    <2>5. Alone(new.req) => new.status = thread[t].status
      BY <1>1, <2>1, <2>2 DEF OwnResponse
    <2>6. Counts'
      BY <1>1, <2>1, <2>2, <2>5 DEF Counts, Alone
    <2>7. CountedAsAnswered'
      BY <1>1, <2>1, <2>2 DEF CountedAsAnswered, Once
    <2> QED
      BY <1>1, <2>3, <2>4, <2>6, <2>7 DEF Inv3
  <1>8. ASSUME NEW t \in Threads, Reply(t) PROVE Inv3'
    <2>1. /\ Busy(t) /\ thread[t].step = "reply" /\ thread'[t] = IdleThread
          /\ \A s \in Threads \ {t} : thread'[s] = thread[s]
          /\ delivered' = [delivered EXCEPT ![thread[t].req] = ivars]
          /\ UNCHANGED <<ivars, counted, overlap>>
      BY <1>2, <1>8 DEF Reply, Busy
    <2>2. thread[t].req \in Requests
      BY <1>2, <2>1
    <2>3. ivars # NoResponse
      <3>1. Near(thread[t].req, ivars.of)
        BY <1>2, <2>1 DEF SharedNear
      <3>2. ivars.of \in Requests
        BY <1>2, <2>2, <3>1 DEF Near
      <3>3. NoResponse.of \notin Requests
        BY NoRequestFresh DEF NoResponse
      <3> QED
        BY <3>2, <3>3
    <2>4. /\ delivered'[thread[t].req] = ivars
          /\ \A q \in Requests : q # thread[t].req => delivered'[q] = delivered[q]
      BY <1>2, <2>1, <2>2
    <2>5. Once'
      BY <1>1, <1>2, <2>1, <2>4, NoRequestFresh DEF Once, Busy, IdleThread
    <2>6. OwnResponse'
      BY <1>1, <2>1 DEF OwnResponse, Alone, IdleThread
    <2>7. \A c \in counted : c.req = thread[t].req /\ Alone(c.req) =>
              c.status = ivars.status
      <3>1. ASSUME NEW c \in counted, c.req = thread[t].req, Alone(c.req)
            PROVE  c.status = ivars.status
        <4>1. delivered[c.req] = NoResponse
          BY <1>1, <2>1, <3>1 DEF Once
        <4>2. PICK s \in Threads : /\ thread[s].req = c.req
                                   /\ Alone(c.req) => c.status = thread[s].status
          BY <1>1, <4>1 DEF Counts
        <4>3. s = t
          BY <1>1, <2>1, <3>1, <4>2 DEF Once
        <4>4. ivars.status = thread[t].status
          BY <1>1, <2>1, <3>1 DEF OwnResponse
        <4> QED
          BY <3>1, <4>2, <4>3, <4>4
      <3> QED
        BY <3>1
    <2>8. Counts'
      BY <1>1, <1>2, <2>1, <2>3, <2>4 DEF Counts, Alone
    <2>9. CountedAsAnswered'
      BY <1>1, <1>2, <2>1, <2>4, <2>7 DEF CountedAsAnswered, Alone
    <2> QED
      BY <1>1, <2>5, <2>6, <2>8, <2>9 DEF Inv3
  <1>9. CASE Probe
    BY <1>1, <1>9 DEF Probe, Inv3, Once, OwnResponse, Counts, CountedAsAnswered, Busy, Alone
  <1>10. CASE UNCHANGED vars
    BY <1>1, <1>10 DEF vars, Inv3, Once, OwnResponse, Counts, CountedAsAnswered, Busy, Alone
  <1> QED
    BY <1>3, <1>4, <1>5, <1>6, <1>7, <1>8, <1>9, <1>10 DEF Next, Serve

\* The status label of a request is the status its browser received, unless
\* another request overlapped it, however many threads there are.
THEOREM StatusLabelsAreTrue == Spec => []CountedAsAnswered
  <1>1. Inv3 => CountedAsAnswered
    BY DEF Inv3
  <1> QED
    BY InitInv3, StepInv3, <1>1, PTL DEF Spec

-----------------------------------------------------------------------------
(* One thread.                                                             *)

NoOverlap == overlap = {}

\* With a single thread no two requests overlap, so every call carries the id
\* of its request and every request is counted with its own status.
THEOREM OneThreadIsExact ==
  ASSUME \A s, t \in Threads : s = t
  PROVE  Spec => [](CallsCarryOwnId /\ CountedWithOwnStatus)
  <1>1. Init => NoOverlap
    BY DEF Init, NoOverlap
  <1>2. NoOverlap /\ [Next]_vars => NoOverlap'
    <2>1. ASSUME NoOverlap, NEW t \in Threads, Accept(t) PROVE NoOverlap'
      BY <2>1 DEF Accept, NoOverlap
    <2> QED
      BY <2>1 DEF Next, Serve, SetHeader, CallService, StoreResponse,
         CountRequest, Reply, Probe, vars, NoOverlap
  <1>3. MixupsNeedOverlap /\ TypeOK /\ NoOverlap =>
            CallsCarryOwnId /\ CountedWithOwnStatus
    BY DEF MixupsNeedOverlap, Near, CallsCarryOwnId, CountedWithOwnStatus, TypeOK,
       NoOverlap
  <1> QED
    BY MixupsAreBounded, TypeCorrect, <1>1, <1>2, <1>3, PTL DEF Spec

=============================================================================
