-------------------------- MODULE UiSessionProofs ---------------------------
(***************************************************************************)
(* Theorems about UiSession, for any replicas, tabs and submissions.       *)
(***************************************************************************)
EXTENDS UiSession, TLAPS

-----------------------------------------------------------------------------
(* The invariant.                                                          *)

(* A tab that waits for no response holds no session, one that does waits  *)
(* for a replica; sessions hold flashes that have been added to one.       *)
WellFormed ==
    /\ cookie.by = NoOne => cookie.flashes = {}
    /\ cookie.flashes \subseteq flashed
    /\ \A t \in Tabs :
        /\ tab[t].flashes \subseteq flashed
        /\ ~Waiting(t) => tab[t].flashes = {}
        /\ Waiting(t) => tab[t].at \in Replicas
        /\ tab[t].step = "post" => tab[t].of \in sent

(* A submission belongs to one tab, until it has been flashed about.       *)
Owned ==
    /\ \A f \in flashed : f.of \in sent
    /\ \A t \in Tabs : tab[t].step = "post" =>
        /\ \A f \in flashed : f.of # tab[t].of
        /\ \A u \in Tabs : u # t /\ tab[u].step = "post" => tab[u].of # tab[t].of

(* Tabs that have never waited together wait one at a time.                *)
OneWaits ==
    ~overlapped => \A t, u \in Tabs : Waiting(t) /\ Waiting(u) => t = u

(* No session holds a flash that a page has shown.                         *)
NoneHeld ==
    ~overlapped =>
        /\ cookie.flashes \cap shown = {}
        /\ \A t \in Tabs : tab[t].flashes \cap shown = {}

(* A request has brought along what the cookie holds.                      *)
Carried ==
    ~overlapped /\ ~moved =>
        \A t \in Tabs : Waiting(t) => cookie.flashes \subseteq tab[t].flashes

IInv == /\ TypeOK /\ WellFormed /\ Owned /\ OneWaits
        /\ NoneHeld /\ Carried /\ ShownOnce /\ NothingLost

-----------------------------------------------------------------------------
USE DEF Kept, AfterShown, InvalidLink

(* The initial state satisfies IInv.                                       *)
LEMMA InitInv == Init => IInv
<1> SUFFICES ASSUME Init PROVE IInv
    OBVIOUS
<1>1. /\ Idle \in Requests /\ Idle.flashes = {} /\ Idle.step = "idle"
      /\ \A t \in Tabs : tab[t] = Idle
      BY DEF Init, Idle, Requests
<1>2. TypeOK
      BY <1>1 DEF Init, TypeOK
<1>3. WellFormed /\ Owned /\ OneWaits
      BY <1>1 DEF Init, WellFormed, Owned, OneWaits, Waiting
<1>4. NoneHeld /\ Carried /\ ShownOnce /\ NothingLost
      BY <1>1 DEF Init, NoneHeld, Carried, ShownOnce, NothingLost, Waiting
<1>. QED BY <1>2, <1>3, <1>4 DEF IInv

(* What a step that sends a request does.                                  *)
LEMMA SendFacts ==
    ASSUME TypeOK, NEW t \in Tabs, NEW of \in Submissions \cup {NoOne},
           NEW step \in {"post", "render", "look"}, Send(t, step, of)
    PROVE  /\ tab' \in [Tabs -> Requests]
           /\ \A u \in Tabs : u # t => tab'[u] = tab[u]
           /\ tab'[t].step = step /\ tab'[t].of = of /\ tab'[t].at \in Replicas
           /\ tab'[t].flashes \subseteq cookie.flashes
           /\ ~moved' => ~moved /\ (cookie.by = NoOne \/ tab'[t].flashes = cookie.flashes)
           /\ ~overlapped' => ~overlapped /\ \A u \in Tabs : u # t => ~Waiting(u)
           /\ moved' \in BOOLEAN /\ overlapped' \in BOOLEAN
<1>1. PICK r \in Replicas :
        /\ tab' = [tab EXCEPT ![t] = [step |-> step, at |-> r, of |-> of,
                flashes |-> IF cookie.by = r THEN cookie.flashes ELSE {}]]
        /\ moved' = (moved \/ cookie.by \notin {r, NoOne})
        /\ overlapped' = (overlapped \/ \E u \in Tabs \ {t} : Waiting(u))
      BY DEF Send
<1>2. (IF cookie.by = r THEN cookie.flashes ELSE {}) \in SUBSET Flashes
      BY DEF TypeOK
<1>3. [step |-> step, at |-> r, of |-> of,
       flashes |-> IF cookie.by = r THEN cookie.flashes ELSE {}] \in Requests
      BY <1>2 DEF Requests
<1>4. tab \in [Tabs -> Requests] /\ moved \in BOOLEAN /\ overlapped \in BOOLEAN
      BY DEF TypeOK
<1>5. /\ tab' \in [Tabs -> Requests]
      /\ \A u \in Tabs : u # t => tab'[u] = tab[u]
      /\ tab'[t] = [step |-> step, at |-> r, of |-> of,
                    flashes |-> IF cookie.by = r THEN cookie.flashes ELSE {}]
      BY <1>1, <1>3, <1>4
<1>6. ~moved' => ~moved /\ cookie.by \in {r, NoOne}
      BY <1>1
<1>7. ~overlapped' => ~overlapped /\ \A u \in Tabs : u # t => ~Waiting(u)
      BY <1>1
<1>8. moved' \in BOOLEAN /\ overlapped' \in BOOLEAN
      BY <1>1
<1>. QED BY <1>5, <1>6, <1>7, <1>8

(* A request that is sent preserves IInv, whatever it asks for.            *)
LEMMA SendStep ==
    ASSUME IInv, NEW t \in Tabs, NEW of \in Submissions \cup {NoOne},
           NEW step \in {"post", "render", "look"}, Send(t, step, of), ~Waiting(t),
           step = "post" => of \in Submissions \ sent /\ sent' = sent \cup {of},
           step # "post" => sent' = sent,
           UNCHANGED <<cookie, refused, flashed, shown, shownAgain>>
    PROVE  IInv'
<1>1. TypeOK /\ WellFormed /\ Owned /\ OneWaits
      BY DEF IInv
<1>2. /\ tab' \in [Tabs -> Requests]
      /\ \A u \in Tabs : u # t => tab'[u] = tab[u]
      /\ tab'[t].step = step /\ tab'[t].of = of /\ tab'[t].at \in Replicas
      /\ tab'[t].flashes \subseteq cookie.flashes
      /\ ~moved' => ~moved /\ (cookie.by = NoOne \/ tab'[t].flashes = cookie.flashes)
      /\ ~overlapped' => ~overlapped /\ \A u \in Tabs : u # t => ~Waiting(u)
      /\ moved' \in BOOLEAN /\ overlapped' \in BOOLEAN
      BY <1>1, SendFacts
<1>3. TypeOK'
      BY <1>1, <1>2 DEF TypeOK
<1>4. WellFormed'
      BY <1>1, <1>2 DEF WellFormed, Waiting
<1>5. Owned'
  <2>1. /\ \A f \in flashed : f.of \in sent
        /\ \A u \in Tabs : tab[u].step = "post" => tab[u].of \in sent
        BY <1>1 DEF Owned, WellFormed
  <2>2. step = "post" => /\ \A f \in flashed : f.of # of
                         /\ \A u \in Tabs : tab[u].step = "post" => tab[u].of # of
        BY <2>1
  <2>3. sent \subseteq sent'
        OBVIOUS
  <2>. QED BY <1>1, <1>2, <2>1, <2>2, <2>3 DEF Owned
<1>6. OneWaits'
      BY <1>2 DEF OneWaits, Waiting
<1>7. NoneHeld' /\ ShownOnce'
      BY <1>2 DEF IInv, NoneHeld, ShownOnce
<1>8. Carried'
      BY <1>1, <1>2 DEF WellFormed, Carried, Waiting
<1>9. NothingLost'
  <2>1. tab[t].flashes = {}
        BY <1>1 DEF WellFormed
  <2>2. SUFFICES ASSUME ~overlapped, ~moved
                 PROVE  UNION {tab[u].flashes : u \in Tabs}
                          \subseteq UNION {tab'[u].flashes : u \in Tabs}
        BY <1>2 DEF IInv, NothingLost
  <2>. QED BY <1>2, <2>1
<1>. QED BY <1>3, <1>4, <1>5, <1>6, <1>7, <1>8, <1>9 DEF IInv

(* A response that is no page takes the session back to the cookie, with   *)
(* the new flashes, which are of a submission nothing has been said about. *)
LEMMA RespondStep ==
    ASSUME IInv, NEW t \in Tabs, Waiting(t),
           NEW new \in SUBSET Flashes, NEW next \in SUBSET {"idle", "follow", "back"},
           Respond(t, new, next),
           \A f \in new : tab[t].step = "post" /\ f.of = tab[t].of,
           refused' \subseteq sent,
           UNCHANGED <<sent, shown, shownAgain, overlapped, moved>>
    PROVE  IInv'
<1>1. TypeOK /\ WellFormed /\ Owned /\ OneWaits
      BY DEF IInv
<1>2. PICK step \in next : tab' = [tab EXCEPT ![t] = [Idle EXCEPT !.step = step]]
      BY DEF Respond
<1> DEFINE back == [Idle EXCEPT !.step = step]
<1>3. /\ back \in Requests /\ back.flashes = {} /\ back.of = NoOne
      /\ back.step \in {"idle", "follow", "back"}
      BY DEF Idle, Requests
<1>4. tab' = [tab EXCEPT ![t] = back]
      BY <1>2
<1> HIDE DEF back
<1>5. /\ tab' \in [Tabs -> Requests] /\ tab'[t] = back
      /\ \A u \in Tabs : u # t => tab'[u] = tab[u]
      BY <1>1, <1>3, <1>4 DEF TypeOK
<1>6. /\ cookie'.by = tab[t].at /\ cookie'.flashes = tab[t].flashes \cup new
      /\ cookie' \in [by : Replicas \cup {NoOne}, flashes : SUBSET Flashes]
      /\ flashed' = flashed \cup new
  <2>1. tab[t] \in Requests
        BY <1>1 DEF TypeOK
  <2>. QED BY <2>1 DEF Requests, Respond
<1>7. tab[t].at # NoOne
      BY <1>1, NoOneFresh DEF WellFormed
<1>8. \A f \in new : f \notin flashed /\ f \notin shown /\ f.of \in sent
      BY <1>1 DEF Owned, WellFormed, TypeOK
<1>9. TypeOK'
      BY <1>1, <1>5, <1>6 DEF TypeOK
<1>10. WellFormed'
       BY <1>1, <1>3, <1>5, <1>6, <1>7 DEF WellFormed, Waiting
<1>11. Owned'
  <2>1. \A u \in Tabs : u # t /\ tab[u].step = "post" => \A f \in new : f.of # tab[u].of
        BY <1>1 DEF Owned
  <2>. QED BY <1>1, <1>3, <1>5, <1>6, <1>8, <2>1 DEF Owned
<1>12. OneWaits'
       BY <1>1, <1>3, <1>5 DEF OneWaits, Waiting
<1>13. NoneHeld' /\ ShownOnce'
       BY <1>3, <1>5, <1>6, <1>8 DEF IInv, NoneHeld, ShownOnce
<1>14. Carried'
       BY <1>1, <1>3, <1>5 DEF OneWaits, Carried, Waiting
<1>15. NothingLost'
  <2>1. SUFFICES ASSUME ~overlapped, ~moved
                 PROVE  flashed' \ shown \subseteq cookie'.flashes
        BY DEF NothingLost
  <2>2. \A u \in Tabs : u # t => tab[u].flashes = {}
        BY <1>1, <2>1 DEF OneWaits, WellFormed
  <2>3. cookie.flashes \subseteq tab[t].flashes
        BY <2>1 DEF IInv, Carried
  <2>. QED BY <1>6, <2>1, <2>2, <2>3 DEF IInv, NothingLost
<1>. QED BY <1>9, <1>10, <1>11, <1>12, <1>13, <1>14, <1>15 DEF IInv

(* A page shows the session's flashes and clears it.                       *)
LEMMA RenderStep ==
    ASSUME IInv, NEW t \in Tabs, Render(t)
    PROVE  IInv'
<1>1. TypeOK /\ WellFormed /\ Owned /\ OneWaits
      BY DEF IInv
<1>2. /\ Idle \in Requests /\ Idle.flashes = {} /\ Idle.of = NoOne /\ Idle.step = "idle"
      BY DEF Idle, Requests
<1>3. /\ tab' \in [Tabs -> Requests] /\ tab'[t] = Idle
      /\ \A u \in Tabs : u # t => tab'[u] = tab[u]
      BY <1>1, <1>2 DEF TypeOK, Render
<1>4. tab[t] \in Requests /\ Waiting(t) /\ tab[t].at \in Replicas
      BY <1>1 DEF TypeOK, WellFormed, Waiting, Render
<1>5. /\ cookie'.by = tab[t].at /\ cookie'.flashes = {}
      /\ cookie' \in [by : Replicas \cup {NoOne}, flashes : SUBSET Flashes]
      BY <1>4 DEF Render
<1>6. /\ shown' = shown \cup tab[t].flashes
      /\ shownAgain' = (shownAgain \/ shown \cap tab[t].flashes # {})
      /\ UNCHANGED <<sent, refused, flashed, overlapped, moved>>
      BY DEF Render
<1>7. tab[t].flashes \subseteq flashed
      BY <1>1 DEF WellFormed
<1>8. TypeOK'
      BY <1>1, <1>3, <1>5, <1>6, <1>7 DEF TypeOK
<1>9. WellFormed'
      BY <1>1, <1>2, <1>3, <1>5, <1>6 DEF WellFormed, Waiting
<1>10. Owned'
       BY <1>1, <1>2, <1>3, <1>6, NoOneFresh DEF Owned, WellFormed
<1>11. OneWaits'
       BY <1>1, <1>2, <1>3, <1>6 DEF OneWaits, Waiting
<1>12. NoneHeld' /\ ShownOnce' /\ NothingLost'
  <2>1. SUFFICES ASSUME ~overlapped
                 PROVE  /\ NoneHeld' /\ ShownOnce'
                        /\ ~moved => flashed \ shown' = {}
        BY <1>6 DEF NoneHeld, ShownOnce, NothingLost
  <2>2. \A u \in Tabs : u # t => tab[u].flashes = {}
        BY <1>1, <1>4, <2>1 DEF OneWaits, WellFormed
  <2>3. NoneHeld'
        BY <1>2, <1>3, <1>5, <2>2 DEF NoneHeld
  <2>4. shown \cap tab[t].flashes = {}
        BY <2>1 DEF IInv, NoneHeld
  <2>5. ShownOnce'
        BY <1>6, <2>1, <2>4 DEF IInv, ShownOnce
  <2>6. ASSUME ~moved PROVE flashed \ shown' = {}
    <3>1. cookie.flashes \subseteq tab[t].flashes
          BY <1>4, <2>1, <2>6 DEF IInv, Carried
    <3>2. UNION {tab[u].flashes : u \in Tabs} \subseteq tab[t].flashes
          BY <2>2
    <3>. QED BY <1>6, <2>1, <2>6, <3>1, <3>2 DEF IInv, NothingLost
  <2>. QED BY <2>3, <2>5, <2>6
<1>13. Carried'
       BY <1>5 DEF Carried
<1>. QED BY <1>8, <1>9, <1>10, <1>11, <1>12, <1>13 DEF IInv

-----------------------------------------------------------------------------
(* Every step preserves IInv.                                              *)
LEMMA StepInv == IInv /\ [Next]_vars => IInv'
<1> SUFFICES ASSUME IInv, [Next]_vars PROVE IInv'
    OBVIOUS
<1>1. ASSUME NEW t \in Tabs, Submit(t) PROVE IInv'
  <2>1. PICK s \in Submissions \ sent : Send(t, "post", s) /\ sent' = sent \cup {s}
        BY <1>1 DEF Submit
  <2>. QED BY <1>1, <2>1, SendStep DEF Submit, Waiting
<1>2. ASSUME NEW t \in Tabs, Open(t) PROVE IInv'
      BY <1>2, SendStep DEF Open, Waiting
<1>3. ASSUME NEW t \in Tabs, Look(t) PROVE IInv'
      BY <1>3, SendStep DEF Look, Waiting
<1>4. ASSUME NEW t \in Tabs, tab[t].step = "post"
      PROVE  /\ tab[t].of \in sent /\ Waiting(t)
             /\ \A type \in {"success", "danger"} :
                    Flash(t, type) \in Flashes /\ Flash(t, type).of = tab[t].of
             /\ Follow(t) \in SUBSET {"idle", "follow", "back"}
             /\ refused \subseteq sent
      BY <1>4 DEF IInv, WellFormed, TypeOK, Flash, Flashes, Follow, Waiting
<1>5. ASSUME NEW t \in Tabs, Reject(t) PROVE IInv'
      BY <1>4, <1>5, RespondStep DEF Reject
<1>6. ASSUME NEW t \in Tabs, PostUnanswered(t) PROVE IInv'
      BY <1>4, <1>6, RespondStep DEF PostUnanswered
<1>7. ASSUME NEW t \in Tabs, PostAnswered(t) PROVE IInv'
      BY <1>4, <1>7, RespondStep DEF PostAnswered
<1>8. ASSUME NEW t \in Tabs, VoteAnswered(t) PROVE IInv'
      BY <1>4, <1>8, RespondStep DEF VoteAnswered
<1>9. ASSUME NEW t \in Tabs, NotFound(t) PROVE IInv'
      BY <1>9, RespondStep DEF NotFound, Waiting, IInv, TypeOK
<1>10. ASSUME NEW t \in Tabs, Render(t) PROVE IInv'
       BY <1>10, RenderStep
<1>11. CASE UNCHANGED vars
       BY <1>11 DEF vars, IInv, TypeOK, WellFormed, Owned, OneWaits, NoneHeld, Carried,
          ShownOnce, NothingLost, Waiting
<1>. QED BY <1>1, <1>2, <1>3, <1>5, <1>6, <1>7, <1>8, <1>9, <1>10, <1>11 DEF Next, Serve

(* IInv holds in every reachable state.                                    *)
LEMMA Inductive == Spec => []IInv
<1>. QED BY InitInv, StepInv, PTL DEF Spec

\* Every variable of a browser and its cookie keeps its type.
THEOREM TypeCorrect == Spec => []TypeOK
<1>1. IInv => TypeOK BY DEF IInv
<1>. QED BY Inductive, <1>1, PTL

\* However many replicas sign cookies and however many tabs share one, no
\* message is shown twice unless two tabs waited for responses at once.
THEOREM MessagesAreShownOnce == Spec => []ShownOnce
<1>1. IInv => ShownOnce BY DEF IInv
<1>. QED BY Inductive, <1>1, PTL

\* A message not yet shown is in the cookie or in the session of the request
\* under way, unless tabs overlapped or a request changed the replica.
THEOREM MessagesAreKept == Spec => []NothingLost
<1>1. IInv => NothingLost BY DEF IInv
<1>. QED BY Inductive, <1>1, PTL

-----------------------------------------------------------------------------
(* One submission, one message: nothing is called published on one page    *)
(* and failed on another.                                                  *)

OneVerdict == \A f, g \in flashed : f.of = g.of => f = g

(* A response flashes at most once, about a submission not flashed about.  *)
LEMMA RespondVerdict ==
    ASSUME IInv, OneVerdict, NEW t \in Tabs, NEW new, NEW next, Respond(t, new, next),
           \A f, g \in new : f = g,
           \A f \in new : tab[t].step = "post" /\ f.of = tab[t].of
    PROVE  OneVerdict'
<1>1. \A f \in new, g \in flashed : f.of # g.of
      BY DEF IInv, Owned
<1>2. flashed' = flashed \cup new
      BY DEF Respond
<1>. QED BY <1>1, <1>2 DEF OneVerdict

LEMMA VerdictStep == IInv /\ OneVerdict /\ [Next]_vars => OneVerdict'
<1> SUFFICES ASSUME IInv, OneVerdict, [Next]_vars PROVE OneVerdict'
    OBVIOUS
<1>1. ASSUME NEW t \in Tabs, Submit(t) \/ Open(t) \/ Look(t) \/ Render(t) PROVE OneVerdict'
  <2>1. flashed' = flashed
        BY <1>1 DEF Submit, Open, Look, Render
  <2>. QED BY <2>1 DEF OneVerdict
<1>2. ASSUME NEW t \in Tabs,
             Reject(t) \/ PostUnanswered(t) \/ PostAnswered(t) \/ VoteAnswered(t) \/ NotFound(t)
      PROVE  OneVerdict'
  <2>1. \A type : Flash(t, type).of = tab[t].of
        BY DEF Flash
  <2>2. CASE Reject(t) \/ PostUnanswered(t) \/ PostAnswered(t)
        BY <2>1, <2>2, RespondVerdict DEF Reject, PostUnanswered, PostAnswered
  <2>3. CASE VoteAnswered(t) \/ NotFound(t)
        BY <2>3, RespondVerdict DEF VoteAnswered, NotFound
  <2>. QED BY <1>2, <2>2, <2>3
<1>3. CASE UNCHANGED vars
      BY <1>3 DEF vars, OneVerdict
<1>. QED BY <1>1, <1>2, <1>3 DEF Next, Serve

\* Whatever the services answer, and however tabs and replicas interleave, a
\* browser gets one message about a submission at most: it is never told of
\* one post both that it was published and that it failed (ui_app.rb:115-126).
THEOREM NoTwoVerdicts == Spec => []OneVerdict
<1>1. Init => OneVerdict
      BY DEF Init, OneVerdict
<1>. QED BY InitInv, StepInv, VerdictStep, <1>1, PTL DEF Spec
=============================================================================
