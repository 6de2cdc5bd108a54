----------------------------- MODULE UiSession -----------------------------
(***************************************************************************)
(* What the ui tells a browser about the posts, votes and comments it      *)
(* submits.  The browser has several tabs and one session cookie.  A       *)
(* submission calls the post or the comment service, adds a flash message  *)
(* to the session, but for a vote that is answered, and redirects to a     *)
(* page; the page shows the flashes of the session and clears it           *)
(* (src/ui/ui_app.rb:85-197).                                              *)
(*                                                                         *)
(* The session is the cookie: a request works on the copy it was sent with *)
(* and its response replaces the browser's.  Each ui process signs cookies *)
(* with a random secret of its own, so a cookie of another replica is      *)
(* dropped.  The services are seen through what VoteBoard promises: they   *)
(* execute at most once, and answer 'ok', 'error' or not at all.  A post   *)
(* or comment that was answered 'error' is among those 'refused'.          *)
(***************************************************************************)
EXTENDS Naturals, FiniteSets

CONSTANTS
    Replicas,    \* ui processes the published port spreads requests over; one
                 \* that restarts counts as another
    Tabs,        \* tabs of the browser
    Posts, Votes, Comments, \* the forms it submits, each once
    NoOne        \* no replica, no submission

Submissions == Posts \cup Votes \cup Comments

ASSUME NoOneFresh == NoOne \notin Replicas \cup Submissions

VARIABLES
    cookie,     \* the browser's session cookie
    tab,        \* what each tab is waiting for
    sent,       \* observer: submissions sent so far
    refused,    \* observer: submissions answered though they were not executed
    flashed,    \* observer: flashes added to a session so far
    shown,      \* observer: flashes a page has shown
    shownAgain, \* observer: more than one page has shown the same flash
    overlapped, \* observer: two tabs have waited for a response at once
    moved       \* observer: a request reached another replica than the one
                \* that signed its cookie

vars == <<cookie, tab, sent, refused, flashed, shown, shownAgain, overlapped, moved>>

Flashes == [of : Submissions, type : {"success", "danger"}]

Idle == [step |-> "idle", at |-> NoOne, of |-> NoOne, flashes |-> {}]

Init ==
    /\ cookie = [by |-> NoOne, flashes |-> {}]
    /\ tab = [t \in Tabs |-> Idle]
    /\ sent = {} /\ refused = {}
    /\ flashed = {} /\ shown = {} /\ shownAgain = FALSE
    /\ overlapped = FALSE
    /\ moved = FALSE

Waiting(t) == tab[t].step \in {"post", "render", "look"}

\* A request leaves with the cookie; before opens the session it finds.
Send(t, step, of) ==
    \E r \in Replicas :
        /\ tab' = [tab EXCEPT ![t] = [step |-> step, at |-> r, of |-> of,
                flashes |-> IF cookie.by = r THEN cookie.flashes ELSE {}]]
        /\ moved' = (moved \/ cookie.by \notin {r, NoOne})
        /\ overlapped' = (overlapped \/ \E u \in Tabs \ {t} : Waiting(u))

-----------------------------------------------------------------------------
(* post '/new', '/post/:id/vote/:type' and '/post/:id/comment'.            *)

Submit(t) ==
    /\ tab[t].step = "idle"
    /\ \E s \in Submissions \ sent : Send(t, "post", s) /\ sent' = sent \cup {s}
    /\ UNCHANGED <<cookie, refused, flashed, shown, shownAgain>>

\* Faulty variants: the flashes of earlier requests are dropped; no redirect;
\* the session keeps the flashes a page shows; a flash of the level the event is
\* logged with.
Dropped(t) == {}
Stay(t) == {"idle"}
KeptWhenShown(t) == tab[t].flashes
LoggedLevel == "warning"

\* What the session of a request holds in the end, and where the tab goes: a
\* new post to '/' or back to '/new', others back to '/' or '/post/:id'.
Kept(t) == tab[t].flashes
Follow(t) == IF tab[t].of \in Posts THEN {"follow"} ELSE {"follow", "back"}
AfterShown(t) == {}
InvalidLink == "danger"

Flash(t, type) == [of |-> tab[t].of, type |-> type]

\* The response brings the session back, with the new flashes of the request.
Respond(t, new, next) ==
    /\ cookie' = [by |-> tab[t].at, flashes |-> Kept(t) \cup new]
    /\ flashed' = flashed \cup new
    /\ \E step \in next : tab' = [tab EXCEPT ![t] = [Idle EXCEPT !.step = step]]

\* The link of a new post is no URI.
Reject(t) ==
    /\ tab[t].step = "post" /\ tab[t].of \in Posts
    /\ Respond(t, {Flash(t, InvalidLink)}, Follow(t))
    /\ UNCHANGED <<sent, refused, shown, shownAgain, overlapped, moved>>

\* The call fails or times out, whatever became of the submission: rescue.
PostUnanswered(t) ==
    /\ tab[t].step = "post"
    /\ Respond(t, {Flash(t, "danger")}, Follow(t))
    /\ UNCHANGED <<sent, refused, shown, shownAgain, overlapped, moved>>

\* Any answer is taken for success: nothing looks at its status.
PostAnswered(t) ==
    /\ tab[t].step = "post" /\ tab[t].of \notin Votes
    /\ refused' \in {refused, refused \cup {tab[t].of}}
    /\ Respond(t, {Flash(t, "success")}, Follow(t))
    /\ UNCHANGED <<sent, shown, shownAgain, overlapped, moved>>

\* The score shows that a vote was answered, no message does.
VoteAnswered(t) ==
    /\ tab[t].step = "post" /\ tab[t].of \in Votes
    /\ Respond(t, {}, Follow(t))
    /\ UNCHANGED <<sent, refused, shown, shownAgain, overlapped, moved>>

-----------------------------------------------------------------------------
(* get '/', '/new' and '/post/:id'.                                        *)

\* A page is opened by its user, or by the redirect.
Open(t) ==
    /\ tab[t].step \in {"idle", "follow"}
    /\ Send(t, "render", NoOne)
    /\ UNCHANGED <<cookie, sent, refused, flashed, shown, shownAgain>>

\* get '/post/:id', which the post service may not find.
Look(t) ==
    /\ tab[t].step \in {"idle", "back"}
    /\ Send(t, "look", NoOne)
    /\ UNCHANGED <<cookie, sent, refused, flashed, shown, shownAgain>>

\* halt 404 leaves the session's flashes for the next page.
NotFound(t) ==
    /\ tab[t].step = "look"
    /\ Respond(t, {}, {"idle"})
    /\ UNCHANGED <<sent, refused, shown, shownAgain, overlapped, moved>>

\* @flashes = session[:flashes]; session[:flashes] = nil
Render(t) ==
    /\ tab[t].step \in {"render", "look"}
    /\ cookie' = [by |-> tab[t].at, flashes |-> AfterShown(t)]
    /\ shownAgain' = (shownAgain \/ shown \cap tab[t].flashes # {})
    /\ shown' = shown \cup tab[t].flashes
    /\ tab' = [tab EXCEPT ![t] = Idle]
    /\ UNCHANGED <<sent, refused, flashed, overlapped, moved>>

Serve(t) == Reject(t) \/ PostUnanswered(t) \/ PostAnswered(t) \/ VoteAnswered(t)
            \/ Render(t) \/ NotFound(t)
            \/ (tab[t].step = "follow" /\ Open(t)) \/ (tab[t].step = "back" /\ Look(t))

Next == \E t \in Tabs : Submit(t) \/ Open(t) \/ Look(t) \/ Serve(t)

Spec == Init /\ [][Next]_vars

\* Faraday gives up on a call, puma answers, and browsers follow redirects.
FairSpec == Spec /\ \A t \in Tabs : WF_vars(Serve(t))

-----------------------------------------------------------------------------
(* Properties.                                                             *)

Requests == [step : {"idle", "post", "follow", "back", "render", "look"},
             at : Replicas \cup {NoOne}, of : Submissions \cup {NoOne},
             flashes : SUBSET Flashes]

\* Every variable keeps its type (the session of ui_app.rb:71).
TypeOK ==
    /\ cookie \in [by : Replicas \cup {NoOne}, flashes : SUBSET Flashes]
    /\ tab \in [Tabs -> Requests]
    /\ refused \subseteq sent /\ sent \subseteq Submissions
    /\ flashed \subseteq Flashes
    /\ shown \subseteq flashed /\ shownAgain \in BOOLEAN
    /\ overlapped \in BOOLEAN /\ moved \in BOOLEAN

\* A message appears on one page only, unless two tabs waited for responses at
\* the same time and both were sent the session that held it (ui_app.rb:99).
ShownOnce == ~overlapped => ~shownAgain

\* A message waiting to be shown is always somewhere: in the cookie, or in the
\* session of the one request under way.  Only overlapping tabs and a change
\* of replica lose one.
NothingLost ==
    ~overlapped /\ ~moved =>
        flashed \ shown \subseteq cookie.flashes \cup UNION {tab[t].flashes : t \in Tabs}

\* A post comes to be reported on a page, and so do a comment and a vote that
\* is not answered (ui_app.rb:127, 147, 196), unless tabs overlapped or a request
\* changed the replica.  Other than a new post's, their redirect may end at a page
\* that is not found: the message then waits in the cookie for the next page.
ReportedOnPage(s) == \E f \in shown : f.of = s
AnsweredVote(s) == s \in Votes /\ \A t \in Tabs : tab[t].of # s
NextPageReports(s) ==
    /\ s \notin Posts /\ \A t \in Tabs : tab[t].step \notin {"follow", "back"}
    /\ \E f \in cookie.flashes : f.of = s
Reported == \A s \in Submissions :
    (\E t \in Tabs : tab[t].of = s) ~>
        (overlapped \/ moved \/ ReportedOnPage(s) \/ NextPageReports(s)
         \/ (AnsweredVote(s) /\ \A f \in flashed : f.of # s))

\* 'Post successuly published' (ui_app.rb:124).
SuccessIsTrue == \A f \in shown : f.type = "success" => f.of \notin refused

=============================================================================
