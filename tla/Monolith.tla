------------------------------ MODULE Monolith -----------------------------
(***************************************************************************)
(* reddit/app.rb, the application before it was split into services: one   *)
(* puma process whose threads serve several browsers, with accounts,       *)
(* sessions and votes in one MongoDB.  Signing up looks for the name and   *)
(* then inserts the account; the name is the document's _id, which MongoDB *)
(* keeps unique.  A vote reads the post, adds in Ruby and writes the sum.  *)
(*                                                                         *)
(* A browser waits for its answer before its next request; a thread serves *)
(* each.  The routes that only show pages or insert comments touch none of *)
(* this state.                                                             *)
(***************************************************************************)
EXTENDS Integers, FiniteSets

CONSTANTS
    Browsers, Names, Passwords,
    Posts,       \* ObjectIds inserts may get
    Nobody,      \* no name, no password, no post
    Deltas,      \* what to_i makes of the vote types in use
    Faults,      \* "mongo": operations fail; "link": or fail once executed;
                 \* "late": MongoDB executes a write the driver gave up on
    MaxRequests  \* bound on the requests received

ASSUME NobodyFresh == Nobody \notin Names \cup Passwords \cup Posts
ASSUME DeltasIntegers == Deltas \subseteq Int
ASSUME FaultsKnown == Faults \subseteq {"mongo", "link", "late"}
ASSUME RequestsNatural == MaxRequests \in Nat

VARIABLES
    account,   \* the password of every account, Nobody if there is none
    session,   \* per browser, session[:username]
    stored,    \* the posts
    votes,     \* their votes
    late,      \* per browser, the request a write of which MongoDB may still execute
    job,       \* per browser, the request being served
    received,
    given,     \* observer: per browser, the password its session was opened with
    cast,      \* observer: sum of the votes MongoDB was told to add
    raced      \* observer: posts two votes on which overlapped

accounts == <<account, session, given>>
board == <<stored, votes, cast, raced>>
vars == <<accounts, board, late, job, received>>

AccountJob(step, n, w) == [step |-> step, name |-> n, password |-> w,
                           post |-> Nobody, delta |-> 0, val |-> 0]
VoteJob(step, p, d, v) == [step |-> step, name |-> Nobody, password |-> Nobody,
                           post |-> p, delta |-> d, val |-> v]
Idle == AccountJob("idle", Nobody, Nobody)

Init ==
    /\ account = [n \in Names |-> Nobody]
    /\ session = [b \in Browsers |-> Nobody]
    /\ given = [b \in Browsers |-> Nobody]
    /\ stored = {}
    /\ votes = [p \in Posts |-> 0] /\ cast = votes /\ raced = {}
    /\ job = [b \in Browsers |-> Idle] /\ late = job
    /\ received = 0

-----------------------------------------------------------------------------
Receive(b) ==
    /\ job[b] = Idle
    /\ received < MaxRequests /\ received' = received + 1

\* What a form or a button of a page sends.
SubmitAccount(b) ==
    /\ Receive(b)
    /\ \E step \in {"signup", "login"}, n \in Names, w \in Passwords :
        job' = [job EXCEPT ![b] = AccountJob(step, n, w)]
    /\ UNCHANGED <<accounts, board, late>>

\* logged_in? is asked once, before the post is read.
SubmitVote(b) ==
    /\ Receive(b)
    /\ session[b] # Nobody
    /\ \E p \in stored, d \in Deltas :
        job' = [job EXCEPT ![b] = VoteJob("vote", p, d, 0)]
    /\ UNCHANGED <<accounts, board, late>>

Answer(b) == job' = [job EXCEPT ![b] = Idle]

\* An operation that raises ends the request: with a 500, or with a flash.
Fails(b) ==
    /\ job[b] # Idle /\ Faults # {}
    /\ Answer(b)
    /\ UNCHANGED <<accounts, board, late, received>>

-----------------------------------------------------------------------------
(* Accounts.                                                               *)

OpenSession(b) ==
    /\ session' = [session EXCEPT ![b] = job[b].name]
    /\ given' = [given EXCEPT ![b] = job[b].password]

LookForName(b) ==
    /\ job[b].step = "signup"
    /\ IF account[job[b].name] = Nobody
       THEN job' = [job EXCEPT ![b] = AccountJob("create", @.name, @.password)]
       ELSE Answer(b)
    /\ UNCHANGED <<accounts, board, late, received>>

\* Faulty variants: replace_one(..., upsert: true); a rescued duplicate.
UpsertAccount(n, w) == account' = [account EXCEPT ![n] = w]
IgnoreDuplicate(n, w) ==
    account' = IF account[n] = Nobody THEN [account EXCEPT ![n] = w] ELSE account

\* insert_one raises on a duplicate _id.
InsertAccount(n, w) ==
    /\ account[n] = Nobody
    /\ account' = [account EXCEPT ![n] = w]

CreateAccount(b) ==
    /\ job[b].step = "create"
    /\ InsertAccount(job[b].name, job[b].password)
    /\ OpenSession(b) \/ ("link" \in Faults /\ UNCHANGED <<session, given>>)
    /\ Answer(b)
    /\ UNCHANGED <<board, late, received>>

\* The name was taken in between: the error is not rescued.
DuplicateName(b) ==
    /\ job[b].step = "create" /\ account[job[b].name] # Nobody
    /\ Answer(b)
    /\ UNCHANGED <<accounts, board, late, received>>

Login(b) ==
    /\ job[b].step = "login"
    /\ IF account[job[b].name] = job[b].password
       THEN OpenSession(b)
       ELSE UNCHANGED <<session, given>>
    /\ Answer(b)
    /\ UNCHANGED <<account, board, late, received>>

\* Faulty variant: session[:username] = '', which logged_in? takes for a name.
BlankName == "''"

LoggedOut == Nobody

Logout(b) ==
    /\ Receive(b)
    /\ session' = [session EXCEPT ![b] = LoggedOut]
    /\ UNCHANGED <<account, given, board, late, job>>

-----------------------------------------------------------------------------
(* Posts and votes.                                                        *)

\* insert_one; the document read back only decides which flash is shown.
AddPost(b) ==
    /\ Receive(b)
    /\ \E p \in Posts \ stored : stored' = stored \cup {p}
    /\ UNCHANGED <<accounts, votes, cast, raced, late, job>>

\* Another vote on the post has been read and may still be written.
Overlaps(b) == \E c \in Browsers : \E j \in {job[c], late[c]} :
    j.step = "write" /\ j.post = job[b].post

\* Faulty variant: post['votes'] = params[:type].to_i
OwnVote(p, d) == d

\* post['votes'] += params[:type].to_i
NewVotes(p, d) == votes[p] + d

ReadVotes(b) ==
    /\ job[b].step = "vote"
    /\ LET p == job[b].post IN
       /\ job' = [job EXCEPT ![b] =
                        VoteJob("write", p, @.delta, NewVotes(p, job[b].delta))]
       /\ raced' = IF Overlaps(b) THEN raced \cup {p} ELSE raced
    /\ UNCHANGED <<accounts, stored, votes, cast, late, received>>

\* MongoDB executes find_one_and_update with $set.
SetVotes(j) ==
    /\ votes' = [votes EXCEPT ![j.post] = j.val]
    /\ cast' = [cast EXCEPT ![j.post] = @ + j.delta]

\* The acknowledgement may be lost.
WriteVotes(b) ==
    /\ job[b].step = "write"
    /\ SetVotes(job[b])
    /\ Answer(b)
    /\ UNCHANGED <<accounts, stored, raced, late, received>>

-----------------------------------------------------------------------------
(* A write the driver gives up on, by its socket timeout or because the    *)
(* connection broke, while MongoDB may still execute it.                   *)

\* One per browser at a time.
WriteLeftBehind(b) ==
    /\ "late" \in Faults
    /\ job[b].step \in {"create", "write"} /\ late[b] = Idle
    /\ late' = [late EXCEPT ![b] = job[b]]
    /\ Answer(b)
    /\ UNCHANGED <<accounts, board, received>>

ExecuteLate(b) ==
    /\ \/ /\ late[b].step = "create"
          /\ InsertAccount(late[b].name, late[b].password)
          /\ UNCHANGED <<votes, cast>>
       \/ /\ late[b].step = "write"
          /\ SetVotes(late[b])
          /\ UNCHANGED account
    /\ late' = [late EXCEPT ![b] = Idle]
    /\ UNCHANGED <<session, given, stored, raced, job, received>>

\* It never arrived, or its name was taken.
ForgetLate(b) ==
    /\ late[b] # Idle
    /\ late' = [late EXCEPT ![b] = Idle]
    /\ UNCHANGED <<accounts, board, job, received>>

-----------------------------------------------------------------------------
Next == \E b \in Browsers :
    \/ SubmitAccount(b) \/ SubmitVote(b) \/ Fails(b)
    \/ LookForName(b) \/ CreateAccount(b) \/ DuplicateName(b) \/ Login(b) \/ Logout(b)
    \/ AddPost(b) \/ ReadVotes(b) \/ WriteVotes(b)
    \/ WriteLeftBehind(b) \/ ExecuteLate(b) \/ ForgetLate(b)

Spec == Init /\ [][Next]_vars

-----------------------------------------------------------------------------
(* Properties.                                                             *)

Jobs == [step : {"idle", "signup", "create", "login", "vote", "write"},
         name : Names \cup {Nobody}, password : Passwords \cup {Nobody},
         post : Posts \cup {Nobody}, delta : Deltas \cup {0}, val : Int]

\* Every variable keeps its type (configure, app.rb:10).
TypeOK ==
    /\ account \in [Names -> Passwords \cup {Nobody}]
    /\ session \in [Browsers -> Names \cup {Nobody}]
    /\ given \in [Browsers -> Passwords \cup {Nobody}]
    /\ stored \subseteq Posts
    /\ votes \in [Posts -> Int] /\ cast \in [Posts -> Int] /\ raced \subseteq Posts
    /\ job \in [Browsers -> Jobs] /\ late \in [Browsers -> Jobs]
    /\ received \in 0..MaxRequests

\* However signups interleave and late insertions arrive, an account keeps the
\* password it was created with (post '/signup' looks for the name and inserts
\* it in two steps, app.rb:83-85).
AccountsKeepPasswords ==
    [][\A n \in Names : account[n] # Nobody => account'[n] = account[n]]_vars

\* A browser is only ever logged in to an account whose password it gave: of
\* browsers that sign up with one name at once only the first is let in, and a
\* failed or lost request leaves nobody logged in to an account of another
\* (app.rb:84-86 and 101-102).
SessionsAreProved ==
    \A b \in Browsers : session[b] # Nobody => account[session[b]] = given[b]

\* A vote is only ever lost to another vote on the same post whose read and
\* write, be it executed in time or late, overlapped it
\* (put '/post/:id/vote/:type', app.rb:124-128).
LostOnlyToRaces == \A p \in stored \ raced : votes[p] = cast[p]

=============================================================================
