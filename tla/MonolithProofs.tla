--------------------------- MODULE MonolithProofs --------------------------
(***************************************************************************)
(* Proofs about Monolith, for any browsers, names, posts and faults.       *)
(***************************************************************************)
EXTENDS Monolith, TLAPS

-----------------------------------------------------------------------------
(* Types, and what a request of each kind carries.                         *)

WellFormed ==
    \A b \in Browsers : \A j \in {job[b], late[b]} :
        /\ j.step \in {"signup", "create", "login"} =>
                j.name \in Names /\ j.password \in Passwords
        /\ j.step \in {"vote", "write"} => j.post \in Posts /\ j.delta \in Deltas

Inv1 == TypeOK /\ WellFormed

USE DEF accounts, board, Receive, Answer, OpenSession, InsertAccount, LoggedOut,
        AccountJob, VoteJob

LEMMA InitInv1 == Init => Inv1
BY RequestsNatural DEF Init, Inv1, TypeOK, WellFormed, Idle, Jobs

(* A step that gives a browser a proper job keeps the jobs proper.         *)
LEMMA JobChange ==
    ASSUME Inv1, NEW b \in Browsers, NEW j \in Jobs,
           job' = [job EXCEPT ![b] = j],
           j.step \in {"signup", "create", "login"} =>
                j.name \in Names /\ j.password \in Passwords,
           j.step \in {"vote", "write"} => j.post \in Posts /\ j.delta \in Deltas,
           UNCHANGED late
    PROVE  job' \in [Browsers -> Jobs] /\ WellFormed'
BY DEF Inv1, TypeOK, WellFormed

(* A browser that waits for nothing has the idle job.                     *)
LEMMA IdleJob == Idle \in Jobs /\ Idle.step = "idle"
BY DEF Idle, Jobs

(* One step, by the action taken.                                          *)
LEMMA StepInv1 == Inv1 /\ [Next]_vars => Inv1'
<1> SUFFICES ASSUME Inv1, [Next]_vars PROVE Inv1'
    OBVIOUS
<1> USE RequestsNatural, DeltasIntegers
    DEF Inv1, TypeOK, WellFormed, Jobs, Idle
<1>1. ASSUME NEW b \in Browsers, SubmitAccount(b) PROVE Inv1'
  <2>1. PICK step \in {"signup", "login"}, n \in Names, w \in Passwords :
            job' = [job EXCEPT ![b] = AccountJob(step, n, w)]
        BY <1>1 DEF SubmitAccount
  <2>2. job' \in [Browsers -> Jobs] /\ WellFormed'
        BY <1>1, <2>1, JobChange DEF SubmitAccount
  <2>. QED BY <1>1, <2>2 DEF SubmitAccount
<1>2. ASSUME NEW b \in Browsers, SubmitVote(b) PROVE Inv1'
  <2>1. PICK p \in stored, d \in Deltas :
            job' = [job EXCEPT ![b] = VoteJob("vote", p, d, 0)]
        BY <1>2 DEF SubmitVote
  <2>2. job' \in [Browsers -> Jobs] /\ WellFormed'
        BY <1>2, <2>1, JobChange DEF SubmitVote
  <2>. QED BY <1>2, <2>2 DEF SubmitVote
<1>3. ASSUME NEW b \in Browsers, Fails(b) PROVE Inv1'
      BY <1>3 DEF Fails
<1>4. ASSUME NEW b \in Browsers, LookForName(b) PROVE Inv1'
  <2>1. CASE job' = [job EXCEPT ![b] =
                        AccountJob("create", job[b].name, job[b].password)]
    <3>1. job' \in [Browsers -> Jobs] /\ WellFormed'
          BY <1>4, <2>1, JobChange DEF LookForName
    <3>. QED BY <1>4, <3>1 DEF LookForName
  <2>2. CASE job' = [job EXCEPT ![b] = Idle]
        BY <1>4, <2>2 DEF LookForName
  <2>. QED BY <1>4, <2>1, <2>2 DEF LookForName
<1>5. ASSUME NEW b \in Browsers, CreateAccount(b) PROVE Inv1'
  <2>1. job' \in [Browsers -> Jobs] /\ WellFormed'
        BY <1>5, JobChange, IdleJob DEF CreateAccount
  <2>2. job[b].name \in Names /\ job[b].password \in Passwords
        BY <1>5 DEF CreateAccount
  <2>3. /\ account' \in [Names -> Passwords \cup {Nobody}]
        /\ session' \in [Browsers -> Names \cup {Nobody}]
        /\ given' \in [Browsers -> Passwords \cup {Nobody}]
        BY <1>5, <2>2 DEF CreateAccount
  <2>. QED BY <1>5, <2>1, <2>3 DEF CreateAccount
<1>6. ASSUME NEW b \in Browsers, DuplicateName(b) PROVE Inv1'
      BY <1>6 DEF DuplicateName
<1>7. ASSUME NEW b \in Browsers, Login(b) PROVE Inv1'
  <2>1. job' \in [Browsers -> Jobs] /\ WellFormed'
        BY <1>7, JobChange, IdleJob DEF Login
  <2>2. /\ session' \in [Browsers -> Names \cup {Nobody}]
        /\ given' \in [Browsers -> Passwords \cup {Nobody}]
        BY <1>7 DEF Login
  <2>. QED BY <1>7, <2>1, <2>2 DEF Login
<1>8. ASSUME NEW b \in Browsers, Logout(b) PROVE Inv1'
      BY <1>8 DEF Logout
<1>9. ASSUME NEW b \in Browsers, AddPost(b) PROVE Inv1'
      BY <1>9 DEF AddPost
<1>10. ASSUME NEW b \in Browsers, ReadVotes(b) PROVE Inv1'
  <2> DEFINE v == votes[job[b].post] + job[b].delta
  <2>1. job[b].post \in Posts /\ job[b].delta \in Deltas
        BY <1>10 DEF ReadVotes
  <2>2. v \in Int
    <3>1. votes[job[b].post] \in Int
          BY <2>1
    <3>2. job[b].delta \in Int
          BY <2>1
    <3>. QED BY ONLY <3>1, <3>2
  <2>3. job' = [job EXCEPT ![b] = VoteJob("write", job[b].post, job[b].delta, v)]
        BY <1>10 DEF ReadVotes, NewVotes
  <2> HIDE DEF v
  <2>4. job' \in [Browsers -> Jobs] /\ WellFormed'
        BY <1>10, <2>1, <2>2, <2>3, JobChange DEF ReadVotes
  <2>. QED BY <1>10, <2>1, <2>4 DEF ReadVotes
<1>11. ASSUME NEW b \in Browsers, WriteVotes(b) PROVE Inv1'
  <2>1. job' \in [Browsers -> Jobs] /\ WellFormed'
        BY <1>11, JobChange, IdleJob DEF WriteVotes
  <2>2. job[b].delta \in Int /\ job[b].val \in Int
        BY <1>11 DEF WriteVotes
  <2>3. votes' \in [Posts -> Int] /\ cast' \in [Posts -> Int]
        BY <1>11, <2>2 DEF WriteVotes, SetVotes
  <2>. QED BY <1>11, <2>1, <2>3 DEF WriteVotes
<1>12. ASSUME NEW b \in Browsers, WriteLeftBehind(b) PROVE Inv1'
      BY <1>12 DEF WriteLeftBehind
<1>13. ASSUME NEW b \in Browsers, ExecuteLate(b) PROVE Inv1'
  <2>1. late' \in [Browsers -> Jobs] /\ WellFormed'
        BY <1>13 DEF ExecuteLate
  <2>2. CASE late[b].step = "create"
        BY <1>13, <2>1, <2>2 DEF ExecuteLate
  <2>3. CASE late[b].step = "write"
    <3>1. late[b].delta \in Int /\ late[b].val \in Int
          BY <2>3
    <3>2. votes' \in [Posts -> Int] /\ cast' \in [Posts -> Int]
          BY <1>13, <2>3, <3>1 DEF ExecuteLate, SetVotes
    <3>. QED BY <1>13, <2>1, <2>3, <3>2 DEF ExecuteLate
  <2>. QED BY <1>13, <2>2, <2>3 DEF ExecuteLate
<1>14. ASSUME NEW b \in Browsers, ForgetLate(b) PROVE Inv1'
      BY <1>14 DEF ForgetLate
<1>15. CASE UNCHANGED vars
      BY <1>15 DEF vars
<1>. QED BY <1>1, <1>2, <1>3, <1>4, <1>5, <1>6, <1>7, <1>8, <1>9, <1>10, <1>11,
            <1>12, <1>13, <1>14, <1>15 DEF Next

(* Every variable of the monolith keeps its type (configure, app.rb:10).   *)
THEOREM TypeCorrect == Spec => []TypeOK
<1>1. Inv1 => TypeOK BY DEF Inv1
<1>. QED BY InitInv1, StepInv1, <1>1, PTL DEF Spec

-----------------------------------------------------------------------------
(* Accounts.  No step but the insertion of a new account changes one.      *)

(* One step never changes the password of an account.                      *)
LEMMA AccountStep ==
    Inv1 /\ [Next]_vars =>
        \A n \in Names : account[n] # Nobody => account'[n] = account[n]
<1> SUFFICES ASSUME Inv1, [Next]_vars
             PROVE \A n \in Names : account[n] # Nobody => account'[n] = account[n]
    OBVIOUS
<1>1. ASSUME NEW b \in Browsers, CreateAccount(b)
      PROVE \A n \in Names : account[n] # Nobody => account'[n] = account[n]
      BY <1>1 DEF CreateAccount, Inv1, TypeOK
<1>2. ASSUME NEW b \in Browsers, ExecuteLate(b)
      PROVE \A n \in Names : account[n] # Nobody => account'[n] = account[n]
      BY <1>2 DEF ExecuteLate, Inv1, TypeOK
<1>3. CASE UNCHANGED account
      BY <1>3
<1>. QED BY <1>1, <1>2, <1>3 DEF Next, vars, SubmitAccount, SubmitVote, Fails,
        LookForName, DuplicateName, Login, Logout, AddPost, ReadVotes, WriteVotes,
        WriteLeftBehind, ForgetLate

(* An account keeps the password it was created with, however many signups *)
(* have found its name free (post '/signup', app.rb:83-85).                *)
THEOREM PasswordsAreKept == Spec => AccountsKeepPasswords
<1>1. Inv1 /\ [Next]_vars =>
        [\A n \in Names : account[n] # Nobody => account'[n] = account[n]]_vars
      BY AccountStep
<1>. QED BY InitInv1, StepInv1, <1>1, PTL DEF Spec, AccountsKeepPasswords

(* An open session was opened with a password.                             *)
Opened == \A b \in Browsers : session[b] # Nobody => given[b] \in Passwords

(* One step keeps sessions on accounts whose password was given.           *)
LEMMA SessionStep ==
    Inv1 /\ Opened /\ SessionsAreProved /\ [Next]_vars
        => Opened' /\ SessionsAreProved'
<1> SUFFICES ASSUME Inv1, Opened, SessionsAreProved, [Next]_vars
             PROVE Opened' /\ SessionsAreProved'
    OBVIOUS
<1> USE NobodyFresh DEF Inv1, TypeOK, WellFormed, Opened, SessionsAreProved
<1>1. ASSUME NEW b \in Browsers, CreateAccount(b)
      PROVE Opened' /\ SessionsAreProved'
  <2> DEFINE n == job[b].name
  <2>1. n \in Names /\ job[b].password \in Passwords /\ n # Nobody
        BY <1>1 DEF CreateAccount
  <2>2. /\ account[n] = Nobody /\ account'[n] = job[b].password
        /\ \A k \in Names : k # n => account'[k] = account[k]
        BY <1>1, <2>1 DEF CreateAccount
  <2>3. \A c \in Browsers : session[c] # n
        BY <2>1, <2>2
  <2>4. ASSUME NEW c \in Browsers, session'[c] # Nobody
        PROVE given'[c] \in Passwords /\ account'[session'[c]] = given'[c]
    <3>1. CASE session'[c] = session[c] /\ given'[c] = given[c]
          BY <2>2, <2>3, <2>4, <3>1
    <3>2. CASE c = b /\ session'[c] = n /\ given'[c] = job[b].password
          BY <2>1, <2>2, <3>2
    <3>. QED BY <1>1, <3>1, <3>2 DEF CreateAccount
  <2>. QED BY <2>4
<1>2. ASSUME NEW b \in Browsers, Login(b) PROVE Opened' /\ SessionsAreProved'
      BY <1>2 DEF Login
<1>3. ASSUME NEW b \in Browsers, Logout(b) PROVE Opened' /\ SessionsAreProved'
      BY <1>3 DEF Logout
<1>4. ASSUME NEW b \in Browsers, ExecuteLate(b) PROVE Opened' /\ SessionsAreProved'
  <2>1. UNCHANGED <<session, given>>
        BY <1>4 DEF ExecuteLate
  <2>2. \A n \in Names : account[n] # Nobody => account'[n] = account[n]
        BY <1>4 DEF ExecuteLate
  <2>3. ASSUME NEW c \in Browsers, session'[c] # Nobody
        PROVE given'[c] \in Passwords /\ account'[session'[c]] = given'[c]
    <3>1. /\ session[c] \in Names /\ given[c] \in Passwords
          /\ account[session[c]] = given[c] /\ given[c] # Nobody
          BY <2>1, <2>3
    <3>. QED BY <2>1, <2>2, <3>1
  <2>. QED BY <2>3
<1>5. CASE UNCHANGED accounts
      BY <1>5
<1>. QED BY <1>1, <1>2, <1>3, <1>4, <1>5 DEF Next, vars, SubmitAccount, SubmitVote,
        Fails, LookForName, DuplicateName, AddPost, ReadVotes, WriteVotes,
        WriteLeftBehind, ForgetLate

(* A browser is only ever logged in to an account whose password it gave   *)
(* (app.rb:84-86 and 101-102).                                             *)
THEOREM NobodyElsesAccount == Spec => []SessionsAreProved
<1>1. Init => Opened /\ SessionsAreProved
      BY DEF Init, Opened, SessionsAreProved
<1>. QED BY InitInv1, StepInv1, SessionStep, <1>1, PTL DEF Spec

-----------------------------------------------------------------------------
(* Votes.  On a post never raced on there is at most one vote between its  *)
(* read and its write, be it in time or late, and it is about to write the *)
(* score plus itself.                                                      *)

\* The places a vote may wait in to be written, and the votes on a post there.
Places == Browsers \X {"job", "late"}
At(x) == IF x[2] = "job" THEN job[x[1]] ELSE late[x[1]]
Writing(x, p) == At(x).step = "write" /\ At(x).post = p

Exact ==
    \A p \in Posts \ raced :
        /\ votes[p] = cast[p]
        /\ \A x \in Places : Writing(x, p) =>
              /\ At(x).val = votes[p] + At(x).delta
              /\ \A y \in Places \ {x} : ~Writing(y, p)

(* A step that neither reads nor writes a score keeps Exact if the votes   *)
(* about to be written were there before, each in a place of its own.      *)
LEMMA ExactUntouched ==
    ASSUME Exact, UNCHANGED <<votes, cast, raced>>, NEW from \in [Places -> Places],
           \A x, y \in Places : x # y /\ (At(x).step = "write" /\ At(y).step = "write")'
                => from[x] # from[y],
           \A x \in Places : (At(x).step = "write")' => At(x)' = At(from[x])
    PROVE  Exact'
<1> SUFFICES ASSUME NEW p \in Posts \ raced, NEW x \in Places, Writing(x, p)'
             PROVE  /\ At(x)'.val = votes[p] + At(x)'.delta
                    /\ \A y \in Places \ {x} : ~Writing(y, p)'
    BY DEF Exact
<1>1. At(x)' = At(from[x]) /\ Writing(from[x], p) /\ from[x] \in Places
      BY DEF Writing
<1>2. /\ At(from[x]).val = votes[p] + At(from[x]).delta
      /\ \A y \in Places \ {from[x]} : ~Writing(y, p)
      BY <1>1 DEF Exact
<1>3. ASSUME NEW y \in Places, y # x, Writing(y, p)' PROVE FALSE
  <2>1. At(y)' = At(from[y]) /\ from[y] \in Places /\ from[y] # from[x]
        BY <1>3 DEF Writing
  <2>. QED BY <1>2, <1>3, <2>1 DEF Writing
<1>. QED BY <1>1, <1>2, <1>3

(* The usual case: no vote moves.                                          *)
LEMMA ExactStays ==
    ASSUME Exact, UNCHANGED <<votes, cast, raced>>,
           \A x \in Places : (At(x).step = "write")' => At(x)' = At(x)
    PROVE  Exact'
<1> DEFINE from == [x \in Places |-> x]
<1>1. from \in [Places -> Places]
      OBVIOUS
<1>2. /\ \A x, y \in Places : x # y => from[x] # from[y]
      /\ \A x \in Places : (At(x).step = "write")' => At(x)' = At(from[x])
      OBVIOUS
<1> HIDE DEF from
<1>. QED BY <1>1, <1>2, ExactUntouched

(* MongoDB executes the vote of a place, which leaves it.                  *)
LEMMA ExactWrite ==
    ASSUME Inv1, Exact, NEW x \in Places, At(x).step = "write", SetVotes(At(x)),
           UNCHANGED raced,
           \A y \in Places : (At(y).step = "write")' => y # x /\ At(y)' = At(y)
    PROVE  Exact'
<1> DEFINE q == At(x).post
<1>1. /\ q \in Posts /\ votes \in [Posts -> Int] /\ cast \in [Posts -> Int]
      /\ votes' = [votes EXCEPT ![q] = At(x).val]
      /\ cast' = [cast EXCEPT ![q] = @ + At(x).delta]
      BY DEF SetVotes, Inv1, TypeOK, WellFormed, At, Places
<1> SUFFICES ASSUME NEW p \in Posts \ raced
             PROVE  /\ votes'[p] = cast'[p]
                    /\ \A y \in Places : Writing(y, p)' =>
                          /\ At(y)'.val = votes'[p] + At(y)'.delta
                          /\ \A z \in Places \ {y} : ~Writing(z, p)'
    BY DEF Exact
<1>2. /\ votes[p] = cast[p]
      /\ \A y \in Places : Writing(y, p) =>
            /\ At(y).val = votes[p] + At(y).delta
            /\ \A z \in Places \ {y} : ~Writing(z, p)
      BY DEF Exact
<1>3. \A y \in Places : Writing(y, p)' => y # x /\ At(y)' = At(y) /\ Writing(y, p)
      BY DEF Writing
<1>4. CASE p = q
  <2>1. Writing(x, p)
        BY <1>4 DEF Writing
  <2>. QED BY <1>1, <1>2, <1>3, <1>4, <2>1
<1>5. CASE p # q
      BY <1>1, <1>2, <1>3, <1>5
<1>. QED BY <1>4, <1>5

(* One step.                                                               *)
LEMMA ExactStep == Inv1 /\ Exact /\ [Next]_vars => Exact'
<1> SUFFICES ASSUME Inv1, Exact, [Next]_vars PROVE Exact'
    OBVIOUS
<1> USE DEF Inv1, TypeOK
<1>1. ASSUME NEW b \in Browsers, ReadVotes(b) PROVE Exact'
  <2> DEFINE q == job[b].post
             w == <<b, "job">>
  <2>1. /\ w \in Places /\ q \in Posts /\ UNCHANGED <<votes, cast, late>>
        /\ raced \subseteq raced'
        /\ job' = [job EXCEPT ![b] = VoteJob("write", q, @.delta, votes[q] + @.delta)]
        BY <1>1 DEF ReadVotes, NewVotes, WellFormed, Places
  <2>2. /\ At(w)'.step = "write" /\ At(w)'.post = q
        /\ At(w)'.val = votes[q] + At(w)'.delta
        BY <2>1 DEF At
  <2>3. \A y \in Places \ {w} : At(y)' = At(y)
        BY <2>1 DEF At, Places
  <2>4. q \notin raced' => \A y \in Places : ~Writing(y, q)
        BY <1>1 DEF ReadVotes, Overlaps, Writing, At, Places
  <2> HIDE DEF q, w
  <2> SUFFICES ASSUME NEW p \in Posts \ raced'
               PROVE  /\ votes'[p] = cast'[p]
                      /\ \A y \in Places : Writing(y, p)' =>
                            /\ At(y)'.val = votes'[p] + At(y)'.delta
                            /\ \A z \in Places \ {y} : ~Writing(z, p)'
      BY DEF Exact
  <2>5. /\ votes[p] = cast[p]
        /\ \A y \in Places : Writing(y, p) =>
              /\ At(y).val = votes[p] + At(y).delta
              /\ \A z \in Places \ {y} : ~Writing(z, p)
        BY <2>1 DEF Exact
  <2>6. CASE p = q
    <3>1. \A y \in Places \ {w} : ~Writing(y, p)'
          BY <2>3, <2>4, <2>6 DEF Writing
    <3>. QED BY <2>1, <2>2, <2>5, <2>6, <3>1
  <2>7. CASE p # q
    <3>1. ~Writing(w, p)'
          BY <2>2, <2>7 DEF Writing
    <3>2. \A y \in Places : Writing(y, p)' => At(y)' = At(y) /\ Writing(y, p)
          BY <2>3, <3>1 DEF Writing
    <3>. QED BY <2>1, <2>5, <3>2
  <2>. QED BY <2>6, <2>7
<1>2. ASSUME NEW b \in Browsers, WriteVotes(b) PROVE Exact'
  <2>1. <<b, "job">> \in Places /\ At(<<b, "job">>) = job[b]
        BY DEF Places, At
  <2>2. \A y \in Places : (At(y).step = "write")' => y # <<b, "job">> /\ At(y)' = At(y)
        BY <1>2 DEF WriteVotes, At, Places, Idle
  <2>. QED BY <1>2, <2>1, <2>2, ExactWrite DEF WriteVotes
<1>3. ASSUME NEW b \in Browsers, ExecuteLate(b) PROVE Exact'
  <2>1. \A y \in Places : (At(y).step = "write")' => y # <<b, "late">> /\ At(y)' = At(y)
        BY <1>3 DEF ExecuteLate, At, Places, Idle
  <2>2. CASE late[b].step = "create"
        BY <1>3, <2>1, <2>2, ExactStays DEF ExecuteLate
  <2>3. CASE late[b].step = "write"
    <3>1. <<b, "late">> \in Places /\ At(<<b, "late">>) = late[b]
          BY DEF Places, At
    <3>. QED BY <1>3, <2>1, <2>3, <3>1, ExactWrite DEF ExecuteLate
  <2>. QED BY <1>3, <2>2, <2>3 DEF ExecuteLate
<1>4. ASSUME NEW b \in Browsers, WriteLeftBehind(b) PROVE Exact'
  <2> DEFINE from == [x \in Places |-> IF x = <<b, "late">> THEN <<b, "job">> ELSE x]
  <2>1. from \in [Places -> Places]
        BY DEF Places
  <2>2. /\ UNCHANGED <<votes, cast, raced>>
        /\ late' = [late EXCEPT ![b] = job[b]] /\ job' = [job EXCEPT ![b] = Idle]
        BY <1>4 DEF WriteLeftBehind
  <2>3. \A x \in Places : (At(x).step = "write")' => At(x)' = At(from[x]) /\ x # <<b, "job">>
        BY <2>2 DEF At, Places, Idle
  <2>4. \A x, y \in Places : x # y /\ (At(x).step = "write" /\ At(y).step = "write")'
            => from[x] # from[y]
        BY <2>3
  <2> HIDE DEF from
  <2>. QED BY <2>1, <2>2, <2>3, <2>4, ExactUntouched
<1>5. ASSUME NEW b \in Browsers,
             \/ SubmitAccount(b) \/ SubmitVote(b) \/ Fails(b) \/ LookForName(b)
             \/ CreateAccount(b) \/ DuplicateName(b) \/ Login(b) \/ Logout(b)
             \/ AddPost(b) \/ ForgetLate(b)
      PROVE Exact'
  <2>1. UNCHANGED <<votes, cast, raced>>
        BY <1>5 DEF SubmitAccount, SubmitVote, Fails, LookForName, CreateAccount,
                    DuplicateName, Login, Logout, AddPost, ForgetLate
  <2>2. \A c \in Browsers : /\ job'[c] = job[c] \/ job'[c].step # "write"
                            /\ late'[c] = late[c] \/ late'[c].step # "write"
        BY <1>5 DEF SubmitAccount, SubmitVote, Fails, LookForName, CreateAccount,
                    DuplicateName, Login, Logout, AddPost, ForgetLate, Idle
  <2>3. \A x \in Places : (At(x).step = "write")' => At(x)' = At(x)
        BY <2>2 DEF At, Places
  <2>. QED BY <2>1, <2>3, ExactStays
<1>6. CASE UNCHANGED vars
      BY <1>6, ExactStays DEF vars, At
<1>. QED BY <1>1, <1>2, <1>3, <1>4, <1>5, <1>6 DEF Next

(* A vote is only ever lost to another vote on the same post that          *)
(* overlapped it, be it executed in time or late                           *)
(* (put '/post/:id/vote/:type', app.rb:124-128).                           *)
THEOREM OnlyRacesLoseVotes == Spec => []LostOnlyToRaces
<1>1. Init => Exact
      BY DEF Init, Exact, Writing, At, Places, Idle
<1>2. Inv1 /\ Exact => LostOnlyToRaces
      BY DEF Inv1, TypeOK, Exact, LostOnlyToRaces
<1>. QED BY InitInv1, StepInv1, ExactStep, <1>1, <1>2, PTL DEF Spec

(* Every vote MongoDB was told to add is in the score.                     *)
NoVoteLost == \A p \in Posts : votes[p] = cast[p]

(* No write is ever left behind.                                           *)
NoneLate == \A b \in Browsers : late[b] = Idle

(* A single browser, whose requests never overlap, loses no vote MongoDB   *)
(* executes, provided that MongoDB executes none after the driver has      *)
(* given up on it: besides threads, only such a late write loses votes.    *)
THEOREM OneBrowserExact ==
    ASSUME \A b, c \in Browsers : b = c, "late" \notin Faults
    PROVE  Spec => []NoVoteLost
<1>1. Init => Exact /\ NoneLate /\ (raced = {})
      BY DEF Init, Exact, NoneLate, Writing, At, Places, Idle
<1>2. Inv1 /\ NoneLate /\ (raced = {}) /\ [Next]_vars => NoneLate' /\ (raced = {})'
  <2> SUFFICES ASSUME NoneLate, raced = {}, [Next]_vars PROVE NoneLate' /\ raced' = {}
      OBVIOUS
  <2>1. ASSUME NEW b \in Browsers, ReadVotes(b) PROVE NoneLate' /\ raced' = {}
        BY <2>1 DEF ReadVotes, Overlaps, NoneLate, Idle
  <2>2. ASSUME NEW b \in Browsers, ExecuteLate(b) \/ ForgetLate(b) PROVE FALSE
        BY <2>2 DEF ExecuteLate, ForgetLate, NoneLate, Idle
  <2>. QED BY <2>1, <2>2 DEF Next, SubmitAccount, SubmitVote, Fails, LookForName,
            CreateAccount, DuplicateName, Login, Logout, AddPost, WriteVotes,
            WriteLeftBehind, NoneLate, vars
<1>3. Exact /\ raced = {} => NoVoteLost
      BY DEF Exact, NoVoteLost
<1>. QED BY InitInv1, StepInv1, ExactStep, <1>1, <1>2, <1>3, PTL DEF Spec

=============================================================================
