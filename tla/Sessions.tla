-------------------------------- MODULE Sessions --------------------------------
(***************************************************************************)
(* The two public doors and what closes a session: packages/domain/src/auth *)
(* (the hooks it gives Better Auth, and createAuthHandler) and the Admin's   *)
(* revokeSessions.                                                          *)
(*                                                                          *)
(* A request is a process: the library calls the hooks one after the other  *)
(* and other requests run between two of them.  What the library does is    *)
(* taken at the weakest the code can rest on: a link or an OAuth state is   *)
(* consumed once; a session is deleted, or its failure is swallowed.        *)
(***************************************************************************)
EXTENDS FiniteSets

CONSTANTS
  Accounts,    \* rows of user
  Links,       \* verification rows of magic links
  Flows,       \* verification rows of Google's OAuth state
  Browsers,    \* where a Google sign-in starts and returns
  SessionIds,  \* rows session may hold
  Requests,    \* requests in flight at once
  Tokens,      \* setup links an enrolment may print
  Codes,       \* backup codes of one second factor
  None         \* SQL NULL, or nothing

Rows == Links \cup Flows
\* What a verifier may type: one of the ten codes, or the authenticator's digits.
Typed == Codes \cup {"totp"}

ASSUME DoorsAreTwo == Links \cap Flows = {}
ASSUME SessionsNone ==
  /\ None \notin Accounts /\ None \notin Rows /\ None \notin SessionIds
  /\ None \notin Tokens /\ None \notin Typed
ASSUME TotpIsNoBackupCode == "totp" \notin Codes

VARIABLES
  isAdmin,     \* user.is_admin
  row,         \* verification: a link or an OAuth state, with her answer
  cookie,      \* each browser's state cookie and shared-device cookie
  challenges,  \* links whose browser holds a sign-in challenge
  session,     \* session rows, and what each was opened with
  pc,          \* where each request is
  job          \* what each request carries

sessionVars == <<isAdmin, row, cookie, challenges, session, pc, job>>
-----------------------------------------------------------------------------
RowStates == {"unsent", "live", "expired", "gone"}
Methods == {"magic_link", "google", "link_totp"}
Lives == {"own", "shared", "admin"}

RowRecords ==
  [state : RowStates, account : Accounts \cup {None}, shared : BOOLEAN, mailed : BOOLEAN]
Cookies == [flow : Flows \cup {None}, shared : BOOLEAN]

\* `origin`, `granted`, `token` and `code` are history: the row she came by, the
\* grant as it stood when the request came, and the second factor it presented.
SessionRecords ==
  [state : {"unused", "live", "expired", "gone"}, account : Accounts \cup {None},
   method : Methods \cup {None}, life : Lives \cup {None}, origin : Rows \cup {None},
   granted : BOOLEAN, token : Tokens \cup {None}, code : Typed \cup {None}]

Jobs ==
  [origin : Rows \cup {None}, account : Accounts \cup {None}, shared : BOOLEAN,
   granted : BOOLEAN, session : SessionIds \cup {None}, listed : SUBSET SessionIds]

OpeningPCs == {"opening", "consumed", "creating"}
ClosingPCs == {"leaving", "left", "signedOut", "counting", "counted", "revoked", "everywhere"}
PCs == {"idle", "authorised"} \cup OpeningPCs \cup ClosingPCs

NoRow == [state |-> "unsent", account |-> None, shared |-> FALSE, mailed |-> FALSE]
NoCookie == [flow |-> None, shared |-> FALSE]
NoSession ==
  [state |-> "unused", account |-> None, method |-> None, life |-> None, origin |-> None,
   granted |-> FALSE, token |-> None, code |-> None]
NoJob ==
  [origin |-> None, account |-> None, shared |-> FALSE, granted |-> FALSE,
   session |-> None, listed |-> {}]

SessionsInit ==
  /\ isAdmin = [a \in Accounts |-> FALSE]
  /\ row = [l \in Rows |-> NoRow]
  /\ cookie = [b \in Browsers |-> NoCookie]
  /\ challenges = {}
  /\ session = [s \in SessionIds |-> NoSession]
  /\ pc = [r \in Requests |-> "idle"]
  /\ job = [r \in Requests |-> NoJob]

IsLive(s) == session[s].state = "live"
Goto(r, to) == pc' = [pc EXCEPT ![r] = to]
Carry(r, with) == job' = [job EXCEPT ![r] = with]
Finish(r) == Goto(r, "idle") /\ Carry(r, NoJob)
-----------------------------------------------------------------------------
(* Asking for a link, and starting at Google *)

\* Both insert a verification row, and the insert's after-hook sweeps the expired.
Swept == [l \in Rows |-> IF row[l].state = "expired" THEN [row[l] EXCEPT !.state = "gone"] ELSE row[l]]

StoreLink(l, a, shared) ==
  /\ row[l].state = "unsent"
  /\ row' = [row EXCEPT ![l] = [state |-> "live", account |-> a, shared |-> shared, mailed |-> FALSE]]
  /\ UNCHANGED <<isAdmin, cookie, challenges, session, pc, job>>

\* A sweep that throws fails the request, and no mail leaves.
MailLink(l) ==
  /\ l \in Links
  /\ row[l].state # "unsent"
  /\ ~row[l].mailed
  /\ row' = [Swept EXCEPT ![l].mailed = TRUE]
  /\ UNCHANGED <<isAdmin, cookie, challenges, session, pc, job>>

\* The two cookies leave in one response, so one browser keeps one flow's pair.
StartGoogle(f, b, shared) ==
  /\ row[f].state = "unsent"
  /\ row' = [Swept EXCEPT ![f] = [state |-> "live", account |-> None, shared |-> shared, mailed |-> FALSE]]
  /\ cookie' = [cookie EXCEPT ![b] = [flow |-> f, shared |-> shared]]
  /\ UNCHANGED <<isAdmin, challenges, session, pc, job>>

ExpireRow(l) ==
  /\ row[l].state = "live"
  /\ row' = [row EXCEPT ![l].state = "expired"]
  /\ UNCHANGED <<isAdmin, cookie, challenges, session, pc, job>>
-----------------------------------------------------------------------------
(* Opening a session *)

\* The row looked for where the session is created, by when it is consumed.
ReadLateInstead(l) == FALSE
\* The answer is read before the library consumes the row that carries it.
AnswerOf(l) == row[l].state \in {"live", "expired"} /\ row[l].shared

OpeningJob(l, a, shared) ==
  [origin |-> l, account |-> a, shared |-> shared, granted |-> isAdmin[a], session |-> None, listed |-> {}]

OpenLink(r, l) ==
  /\ pc[r] = "idle"
  /\ l \in Links
  /\ row[l].mailed
  /\ Goto(r, "opening")
  /\ Carry(r, OpeningJob(l, row[l].account, AnswerOf(l)))
  /\ UNCHANGED <<isAdmin, row, cookie, challenges, session>>

\* The library refuses a callback whose state cookie names another flow.
GoogleCallback(r, b, a) ==
  /\ pc[r] = "idle"
  /\ cookie[b].flow # None
  /\ Goto(r, "opening")
  /\ Carry(r, OpeningJob(cookie[b].flow, a, cookie[b].shared))
  /\ UNCHANGED <<isAdmin, row, cookie, challenges, session>>

\* One request of all that present a row consumes it.
Consume(r) ==
  LET l == job[r].origin IN
  /\ pc[r] = "opening"
  /\ row[l].state = "live"
  /\ row' = [row EXCEPT ![l].state = "gone", ![l].account = job[r].account]
  /\ Goto(r, "consumed")
  /\ UNCHANGED <<isAdmin, cookie, challenges, session, job>>

MethodOf(l) == IF l \in Links THEN "magic_link" ELSE "google"

\* refuseDoorThatIsNotTheAdminDoor: the grant, read behind the consumed row.
LinkOnlyInstead(r) == MethodOf(job[r].origin) = "magic_link" /\ isAdmin[job[r].account]
Refused(r) == isAdmin[job[r].account]

PassTheDoor(r) ==
  /\ pc[r] = "consumed"
  /\ ~Refused(r)
  /\ Goto(r, "creating")
  /\ UNCHANGED <<isAdmin, row, cookie, challenges, session, job>>

\* An Admin's link leaves a challenge where a session would be; Google, nothing.
RefuseTheDoor(r) ==
  LET l == job[r].origin IN
  /\ pc[r] = "consumed"
  /\ Refused(r)
  /\ challenges' = IF l \in Links THEN challenges \cup {l} ELSE challenges
  /\ Finish(r)
  /\ UNCHANGED <<isAdmin, row, cookie, session>>

\* sessionSecondsFor
LifeOf(method, shared) ==
  IF method = "link_totp" THEN "admin" ELSE IF shared THEN "shared" ELSE "own"

InsertSession(s, a, method, j, token, code) ==
  /\ session[s].state = "unused"
  /\ session' = [session EXCEPT ![s] =
       [state |-> "live", account |-> a, method |-> method, life |-> LifeOf(method, j.shared),
        origin |-> j.origin, granted |-> j.granted, token |-> token, code |-> code]]

CreateSession(r, s) ==
  /\ pc[r] = "creating"
  /\ InsertSession(s, job[r].account, MethodOf(job[r].origin), job[r], None, None)
  /\ Finish(r)
  /\ UNCHANGED <<isAdmin, row, cookie, challenges>>
-----------------------------------------------------------------------------
(* Closing sessions *)

\* The library deletes the row and clears the cookie, or fails and says nothing.
Close(gone) ==
  session' = [s \in SessionIds |->
    IF s \in gone THEN [session[s] EXCEPT !.state = "gone"] ELSE session[s]]

SignOut(r, s) ==
  /\ pc[r] = "idle"
  /\ session[s].state # "unused"
  /\ Goto(r, "leaving")
  /\ Carry(r, [NoJob EXCEPT !.session = s])
  /\ UNCHANGED <<isAdmin, row, cookie, challenges, session>>

LibrarySignOut(r) ==
  /\ pc[r] = "leaving"
  /\ \E gone \in SUBSET {job[r].session} : Close(gone)
  /\ Goto(r, "left")
  /\ UNCHANGED <<isAdmin, row, cookie, challenges, job>>

\* The library's word for it.
UnreadInstead(r) ==
  /\ pc[r] = "left"
  /\ Goto(r, "signedOut")
  /\ UNCHANGED <<isAdmin, row, cookie, challenges, session, job>>
\* ok only when the session can no longer be read.
ConfirmSignOut(r) ==
  /\ pc[r] = "left"
  /\ ~IsLive(job[r].session)
  /\ Goto(r, "signedOut")
  /\ UNCHANGED <<isAdmin, row, cookie, challenges, session, job>>

\* listAccountSessions, without the one that asks.
OthersOf(a, s) == {o \in SessionIds : IsLive(o) /\ session[o].account = a} \ {s}

SignOutEverywhere(r, s) ==
  /\ pc[r] = "idle"
  /\ IsLive(s)
  /\ Goto(r, "counting")
  /\ Carry(r, [NoJob EXCEPT !.session = s, !.account = session[s].account])
  /\ UNCHANGED <<isAdmin, row, cookie, challenges, session>>

CountBefore(r) ==
  /\ pc[r] = "counting"
  /\ Carry(r, [job[r] EXCEPT !.listed = OthersOf(job[r].account, job[r].session)])
  /\ Goto(r, "counted")
  /\ UNCHANGED <<isAdmin, row, cookie, challenges, session>>

RevokeOtherSessions(r) ==
  /\ pc[r] = "counted"
  /\ \E gone \in SUBSET OthersOf(job[r].account, job[r].session) : Close(gone)
  /\ Goto(r, "revoked")
  /\ UNCHANGED <<isAdmin, row, cookie, challenges, job>>

\* The library's answer, and the count taken before it.
UncountedInstead(r) ==
  /\ pc[r] = "revoked"
  /\ Goto(r, "everywhere")
  /\ UNCHANGED <<isAdmin, row, cookie, challenges, session, job>>
CountAfter(r) ==
  /\ pc[r] = "revoked"
  /\ OthersOf(job[r].account, job[r].session) = {}
  /\ Goto(r, "everywhere")
  /\ UNCHANGED <<isAdmin, row, cookie, challenges, session, job>>

ExpireSession(s) ==
  /\ IsLive(s)
  /\ session' = [session EXCEPT ![s].state = "expired"]
  /\ UNCHANGED <<isAdmin, row, cookie, challenges, pc, job>>

\* It answered, was refused, threw or died: what it wrote stays written.
Leave(r) ==
  /\ pc[r] # "idle"
  /\ Finish(r)
  /\ UNCHANGED <<isAdmin, row, cookie, challenges, session>>
-----------------------------------------------------------------------------
(* The Admin's gate *)

\* Only the grant is asked for: the session may be older than it.
GrantOnlyInstead(s) == IsLive(s) /\ isAdmin[session[s].account]
RequireAdminSession(s) ==
  IsLive(s) /\ isAdmin[session[s].account] /\ session[s].method = "link_totp"

AuthoriseRevoke(r, s, a) ==
  /\ pc[r] = "idle"
  /\ RequireAdminSession(s)
  /\ Goto(r, "authorised")
  /\ Carry(r, [NoJob EXCEPT !.account = a])
  /\ UNCHANGED <<isAdmin, row, cookie, challenges, session>>

\* One DELETE of the Account's rows, its AdminAction beside it.
RevokeSessions(r) ==
  /\ pc[r] = "authorised"
  /\ Close({s \in SessionIds : session[s].state # "unused" /\ session[s].account = job[r].account})
  /\ Finish(r)
  /\ UNCHANGED <<isAdmin, row, cookie, challenges>>

Ask ==
  \/ \E l \in Links, a \in Accounts, shared \in BOOLEAN : StoreLink(l, a, shared)
  \/ \E l \in Links : MailLink(l)
  \/ \E f \in Flows, b \in Browsers, shared \in BOOLEAN : StartGoogle(f, b, shared)
  \/ \E l \in Rows : ExpireRow(l)

Open(r) ==
  \/ \E l \in Links : OpenLink(r, l)
  \/ \E b \in Browsers, a \in Accounts : GoogleCallback(r, b, a)
  \/ Consume(r) \/ PassTheDoor(r) \/ RefuseTheDoor(r)
  \/ \E s \in SessionIds : CreateSession(r, s)

CloseOne(r) ==
  \/ \E s \in SessionIds : SignOut(r, s)
  \/ LibrarySignOut(r) \/ ConfirmSignOut(r)

CloseMany(r) ==
  \/ \E s \in SessionIds : SignOutEverywhere(r, s)
  \/ CountBefore(r) \/ RevokeOtherSessions(r) \/ CountAfter(r)
  \/ \E s \in SessionIds, a \in Accounts : AuthoriseRevoke(r, s, a)
  \/ RevokeSessions(r)

SessionsNext ==
  \/ Ask
  \/ \E r \in Requests : Open(r) \/ CloseOne(r) \/ CloseMany(r) \/ Leave(r)
  \/ \E s \in SessionIds : ExpireSession(s)
=============================================================================
